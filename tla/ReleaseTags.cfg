\* The tag is deleted, pushed again and moved while main and the runs go on;
\* a release that nothing changes under lands.
SPECIFICATION FairSpec
CONSTANTS
  MaxCommits = 2
  MaxRuns = 2
  MaxAttempts = 1
  MaxNative = 1
  File = {1}
  Faithful = {1}
  Declares = {1, 2}
  Required <- MCRepaired
  Faults = {"main", "retag", "rerun"}
  None = None
INVARIANTS CurrentAtTag AuthorizedOnly
PROPERTY Lands
CHECK_DEADLOCK FALSE
