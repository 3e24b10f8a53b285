\* The option list of native-artifacts.py as committed: nothing lands.
SPECIFICATION FairSpec
CONSTANTS
  MaxCommits = 2
  MaxRuns = 1
  MaxAttempts = 2
  MaxNative = 2
  File = {1}
  Faithful = {1, 2}
  Declares = {2}
  Required <- MCCommitted
  Faults = {"main", "rerun"}
  None = None
PROPERTY Lands
CHECK_DEADLOCK FALSE
