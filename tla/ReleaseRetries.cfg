\* One tag on one commit: lost answers, lapsed artifacts, re-runs of every run.
SPECIFICATION Spec
CONSTANTS
  MaxCommits = 1
  MaxRuns = 1
  MaxAttempts = 2
  MaxNative = 2
  File = {1, 2}
  Faithful = {1}
  Declares = {1}
  Required <- MCRepaired
  Faults = {"network", "expiry", "rerun"}
  None = None
INVARIANTS TypeOK AuthorizedOnly ExactFiles ReleasedIsDeployed Resumable SelectedBundle
CHECK_DEADLOCK FALSE
