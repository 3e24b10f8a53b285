\* Two groups and both authorising jobs, three attempts of either run.
SPECIFICATION Spec
CONSTANTS
  Group = {android, apple}
  CIJob = {guards, gate}
  MaxCI = 3
  MaxAttempts = 3
INVARIANTS TypeOK Authorized FreshParts Assembles
CHECK_DEADLOCK FALSE
