\* Every kind of host, mirror commit and bundle, with two failures.
SPECIFICATION FairSpec
CONSTANTS
  map = map
  othermap = othermap
  header = header
  oldheader = oldheader
  text = text
  good = good
  other = other
  MapIn <- MCMapIn
  Anchors <- MCAnchors
  Refused = Refused
  Order <- MCOrder
  Machine <- MCMachine
  Bundles <- MCBundles
  Source <- MCSource
  Mirrors <- MCMirrors
  Scribbles <- MCScribbles
  Scrap = Scrap
  Paths = 2
  MaxFaults = 2
  None = None
INVARIANTS TypeOK ShipsBundle ReleasesProven ModesRestored
PROPERTY RetriesLand
CHECK_DEADLOCK FALSE
