\* The core, and two crates that each depend on it and on nothing else of
\* ours; one also on a third-party package.
SPECIFICATION FairSpec
CONSTANTS
  core = core
  wasm = wasm
  sqlite = sqlite
  libhop = libhop
  rusqlite = rusqlite
  Crate <- Standalone
  Foreign = {rusqlite}
  FirstParty <- Standalone
  Needs <- StandaloneNeeds
  MaxVersion = 3
  None = None
INVARIANTS TypeOK LocksAgree OnlyMidRelease RedForRangesOnly
PROPERTY BumpLands
