\* A crate that depends on two of ours.
SPECIFICATION Spec
CONSTANTS
  core = core
  wasm = wasm
  sqlite = sqlite
  libhop = libhop
  rusqlite = rusqlite
  Crate <- Layered
  Foreign = {}
  FirstParty <- Layered
  Needs <- LayeredNeeds
  MaxVersion = 2
  None = None
INVARIANT LocksAgree
