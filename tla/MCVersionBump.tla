---------------------------- MODULE MCVersionBump ----------------------------
(* VersionBump on the crates verify_standalone_lock names, and with libhop, *)
(* which builds on two of them.                                             *)
EXTENDS VersionBump

CONSTANTS core, wasm, sqlite, libhop, rusqlite

Standalone == {core, wasm, sqlite}
StandaloneNeeds ==
  [k \in Standalone |-> CASE k = core -> {}
                          [] k = wasm -> {core}
                          [] k = sqlite -> {core, rusqlite}]
Layered == {core, sqlite, libhop}
LayeredNeeds ==
  [k \in Layered |-> CASE k = core -> {}
                       [] k = sqlite -> {core}
                       [] k = libhop -> {core, sqlite}]
=============================================================================
