--------------------------- MODULE MCBearerManager ---------------------------
(* Small instances of BearerManager for TLC. *)
EXTENDS BearerManager, TLC

CONSTANTS ble1, ble2, t1, t2

(* Two bearers that share a transport name, and one alone. *)
Shared == ble1 :> "BLE" @@ ble2 :> "BLE"
Sole == ble1 :> "BLE"

Symmetry == Permutations(Controller)
=============================================================================
