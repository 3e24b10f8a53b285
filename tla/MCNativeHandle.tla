--------------------------- MODULE MCNativeHandle ---------------------------
(* A small instance of NativeHandle for TLC. *)
EXTENDS NativeHandle

CONSTANTS a, b, t1, t2, t3

(* On t1 callbacks lead from either node of a LoopbackBearer pair to its    *)
(* partner and back, on t2 from a to itself; other calls make none.         *)
Pumping == {t1} \X Node \X Node \cup {<<t2, a, a>>}
=============================================================================
