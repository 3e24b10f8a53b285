------------------------------- MODULE Transport -------------------------------
(***************************************************************************)
(* The tie-breaker of Transport.kt: of two peers that discover each other  *)
(* the one with the greater node id dials.  A Kotlin byte is signed.       *)
(***************************************************************************)
EXTENDS Integers, Sequences

Byte == -128..127
ByteArray == Seq(Byte)

Unsigned(x) == x % 256
Shorter(a, b) == IF Len(a) <= Len(b) THEN Len(a) ELSE Len(b)
Agree(a, b, n) == \A j \in 1..n : Unsigned(a[j]) = Unsigned(b[j])

nodeIdGreater(a, b) ==
  \/ \E i \in 1..Shorter(a, b) :
       Agree(a, b, i - 1) /\ Unsigned(a[i]) > Unsigned(b[i])
  \/ Agree(a, b, Shorter(a, b)) /\ Len(a) > Len(b)
=============================================================================
