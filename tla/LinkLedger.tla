------------------------------ MODULE LinkLedger ------------------------------
(***************************************************************************)
(* What BearerManager promises its consumer about global link ids,         *)
(* whatever the bearers and the host threads do: ids are minted in         *)
(* ascending order and never reused; each one is announced (linkUp) once   *)
(* and, once its route is gone, closed (linkDown) once; and neither is     *)
(* forgotten.  It does not promise that the announcement precedes the      *)
(* closing: the manager releases its lock between minting and announcing.  *)
(***************************************************************************)
EXTENDS Integers

CONSTANT Global  \* the ids a behaviour may mint, a range of integers

VARIABLES
  stage,      \* where each id is in its life
  announced   \* ids whose linkUp the consumer has received

Stage == {"unused", "routed", "closing", "closed"}

Init ==
  /\ stage = [g \in Global |-> "unused"]
  /\ announced = {}

Mint(g) ==
  /\ stage[g] = "unused"
  /\ \A h \in Global : h < g => stage[h] # "unused"
  /\ stage' = [stage EXCEPT ![g] = "routed"]
  /\ UNCHANGED announced

Announce(g) ==
  /\ stage[g] # "unused" /\ g \notin announced
  /\ announced' = announced \cup {g}
  /\ UNCHANGED stage

(* One bearer's link closes, or a whole bearer's at once. *)
Retire(S) ==
  /\ \A g \in S : stage[g] = "routed"
  /\ stage' = [g \in Global |-> IF g \in S THEN "closing" ELSE stage[g]]
  /\ UNCHANGED announced

Close(g) ==
  /\ stage[g] = "closing"
  /\ stage' = [stage EXCEPT ![g] = "closed"]
  /\ UNCHANGED announced

Next ==
  \/ \E g \in Global : Mint(g) \/ Announce(g) \/ Close(g)
  \/ \E S \in SUBSET Global : Retire(S)

vars == <<stage, announced>>

Safety == Init /\ [][Next]_vars
Spec == Safety /\ \A g \in Global : WF_vars(Announce(g)) /\ WF_vars(Close(g))
=============================================================================
