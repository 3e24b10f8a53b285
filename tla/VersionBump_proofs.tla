-------------------------- MODULE VersionBump_proofs --------------------------
(* Proofs about VersionBump: what the tolerance of verify_standalone_lock    *)
(* keeps when no crate depends on two of ours.  With two it keeps neither    *)
(* the locks nor the versions in order: VersionBumpLayered.                  *)
EXTENDS VersionBump, TLAPS

SingleSibling ==
  \A k \in Crate : \A p, q \in Needs[k] \cap Crate : p = q

(* What a passing check says of commit c. *)
Agrees(c) == \A k \in Crate, p \in Crate : p \in Needs[k] => c.wants[p] \in c.lock[k][p]
MidRelease(c) ==
  \A k \in Crate, p \in Crate :
    p \in Needs[k] => c.wants[p] \in registry[p] \cup {c.version}

(* A first-party requirement that cargo reported is the crate's only one. *)
LEMMA ToleratedSibling ==
  ASSUME SingleSibling, NEW c, NEW k \in Crate, NEW p \in Needs[k] \cap Crate,
         MayPass(c, k), ~Strict(c, k)
  PROVE  AtAnchor(c, p) /\ Pinned(c, k, p)
<1>1. PICK rep \in Reports(c, k) : Tolerates(c, k, rep)
  BY DEF MayPass
<1>2. rep \subseteq Needs[k] /\ rep # {}
  BY <1>1 DEF Reports, Unresolved
<1>3. PICK q \in rep : TRUE
  BY <1>2
<1>4. AtAnchor(c, q) /\ Pinned(c, k, q)
  BY <1>1, <1>3 DEF Tolerates
<1>5. q \in Needs[k] \cap FirstParty
  BY <1>2, <1>3, <1>4 DEF AtAnchor
<1>6. q = p
  BY <1>5, NamesAssumption DEF SingleSibling
<1> QED
  BY <1>4, <1>6

(* The strict check compared every sibling with the lock and the registry;   *)
(* the tolerance compared the only one there is.                             *)
LEMMA GreenSound ==
  ASSUME SingleSibling, NEW c, Possible(c, "green")
  PROVE  Agrees(c) /\ MidRelease(c)
<1> SUFFICES ASSUME NEW k \in Crate, NEW p \in Crate, p \in Needs[k]
             PROVE  /\ c.wants[p] \in c.lock[k][p]
                    /\ c.wants[p] \in registry[p] \cup {c.version}
  BY DEF Agrees, MidRelease
<1>1. MayPass(c, k)
  BY DEF Possible
<1>2. CASE Strict(c, k)
  BY <1>2 DEF Strict, Unresolved
<1>3. CASE ~Strict(c, k)
  BY <1>1, <1>3, ToleratedSibling DEF AtAnchor, Pinned
<1> QED
  BY <1>2, <1>3

LEMMA CommitType ==
  ASSUME NEW v \in Version
  PROVE  Consistent(v) \in Commit
<1>1. 1 \in Version
  BY BoundAssumption DEF Version
<1>2. [p \in Package |-> IF p \in Crate THEN v ELSE 1] \in [Package -> Version]
  BY <1>1
<1>3. \A k \in Crate, p \in Package :
        (IF p \in Needs[k] THEN {[q \in Package |-> IF q \in Crate THEN v ELSE 1][p]} ELSE {})
          \in SUBSET Version
  BY <1>2
<1> QED
  BY <1>2, <1>3 DEF Consistent, Commit

LEMMA TypeInit == Init => TypeOK
<1> SUFFICES ASSUME Init PROVE TypeOK
  OBVIOUS
<1>1. 1 \in Version
  BY BoundAssumption DEF Version
<1> QED
  BY <1>1, CommitType DEF Init, TypeOK, Verdict

LEMMA ProposedType ==
  ASSUME TypeOK, Propose
  PROVE  pr' \in Commit
<1>1. PICK v \in {main.version, main.version + 1} \cap 1..MaxVersion :
      \E demand \in [Sibling -> {main.version, v, v + 1}], range \in [Foreign -> {1, 2}],
         kept, lost \in SUBSET Requirement :
        LET wants == [p \in Package |-> IF p \in Sibling THEN demand[p]
                                       ELSE IF p \in Crate THEN v ELSE range[p]] IN
          pr' = [version |-> v, wants |-> wants,
                 lock |-> [k \in Crate |-> [p \in Package |->
                   IF p \notin Needs[k] \/ <<k, p>> \in lost THEN {}
                   ELSE IF <<k, p>> \in kept THEN main.lock[k][p]
                   ELSE {wants[p]}]]]
  BY DEF Propose
<1>2. PICK demand \in [Sibling -> {main.version, v, v + 1}], range \in [Foreign -> {1, 2}],
           kept, lost \in SUBSET Requirement :
        LET wants == [p \in Package |-> IF p \in Sibling THEN demand[p]
                                       ELSE IF p \in Crate THEN v ELSE range[p]] IN
          pr' = [version |-> v, wants |-> wants,
                 lock |-> [k \in Crate |-> [p \in Package |->
                   IF p \notin Needs[k] \/ <<k, p>> \in lost THEN {}
                   ELSE IF <<k, p>> \in kept THEN main.lock[k][p]
                   ELSE {wants[p]}]]]
  BY <1>1
<1> DEFINE wants == [p \in Package |-> IF p \in Sibling THEN demand[p]
                                     ELSE IF p \in Crate THEN v ELSE range[p]]
           pin(k, p) == IF p \notin Needs[k] \/ <<k, p>> \in lost THEN {}
                        ELSE IF <<k, p>> \in kept THEN main.lock[k][p]
                        ELSE {wants[p]}
<1>3. main.version \in Version /\ main.lock \in [Crate -> [Package -> SUBSET Version]]
  BY DEF TypeOK, Commit
<1>4. {main.version, v, v + 1} \subseteq Version /\ {1, 2} \subseteq Version
  BY <1>3, BoundAssumption DEF Version
<1>5. wants \in [Package -> Version]
  <2> SUFFICES ASSUME NEW p \in Package PROVE wants[p] \in Version
    OBVIOUS
  <2>1. p \in Sibling => demand[p] \in Version
    BY <1>4
  <2>2. p \notin Crate => range[p] \in Version
    BY <1>4 DEF Package
  <2> QED
    BY <1>4, <2>1, <2>2
<1>6. \A k \in Crate, p \in Package : pin(k, p) \in SUBSET Version
  BY <1>3, <1>5
<1>7. pr' = [version |-> v, wants |-> wants,
             lock |-> [k \in Crate |-> [p \in Package |-> pin(k, p)]]]
  BY <1>2
<1> HIDE DEF wants, pin
<1> QED
  BY <1>4, <1>5, <1>6, <1>7 DEF Commit

LEMMA TypeStep ==
  ASSUME TypeOK, [Next]_vars
  PROVE  TypeOK'
<1>1. CASE Propose
  BY <1>1, ProposedType DEF TypeOK, Propose, Verdict
<1>2. CASE CheckPR
  BY <1>2 DEF TypeOK, CheckPR
<1>3. CASE Merge
  BY <1>3 DEF TypeOK, Merge, Verdict
<1>4. CASE Withdraw
  BY <1>4 DEF TypeOK, Withdraw, Verdict
<1>5. CASE CheckMain
  BY <1>5 DEF TypeOK, CheckMain
<1>6. CASE \E k \in Crate : Publish(k)
  <2>1. main.version \in Version
    BY DEF TypeOK, Commit
  <2> QED
    BY <1>6, <2>1 DEF TypeOK, Publish
<1>7. CASE UNCHANGED vars
  BY <1>7 DEF TypeOK, vars
<1> QED
  BY <1>1, <1>2, <1>3, <1>4, <1>5, <1>6, <1>7 DEF Next

(* Every reachable state is well typed, and a verdict belongs to an open     *)
(* pull request.                                                             *)
THEOREM BumpTypes == Spec => []TypeOK
<1> QED
  BY TypeInit, TypeStep, PTL DEF Spec

-----------------------------------------------------------------------------
(* What is on main, and what a green pull request would put there.           *)
MergedSound ==
  /\ Agrees(main) /\ MidRelease(main)
  /\ prCI = "green" => Agrees(pr) /\ MidRelease(pr)

LEMMA SoundInit ==
  ASSUME Init
  PROVE  MergedSound
<1>1. main = Consistent(1) /\ prCI # "green" /\ registry = [p \in Package |-> {1}]
  BY DEF Init
<1>2. \A p \in Package : main.wants[p] = 1
  BY <1>1 DEF Consistent
<1>3. \A k \in Crate, p \in Package : p \in Needs[k] => 1 \in main.lock[k][p]
  BY <1>1, <1>2 DEF Consistent
<1>4. Crate \subseteq Package
  BY DEF Package
<1> QED
  BY <1>1, <1>2, <1>3, <1>4 DEF MergedSound, Agrees, MidRelease

LEMMA RegistryGrows ==
  ASSUME TypeOK, [Next]_vars
  PROVE  \A p \in Package : registry[p] \subseteq registry'[p]
<1>1. CASE \E k \in Crate : Publish(k)
  BY <1>1 DEF Publish, TypeOK
<1>2. CASE UNCHANGED registry
  BY <1>2
<1> QED
  BY <1>1, <1>2 DEF Next, vars, Propose, CheckPR, Merge, Withdraw, CheckMain

(* A verdict is about the registry as it was then; nothing is ever taken off *)
(* it, so what held when a check passed still holds when its commit merges.  *)
LEMMA SoundStep ==
  ASSUME SingleSibling, TypeOK, MergedSound, [Next]_vars
  PROVE  MergedSound'
<1>1. ASSUME NEW c, MidRelease(c)
      PROVE  \A k \in Crate, p \in Crate :
               p \in Needs[k] => c.wants[p] \in registry'[p] \cup {c.version}
  BY <1>1, RegistryGrows DEF MidRelease, Package
<1>2. CASE Merge
  <2>1. prCI' # "green" /\ main' = pr /\ prCI = "green"
    BY <1>2 DEF Merge
  <2> QED
    BY <1>1, <2>1 DEF MergedSound, Agrees, MidRelease
<1>3. CASE CheckPR
  <2>1. UNCHANGED <<main, pr, registry>>
    BY <1>3 DEF CheckPR
  <2>2. prCI' = "green" => Agrees(pr) /\ MidRelease(pr)
    BY <1>3, GreenSound DEF CheckPR
  <2> QED
    BY <2>1, <2>2 DEF MergedSound, Agrees, MidRelease
<1>4. CASE UNCHANGED main /\ (UNCHANGED <<pr, prCI>> \/ prCI' = "none")
  BY <1>1, <1>4 DEF MergedSound, Agrees, MidRelease
<1> QED
  BY <1>2, <1>3, <1>4 DEF Next, vars, Propose, Withdraw, CheckMain, Publish

LEMMA SoundAlways ==
  ASSUME SingleSibling
  PROVE  Spec => []MergedSound
<1>1. TypeOK /\ MergedSound /\ [Next]_vars => MergedSound'
  BY SoundStep
<1> QED
  BY <1>1, SoundInit, BumpTypes, PTL DEF Spec

(* Locks on main agree with their manifests although the tolerance checked   *)
(* some of them, as long as no crate depends on two of ours; with two, the   *)
(* run VersionBumpLayered shows how one escapes.                             *)
THEOREM LocksAgreeAlways ==
  ASSUME SingleSibling
  PROVE  Spec => []LocksAgree
<1>1. MergedSound => LocksAgree
  BY DEF MergedSound, Agrees, LocksAgree
<1> QED
  BY <1>1, SoundAlways, PTL

(* An unmet first-party requirement of main is always of the version being   *)
(* released, under the same condition: each name has a demand of its own,    *)
(* and one that cargo did not name may be at a version nobody will publish.  *)
THEOREM OnlyMidReleaseAlways ==
  ASSUME SingleSibling
  PROVE  Spec => []OnlyMidRelease
<1>1. MergedSound => OnlyMidRelease
  BY DEF MergedSound, MidRelease, OnlyMidRelease
<1> QED
  BY <1>1, SoundAlways, PTL

-----------------------------------------------------------------------------
(* What the tolerance leaves to the strict check.                            *)

(* Every requirement is locked at some version: cargo's --locked and the     *)
(* direct comparison both demand it.                                         *)
Locked(c) == \A k \in Crate : \A p \in Needs[k] : c.lock[k][p] # {}
MergedLocked == Locked(main) /\ (prCI = "green" => Locked(pr))

LEMMA GreenLocked ==
  ASSUME NEW c, Possible(c, "green")
  PROVE  Locked(c)
BY DEF Possible, MayPass, Strict, Tolerates, Locked

LEMMA LockedInit ==
  ASSUME TypeOK, Init
  PROVE  MergedLocked
<1>1. main = Consistent(1) /\ prCI # "green"
  BY DEF Init
<1>2. \A k \in Crate : \A p \in Needs[k] : p \in Package /\ main.lock[k][p] = {main.wants[p]}
  BY <1>1, NeedsAssumption DEF Consistent
<1> QED
  BY <1>1, <1>2 DEF MergedLocked, Locked

LEMMA LockedStep ==
  ASSUME TypeOK, MergedLocked, [Next]_vars
  PROVE  MergedLocked'
<1>1. CASE Merge
  BY <1>1 DEF Merge, MergedLocked, Locked
<1>2. CASE CheckPR
  <2>1. UNCHANGED <<main, pr>> /\ (prCI' = "green" => Locked(pr))
    BY <1>2, GreenLocked DEF CheckPR
  <2> QED
    BY <2>1 DEF MergedLocked, Locked
<1>3. CASE UNCHANGED main /\ (UNCHANGED <<pr, prCI>> \/ prCI' = "none")
  BY <1>3 DEF MergedLocked, Locked
<1> QED
  BY <1>1, <1>2, <1>3 DEF Next, vars, Propose, Withdraw, CheckMain, Publish

(* A third-party requirement of commit c, locked at a version that will not  *)
(* do or that nobody published.                                              *)
RangeUnmet(c) == \E k \in Crate, p \in Foreign :
  /\ p \in Needs[k] /\ c.lock[k][p] # {}
  /\ c.wants[p] \notin registry[p] \cap c.lock[k][p]

(* The strict check can only fail such a commit for a third-party range: of  *)
(* what is ours, all is locked as wanted, and what is missing from the       *)
(* registry is at the anchor and tolerated.                                  *)
LEMMA RedMeansRange ==
  ASSUME NEW c, Agrees(c), MidRelease(c), Locked(c), Possible(c, "red")
  PROVE  RangeUnmet(c)
<1>1. PICK k \in Crate : MayFail(c, k)
  BY DEF Possible
<1>2. \A p \in Needs[k] : p \in Crate \cup Foreign /\ c.lock[k][p] # {}
  BY NeedsAssumption DEF Locked, Package
<1>3. ASSUME NEW p \in Needs[k] \cap Crate
      PROVE  Pinned(c, k, p) /\ (p \in Unresolved(c, k) => AtAnchor(c, p))
  <2>1. p \in FirstParty
    BY NamesAssumption
  <2> QED
    BY <2>1 DEF Agrees, MidRelease, Pinned, Unresolved, AtAnchor
<1>4. \E p \in Needs[k] : p \notin Crate /\ c.wants[p] \notin registry[p] \cap c.lock[k][p]
  <2>1. CASE Unresolved(c, k) = {}
    <3>1. PICK p \in Needs[k] : c.wants[p] \notin c.lock[k][p]
      BY <1>1, <2>1 DEF MayFail, Strict
    <3> QED
      BY <1>3, <3>1 DEF Pinned
  <2>2. CASE Unresolved(c, k) # {}
    <3>1. Reports(c, k) # {}
      BY <2>2 DEF Reports
    <3>2. PICK rep \in Reports(c, k) : ~Tolerates(c, k, rep)
      BY <1>1, <3>1 DEF MayFail
    <3>3. PICK p \in rep : ~(AtAnchor(c, p) /\ Pinned(c, k, p))
      BY <1>2, <3>2 DEF Tolerates
    <3>4. p \in Unresolved(c, k) /\ p \in Needs[k]
      BY <3>2, <3>3 DEF Reports, Unresolved
    <3> QED
      BY <1>3, <3>3, <3>4 DEF Unresolved
  <2> QED
    BY <2>1, <2>2
<1> QED
  BY <1>2, <1>4 DEF RangeUnmet

(* A merged commit that CI refuses afterwards locks a third-party package at *)
(* a version that does not do; no lock of ours is left to the strict check   *)
(* that returns later, under the same condition (verify_standalone_lock).    *)
THEOREM RedForRangesOnlyAlways ==
  ASSUME SingleSibling
  PROVE  Spec => []RedForRangesOnly
<1>1. Init => MergedLocked /\ RedForRangesOnly
  BY LockedInit, TypeInit DEF Init, RedForRangesOnly
<1>2. ASSUME TypeOK, MergedSound, MergedLocked, RedForRangesOnly, [Next]_vars
      PROVE  RedForRangesOnly'
  <2>1. CASE CheckMain
    <3>1. mainCI' = "red" => RangeUnmet(main)
      BY <1>2, <2>1, RedMeansRange DEF CheckMain, MergedSound, MergedLocked
    <3> QED
      BY <2>1, <3>1 DEF CheckMain, RangeUnmet, RedForRangesOnly
  <2>2. CASE mainCI' # "red"
    BY <2>2 DEF RedForRangesOnly
  <2>3. CASE UNCHANGED <<main, mainCI, registry>>
    BY <1>2, <2>3 DEF RedForRangesOnly
  <2> QED
    BY <1>2, <2>1, <2>2, <2>3 DEF Next, vars, Propose, CheckPR, Merge, Withdraw, Publish
<1>3. TypeOK /\ MergedLocked /\ [Next]_vars => MergedLocked'
  BY LockedStep
<1> QED
  BY <1>1, <1>2, <1>3, BumpTypes, SoundAlways, PTL DEF Spec
=============================================================================
