---------------------------- MODULE NativeRun_proofs ----------------------------
(* Proofs about NativeRun: types, what authorises a bundle, and what it is    *)
(* made of.                                                                   *)
EXTENDS NativeRun, TLAPS

-----------------------------------------------------------------------------
(* What the CI run's attempts and the native run's look at them come to. *)

(* Jobs run in the CI run's current attempt or were kept from an earlier one. *)
JobsRun == \A j \in CIJob :
  /\ jobs[j].attempt <= ci.attempt
  /\ jobs[j].result = "running" => jobs[j].attempt = ci.attempt /\ ci.status = "running"

(* A CI run that ended in success with both its jobs passed whole; the one    *)
(* authorize_ci saw succeed did so then, or has been re-run since.            *)
EndedWhole == ci.status = "success" /\ Whole(ci.attempt) => ci.attempt \in passed
SeenEnded ==
  seen.status = "success" =>
    seen.attempt < ci.attempt \/ (seen.attempt = ci.attempt /\ ci.status = "success")
SeenWhole == seen.status = "success" /\ Whole(seen.attempt) => seen.attempt \in passed

(* The native run builds on an authorised source; nothing is built before.    *)
Building ==
  pc \in {"build", "select", "download", "done"} \/ \E g \in Group : group[g] # "waiting"
BuildsAuthorized ==
  /\ Building => seen.attempt \in passed
  /\ pc \in {"authorize", "lookup", "jobs"} => \A g \in Group : group[g] = "waiting"

Authorization ==
  JobsRun /\ EndedWhole /\ SeenEnded /\ SeenWhole /\ BuildsAuthorized /\ Authorized

-----------------------------------------------------------------------------
(* What the partials and the selection come to. *)

(* ran is the newest attempt of a group's job, and of its partials.           *)
RanNewest ==
  /\ \A g \in Group : ran[g] <= attempt
  /\ \A p \in partials : p.attempt <= ran[p.group]

(* A job that succeeded has uploaded its partial in that attempt.             *)
SuccessUploads == \A g \in Group :
  group[g] = "success" => \E p \in partials : p.group = g /\ p.attempt = ran[g]
AllSucceeded == pc \in {"select", "download", "done"} => \A g \in Group : group[g] = "success"
SelectedRan == pc = "download" => \A g \in Group : selected[g] = ran[g] /\ selected[g] \in Attempt

Assembly == RanNewest /\ SuccessUploads /\ AllSucceeded /\ SelectedRan /\ FreshParts

NativeInv == TypeOK /\ Authorization /\ Assembly

(* Initially nothing has run. *)
LEMMA NativeInit == Init => NativeInv
<1> SUFFICES ASSUME Init
             PROVE  NativeInv
  OBVIOUS
<1> USE NativeRunBounds DEF Init
<1>1. TypeOK
  BY DEF TypeOK, Attempt, Result, Unselected
<1>2. Authorization
  BY DEF Authorization, JobsRun, EndedWhole, SeenEnded, SeenWhole, BuildsAuthorized, Building,
    Authorized
<1>3. Assembly
  BY DEF Assembly, RanNewest, SuccessUploads, AllSucceeded, SelectedRan, FreshParts
<1>4. QED
  BY <1>1, <1>2, <1>3 DEF NativeInv

-----------------------------------------------------------------------------
(* Types. *)

(* The attempts chosen are the newest of each group, which is the one its job *)
(* last ran in.                                                               *)
LEMMA NewestIsRan ==
  ASSUME TypeOK, RanNewest, NEW g \in Group,
         \E p \in partials : p.group = g /\ p.attempt = ran[g]
  PROVE  NewestAttempt(g) = ran[g]
<1>1. DEFINE S == {p.attempt : p \in Matching(g)}
<1>2. ran[g] \in S /\ ran[g] \in Nat
  BY NativeRunBounds DEF Matching, TypeOK
<1>3. \A n \in S : n \in Nat /\ n <= ran[g]
  BY NativeRunBounds DEF Matching, TypeOK, Attempt, RanNewest
<1>4. Max(S) = ran[g]
  <2>1. Max(S) = CHOOSE x \in S : \A y \in S : x >= y
    BY DEF Max
  <2>2. \E x \in S : \A y \in S : x >= y
    BY <1>2, <1>3
  <2>3. Max(S) \in S /\ \A y \in S : Max(S) >= y
    BY <2>1, <2>2
  <2>4. PICK m \in S : m = Max(S) /\ \A y \in S : m >= y
    BY <2>3
  <2>5. m \in Nat /\ m <= ran[g] /\ ran[g] <= m
    BY <1>2, <1>3, <2>4
  <2>6. QED
    BY <1>2, <2>4, <2>5
<1>5. QED
  BY <1>4 DEF NewestAttempt

(* Every step keeps the types. *)
LEMMA NativeTypesStep ==
  ASSUME NativeInv, [Next]_vars
  PROVE  TypeOK'
<1> USE DEF NativeInv
<1>1. CASE UNCHANGED vars
  BY <1>1 DEF vars, world, TypeOK
<1>2. ASSUME NEW result \in Result, CIEnd(result)
      PROVE  TypeOK'
  BY <1>2 DEF CIEnd, TypeOK, Result
<1>3. ASSUME NEW j \in CIJob, NEW result \in Result, CIJobEnd(j, result)
      PROVE  TypeOK'
  BY <1>3 DEF CIJobEnd, TypeOK, Result
<1>4. ASSUME NEW kept \in SUBSET CIJob, CIRerun(kept)
      PROVE  TypeOK'
  <2>1. ci.attempt + 1 \in 1 .. MaxCI
    BY <1>4, NativeRunBounds DEF CIRerun, TypeOK
  <2>2. QED
    BY <1>4, <2>1 DEF CIRerun, TypeOK, Result
<1>5. CASE Watch \/ Authorize \/ GroupsDone \/ Refuse
  BY <1>5 DEF Watch, Authorize, GroupsDone, Refuse, Goto, TypeOK, world
<1>6. CASE Lookup
  <2>1. ci \in [attempt : 0 .. MaxCI, status : {"none", "running"} \cup Result]
    BY NativeRunBounds DEF TypeOK
  <2>2. QED
    BY <1>6, <2>1 DEF Lookup, Goto, TypeOK, world
<1>7. ASSUME NEW g \in Group, NEW uploads \in BOOLEAN, NEW result \in Result,
             BuildGroup(g, uploads, result)
      PROVE  TypeOK'
  <2>1. PartialOf(g) \in [group : Group, attempt : Attempt, expired : BOOLEAN]
    BY DEF PartialOf, TypeOK
  <2>2. partials' \subseteq [group : Group, attempt : Attempt, expired : BOOLEAN]
    BY <1>7, <2>1 DEF BuildGroup, TypeOK
  <2>3. ran' \in [Group -> 0 .. MaxAttempts] /\ group' \in [Group -> {"waiting"} \cup Result]
    BY <1>7, NativeRunBounds DEF BuildGroup, TypeOK, Attempt
  <2>4. QED
    BY <1>7, <2>2, <2>3 DEF BuildGroup, TypeOK, world
<1>8. CASE Select
  <2>1. \A g \in Group : NewestAttempt(g) \in Attempt
    BY <1>8 DEF Select, Selectable, Matching, TypeOK
  <2>2. selected' \in [Group -> 0 .. MaxAttempts]
    BY <1>8, <2>1, NativeRunBounds DEF Select, Attempt
  <2>3. QED
    BY <1>8, <2>2 DEF Select, Goto, TypeOK, world
<1>9. CASE Assemble
  <2>1. seen.attempt \in 1 .. MaxCI
    BY <1>9 DEF Assemble, Authorization, BuildsAuthorized, Building, TypeOK
  <2>2. selected \in [Group -> Attempt]
    BY <1>9 DEF Assemble, Assembly, SelectedRan, TypeOK
  <2>3. QED
    BY <1>9, <2>1, <2>2 DEF Assemble, Goto, TypeOK, world
<1>10. CASE RerunFailed \/ RerunAll
  <2>1. attempt + 1 \in Attempt
    BY <1>10, NativeRunBounds DEF RerunFailed, RerunAll, TypeOK, Attempt
  <2>2. Unselected \in [Group -> 0 .. MaxAttempts]
    BY NativeRunBounds DEF Unselected
  <2>3. group' \in [Group -> {"waiting"} \cup Result]
    BY <1>10 DEF RerunFailed, RerunAll, TypeOK
  <2>4. seen' \in [attempt : 0 .. MaxCI, status : {"none", "running"} \cup Result]
    BY <1>10, NativeRunBounds DEF RerunFailed, RerunAll, TypeOK
  <2>5. QED
    BY <1>10, <2>1, <2>2, <2>3, <2>4 DEF RerunFailed, RerunAll, Goto, TypeOK, world
<1>11. ASSUME NEW p \in partials, Expire(p)
       PROVE  TypeOK'
  <2>1. [p EXCEPT !.expired = TRUE] \in [group : Group, attempt : Attempt, expired : BOOLEAN]
    BY DEF TypeOK
  <2>2. QED
    BY <1>11, <2>1 DEF Expire, TypeOK, world
<1>12. QED
  BY <1>1, <1>2, <1>3, <1>4, <1>5, <1>6, <1>7, <1>8, <1>9, <1>10, <1>11 DEF Next, CI, Native

-----------------------------------------------------------------------------
(* Authorisation. *)

(* What the CI run does: its jobs end, it ends, and it is run again.          *)
LEMMA CIStep ==
  ASSUME NativeInv, CI
  PROVE  Authorization'
<1>1. /\ ci \in [attempt : 1 .. MaxCI, status : {"running"} \cup Result]
      /\ jobs \in [CIJob -> [attempt : 1 .. MaxCI, result : {"running"} \cup Result]]
      /\ seen \in [attempt : 0 .. MaxCI, status : {"none", "running"} \cup Result]
      /\ ci.attempt \in Nat /\ seen.attempt \in Nat /\ \A j \in CIJob : jobs[j].attempt \in Nat
  BY NativeRunBounds DEF NativeInv, TypeOK
<1>2. Authorization
  BY DEF NativeInv
<1>3. ASSUME NEW result \in Result, CIEnd(result)
      PROVE  Authorization'
  <2>1. UNCHANGED <<jobs, pc, seen, group, bundles>> /\ passed \subseteq passed'
    BY <1>3 DEF CIEnd
  <2>2. /\ ci.status = "running" /\ ci'.attempt = ci.attempt /\ ci'.status = result
        /\ \A j \in CIJob : jobs[j].result # "running"
        /\ result = "success" /\ Whole(ci.attempt) => ci.attempt \in passed'
    BY <1>1, <1>3 DEF CIEnd
  <2>3. JobsRun' /\ EndedWhole' /\ SeenEnded' /\ SeenWhole'
    BY <1>1, <1>2, <2>1, <2>2 DEF Authorization, JobsRun, EndedWhole, SeenEnded, SeenWhole, Whole
  <2>4. BuildsAuthorized' /\ Authorized'
    BY <1>2, <2>1 DEF Authorization, BuildsAuthorized, Building, Authorized
  <2>5. QED
    BY <2>3, <2>4 DEF Authorization
<1>4. ASSUME NEW j \in CIJob, NEW result \in Result, CIJobEnd(j, result)
      PROVE  Authorization'
  <2>1. /\ UNCHANGED <<ci, passed, pc, seen, group, bundles>>
        /\ jobs[j].result = "running" /\ jobs' = [jobs EXCEPT ![j].result = result]
    BY <1>4 DEF CIJobEnd
  <2>2. jobs[j].attempt = ci.attempt /\ ci.status = "running"
    BY <1>2, <2>1 DEF Authorization, JobsRun
  <2>3. /\ \A k \in CIJob : jobs'[k].attempt = jobs[k].attempt
        /\ \A k \in CIJob \ {j} : jobs'[k] = jobs[k]
    BY <1>1, <2>1
  <2>4. JobsRun' /\ EndedWhole' /\ SeenEnded'
    BY <1>1, <1>2, <2>1, <2>2, <2>3 DEF Authorization, JobsRun, EndedWhole, SeenEnded, Result
  <2>5. SeenWhole'
    <3>1. seen.status = "success" => seen.attempt < jobs'[j].attempt
      BY <1>1, <1>2, <2>2, <2>3 DEF Authorization, SeenEnded
    <3>2. QED
      BY <1>1, <2>1, <2>3, <3>1 DEF SeenWhole, Whole
  <2>6. BuildsAuthorized' /\ Authorized'
    BY <1>2, <2>1 DEF Authorization, BuildsAuthorized, Building, Authorized
  <2>7. QED
    BY <2>4, <2>5, <2>6 DEF Authorization
<1>5. ASSUME NEW kept \in SUBSET CIJob, CIRerun(kept)
      PROVE  Authorization'
  <2>1. /\ UNCHANGED <<passed, pc, seen, group, bundles>>
        /\ \A k \in kept : jobs[k].result = "success"
        /\ ci' = [attempt |-> ci.attempt + 1, status |-> "running"]
        /\ \A k \in CIJob : jobs'[k] = IF k \in kept THEN jobs[k]
                                ELSE [attempt |-> ci.attempt + 1, result |-> "running"]
    BY <1>5 DEF CIRerun
  <2>2. JobsRun' /\ EndedWhole' /\ SeenEnded'
    BY <1>1, <1>2, <2>1 DEF Authorization, JobsRun, EndedWhole, SeenEnded
  <2>3. SeenWhole'
    BY <1>2, <2>1 DEF Authorization, SeenWhole, Whole
  <2>4. BuildsAuthorized' /\ Authorized'
    BY <1>2, <2>1 DEF Authorization, BuildsAuthorized, Building, Authorized
  <2>5. QED
    BY <2>2, <2>3, <2>4 DEF Authorization
<1>6. QED
  BY <1>3, <1>4, <1>5 DEF CI

(* What the native run does: it looks at the CI run twice, builds when both   *)
(* answers agree, and is run again.                                           *)
LEMMA AuthorizationStep ==
  ASSUME NativeInv, [Next]_vars
  PROVE  Authorization'
<1> USE DEF world
<1>1. Authorization /\ group \in [Group -> {"waiting"} \cup Result]
  BY DEF NativeInv, TypeOK
<1>2. ASSUME UNCHANGED <<world, seen>>, BuildsAuthorized', Authorized'
      PROVE  Authorization'
  BY <1>1, <1>2 DEF Authorization, JobsRun, EndedWhole, SeenEnded, SeenWhole, Whole
<1>3. CASE UNCHANGED <<world, seen, group, bundles>> /\ (pc' = pc \/ pc' = "failed")
  BY <1>1, <1>2, <1>3 DEF Authorization, BuildsAuthorized, Building, Authorized
<1>4. CASE Watch
  BY <1>1, <1>2, <1>4 DEF Watch, Goto, Authorization, BuildsAuthorized, Building, Authorized
<1>5. CASE Lookup
  <2>1. JobsRun' /\ EndedWhole' /\ SeenEnded' /\ SeenWhole'
    BY <1>1, <1>5 DEF Lookup, Authorization, JobsRun, EndedWhole, SeenEnded, SeenWhole, Whole
  <2>2. BuildsAuthorized' /\ Authorized'
    BY <1>1, <1>5 DEF Lookup, Goto, Authorization, BuildsAuthorized, Building, Authorized
  <2>3. QED
    BY <2>1, <2>2 DEF Authorization
<1>6. CASE Authorize
  <2>1. Authorizes => seen.attempt \in passed
    <3>1. Authorizes => seen.status = "success" /\ Whole(seen.attempt)
      BY DEF Authorizes, Whole, NativeInv, TypeOK
    <3>2. QED
      BY <1>1, <3>1 DEF Authorization, SeenWhole
  <2>2. QED
    BY <1>1, <1>2, <1>6, <2>1 DEF Authorize, Goto, Authorization, BuildsAuthorized, Building,
      Authorized
<1>7. ASSUME NEW g \in Group, NEW uploads \in BOOLEAN, NEW result \in Result,
             BuildGroup(g, uploads, result)
      PROVE  Authorization'
  BY <1>1, <1>2, <1>7 DEF BuildGroup, Authorization, BuildsAuthorized, Building, Authorized
<1>8. CASE GroupsDone \/ Select
  BY <1>1, <1>2, <1>8 DEF GroupsDone, Select, Goto, Authorization, BuildsAuthorized, Building,
    Authorized
<1>9. CASE Assemble
  BY <1>1, <1>2, <1>9 DEF Assemble, Goto, Authorization, BuildsAuthorized, Building, Authorized
<1>10. CASE RerunFailed
  BY <1>1, <1>2, <1>10 DEF RerunFailed, Goto, Authorization, BuildsAuthorized, Building,
    Authorized, Result
<1>11. CASE RerunAll
  BY <1>1, <1>11 DEF RerunAll, Goto, Authorization, JobsRun, EndedWhole, SeenEnded, SeenWhole,
    Whole, BuildsAuthorized, Building, Authorized
<1>12. Refuse \/ (\E p \in partials : Expire(p)) \/ UNCHANGED vars =>
         UNCHANGED <<world, seen, group, bundles>> /\ (pc' = pc \/ pc' = "failed")
  BY DEF Refuse, Goto, Expire, vars
<1>13. QED
  BY <1>3, <1>4, <1>5, <1>6, <1>7, <1>8, <1>9, <1>10, <1>11, <1>12, CIStep DEF Next, Native

-----------------------------------------------------------------------------
(* Assembly. *)

(* At the selection, and until the groups are run again, each group has the   *)
(* partial of its last job.                                                   *)
LEMMA RanIsThere ==
  ASSUME NativeInv, pc \in {"select", "download"}, NEW g \in Group
  PROVE  NewestAttempt(g) = ran[g]
<1>1. \E p \in partials : p.group = g /\ p.attempt = ran[g]
  BY DEF NativeInv, Assembly, AllSucceeded, SuccessUploads
<1>2. QED
  BY <1>1, NewestIsRan DEF NativeInv, Assembly

LEMMA AssemblyStep ==
  ASSUME NativeInv, [Next]_vars
  PROVE  Assembly'
<1>1. /\ attempt \in Attempt /\ Attempt \subseteq Nat
      /\ group \in [Group -> {"waiting"} \cup Result] /\ ran \in [Group -> 0 .. MaxAttempts]
      /\ 0 .. MaxAttempts \subseteq Nat
      /\ partials \subseteq [group : Group, attempt : Attempt, expired : BOOLEAN]
  BY NativeRunBounds DEF NativeInv, TypeOK, Attempt
<1>2. Assembly
  BY DEF NativeInv
<1> USE DEF Assembly, RanNewest, SuccessUploads, AllSucceeded, SelectedRan, FreshParts
<1>3. CASE UNCHANGED <<attempt, group, partials, ran>> /\ pc' \notin {"select", "download", "done"}
  BY <1>2, <1>3
<1>4. CASE UNCHANGED <<attempt, pc, group, partials, selected, bundles, ran>>
  BY <1>2, <1>4
<1>5. ASSUME NEW g \in Group, NEW uploads \in BOOLEAN, NEW result \in Result,
             BuildGroup(g, uploads, result)
      PROVE  Assembly'
  <2>1. /\ pc = "build" /\ pc' = "build" /\ attempt' = attempt
        /\ ran' = [ran EXCEPT ![g] = attempt] /\ group' = [group EXCEPT ![g] = result]
        /\ partials \subseteq partials' /\ partials' \subseteq partials \cup {PartialOf(g)}
        /\ result = "success" => PartialOf(g) \in partials'
    BY <1>5 DEF BuildGroup
  <2>2. PartialOf(g).group = g /\ PartialOf(g).attempt = attempt
    BY DEF PartialOf
  <2>3. RanNewest'
    <3>1. \A h \in Group : ran[h] <= ran'[h] /\ ran'[h] <= attempt
      BY <1>1, <1>2, <2>1
    <3>2. ASSUME NEW p \in partials
          PROVE  p.attempt <= ran'[p.group]
      <4>1. /\ p.group \in Group /\ p.attempt \in Nat /\ p.attempt <= ran[p.group]
            /\ ran[p.group] <= ran'[p.group] /\ ran[p.group] \in Nat /\ ran'[p.group] \in Nat
        BY <1>1, <1>2, <2>1, <3>1
      <4>2. QED
        BY <4>1
    <3>3. PartialOf(g).attempt <= ran'[PartialOf(g).group]
      BY <1>1, <2>1, <2>2
    <3>4. QED
      BY <2>1, <3>1, <3>2, <3>3
  <2>4. SuccessUploads'
    <3>1. ASSUME NEW h \in Group, h # g, group'[h] = "success"
          PROVE  \E p \in partials' : p.group = h /\ p.attempt = ran'[h]
      BY <1>1, <1>2, <2>1, <3>1
    <3>2. ASSUME group'[g] = "success"
          PROVE  \E p \in partials' : p.group = g /\ p.attempt = ran'[g]
      BY <1>1, <2>1, <2>2, <3>2
    <3>3. QED
      BY <3>1, <3>2
  <2>5. QED
    BY <2>1, <2>3, <2>4
<1>6. CASE GroupsDone
  BY <1>2, <1>6 DEF GroupsDone, Goto
<1>7. CASE Select
  <2>1. pc = "select" /\ pc' = "download" /\ UNCHANGED <<attempt, group, partials, ran>>
    BY <1>7 DEF Select, Goto
  <2>2. \A g \in Group : NewestAttempt(g) = ran[g]
    BY <2>1, RanIsThere
  <2>3. \A g \in Group : NewestAttempt(g) \in Attempt
    BY <1>1, <1>7 DEF Select, Selectable, Matching
  <2>4. \A g \in Group : selected'[g] = NewestAttempt(g)
    BY <1>7 DEF Select
  <2>5. SelectedRan'
    BY <2>1, <2>2, <2>3, <2>4
  <2>6. QED
    BY <1>2, <2>1, <2>5
<1>8. CASE Assemble
  <2>1. /\ pc = "download" /\ pc' = "done" /\ UNCHANGED <<attempt, group, partials, selected, ran>>
        /\ [attempt |-> attempt, parts |-> selected, ci |-> seen.attempt] \in bundles'
    BY <1>8 DEF Assemble, Goto
  <2>2. \E b \in bundles' : b.attempt = attempt /\ b.parts = selected
    BY <2>1
  <2>3. \A g \in Group : selected[g] = ran[g] /\ group[g] = "success"
    BY <1>2, <2>1
  <2>4. FreshParts'
    BY <2>1, <2>2, <2>3
  <2>5. QED
    BY <1>2, <2>1, <2>4
<1>9. CASE RerunFailed \/ RerunAll
  <2>1. /\ attempt' = attempt + 1 /\ UNCHANGED <<partials, ran>> /\ pc' \in {"authorize", "build"}
        /\ \A g \in Group : group'[g] = "success" => group[g] = "success"
    BY <1>1, <1>9 DEF RerunFailed, RerunAll, Goto
  <2>2. \A g \in Group : ran[g] <= attempt + 1
    BY <1>1, <1>2
  <2>3. QED
    BY <1>2, <2>1, <2>2
<1>10. ASSUME NEW p \in partials, Expire(p)
       PROVE  Assembly'
  <2>1. /\ UNCHANGED <<attempt, pc, group, selected, bundles, ran>>
        /\ partials' = (partials \ {p}) \cup {[p EXCEPT !.expired = TRUE]}
    BY <1>10 DEF Expire
  <2>2. [p EXCEPT !.expired = TRUE].group = p.group /\ [p EXCEPT !.expired = TRUE].attempt = p.attempt
    BY <1>1
  <2>3. /\ \A q \in partials' : \E o \in partials : o.group = q.group /\ o.attempt = q.attempt
        /\ \A o \in partials : \E q \in partials' : q.group = o.group /\ q.attempt = o.attempt
    BY <2>1, <2>2
  <2>4. RanNewest' /\ SuccessUploads'
    BY <1>2, <2>1, <2>3
  <2>5. QED
    BY <1>2, <2>1, <2>4
<1>11. CI \/ UNCHANGED vars => UNCHANGED <<attempt, pc, group, partials, selected, bundles, ran>>
  BY DEF CI, CIEnd, CIJobEnd, CIRerun, vars
<1>12. Watch \/ Lookup \/ Authorize \/ Refuse =>
         UNCHANGED <<attempt, group, partials, ran>> /\ pc' \notin {"select", "download", "done"}
  BY DEF Watch, Lookup, Authorize, Refuse, Goto
<1>13. QED
  BY <1>3, <1>4, <1>5, <1>6, <1>7, <1>8, <1>9, <1>10, <1>11, <1>12 DEF Next, Native

LEMMA NativeInvHolds == Spec => []NativeInv
<1>1. NativeInv /\ [Next]_vars => NativeInv'
  BY NativeTypesStep, AuthorizationStep, AssemblyStep DEF NativeInv
<1>2. QED
  BY <1>1, NativeInit, PTL DEF Spec

(* TypeOK: every variable keeps to its type; in particular a bundle's parts   *)
(* and its CI attempt are attempts that were made (native-artifacts.py).      *)
THEOREM NativeTypesHold == Spec => []TypeOK
<1>1. NativeInv => TypeOK
  BY DEF NativeInv
<1>2. QED
  BY <1>1, NativeInvHolds, PTL

(* Authorized: for any groups, jobs and number of attempts, a bundle carries  *)
(* the CI attempt in which every authorising job ran and succeeded, whatever  *)
(* was re-run between the watch and the two lookups                           *)
(* (validate_ci_authorization).                                               *)
THEOREM AuthorizedHolds == Spec => []Authorized
<1>1. NativeInv => Authorized
  BY DEF NativeInv, Authorization
<1>2. QED
  BY <1>1, NativeInvHolds, PTL

(* FreshParts: a bundle is made of what each group's last job uploaded, and   *)
(* that job succeeded (select_partial_artifacts).                             *)
THEOREM FreshPartsHold == Spec => []FreshParts
<1>1. NativeInv => FreshParts
  BY DEF NativeInv, Assembly
<1>2. QED
  BY <1>1, NativeInvHolds, PTL

(* Assembles: when every group's job has succeeded, in this attempt or an     *)
(* earlier one, and nothing has lapsed, the selection goes through.           *)
THEOREM AssemblesHolds == Spec => []Assembles
<1>1. ASSUME NativeInv, pc = "select", \A p \in partials : ~p.expired, NEW g \in Group
      PROVE  Selectable(g)
  <2>1. NewestAttempt(g) = ran[g]
    BY <1>1, RanIsThere
  <2>2. PICK p \in Matching(g) : p.attempt = ran[g]
    BY <1>1 DEF NativeInv, Assembly, AllSucceeded, SuccessUploads, Matching
  <2>3. ASSUME NEW q \in Matching(g)
        PROVE  q.attempt <= attempt
    <3>1. /\ q.attempt \in Nat /\ ran[g] \in Nat /\ attempt \in Nat
          /\ q.attempt <= ran[g] /\ ran[g] <= attempt
      BY <1>1, NativeRunBounds DEF Matching, NativeInv, TypeOK, Attempt, Assembly, RanNewest
    <3>2. QED
      BY <3>1
  <2>4. ~p.expired
    BY <1>1 DEF Matching
  <2>5. QED
    BY <2>1, <2>2, <2>3, <2>4 DEF Selectable
<1>2. NativeInv => Assembles
  BY <1>1 DEF Assembles
<1>3. QED
  BY <1>2, NativeInvHolds, PTL
=============================================================================
