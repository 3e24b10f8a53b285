----------------------------- MODULE Release_proofs -----------------------------
(* Proofs about Release: types, where what is published comes from, that a    *)
(* deployment is one build, that a re-run finds its artifacts, and that a     *)
(* release keeps to the native attempt it selected.                           *)
EXTENDS Release, TLAPS

AnyBundleType == [source : Commit, attempt : 1 .. MaxNative, sound : BOOLEAN]

-----------------------------------------------------------------------------
(* Types. *)

(* A run was started by the push of a commit. *)
Started == \A r \in Run : pc[r] # "none" => sha[r] \in Commit

(* What a run has on its runner is a bundle while prepare verifies it, an    *)
(* artifact while publish uploads it.                                        *)
HeldByStep == \A r \in Run :
  /\ pc[r] \in {"verify", "input"} => held[r] \in AnyBundleType
  /\ pc[r] \in {"upload", "github"} => held[r] \in Artifact

Types == TypeOK /\ Started /\ HeldByStep

(* Initially every variable has its type. *)
LEMMA TypesInit == Init => Types
BY ReleaseBounds DEF Init, Types, TypeOK, Started, HeldByStep, Commit, Run, Result, Step, Job

(* A tag is pushed. *)
LEMMA TagPushTypes ==
  ASSUME Types, NEW r \in Run, NEW c \in 1 .. main, NEW new \in BOOLEAN, TagPush(r, c, new)
  PROVE  Types'
<1>1. c \in Commit
  BY ReleaseBounds DEF Types, TypeOK, Commit
<1>2. TypeOK' /\ Started'
  BY <1>1 DEF Types, TypeOK, Started, TagPush, Goto, vars, canonical, outputs, runner, store, maven, Step
<1>3. HeldByStep'
  BY DEF Types, TypeOK, HeldByStep, TagPush, outputs, runner, store, maven
<1>4. QED
  BY <1>2, <1>3 DEF Types

(* The mirror and the canonical repository's runs move. *)
LEMMA WorldTypes ==
  ASSUME Types, Maintainers \/ Canonical \/ Expire
  PROVE  Types'
<1> USE DEF Types
<1>1. CASE MainMoves
  <2>1. main' \in Commit
    BY <1>1, ReleaseBounds DEF MainMoves, TypeOK, Commit
  <2>2. QED
    BY <1>1, <2>1 DEF MainMoves, TypeOK, Started, HeldByStep, canonical, event, outputs, runner,
      store, maven
<1>2. CASE TagDelete
  BY <1>2 DEF TagDelete, TypeOK, Started, HeldByStep, canonical, event, outputs, runner, store, maven
<1>3. ASSUME NEW r \in Run, NEW c \in 1 .. main, TagCreate(r, c) \/ TagMove(r, c)
      PROVE  Types'
  BY <1>3, TagPushTypes DEF TagCreate, TagMove
<1>4. ASSUME NEW r \in Run, RerunFailed(r)
      PROVE  Types'
  <2>1. attempt[r] + 1 \in 1 .. MaxAttempts
    BY <1>4, ReleaseBounds DEF RerunFailed, TypeOK
  <2>2. TypeOK' /\ Started'
    BY <1>4, <2>1 DEF RerunFailed, Goto, TypeOK, Started, Step, Job, mirror, canonical, event, outputs,
      runner, store, maven
  <2>3. HeldByStep'
    BY <1>4 DEF RerunFailed, Goto, TypeOK, Job, HeldByStep, runner
  <2>4. QED
    BY <2>2, <2>3
<1>5. ASSUME NEW r \in Run, RerunAll(r)
      PROVE  Types'
  <2>1. attempt[r] + 1 \in 1 .. MaxAttempts
    BY <1>5, ReleaseBounds DEF RerunAll, TypeOK
  <2>2. TypeOK' /\ Started'
    BY <1>5, <2>1 DEF RerunAll, Goto, TypeOK, Started, Step, Job, mirror, canonical, event, runner, store,
      maven
  <2>3. HeldByStep'
    BY <1>5 DEF RerunAll, Goto, TypeOK, HeldByStep, runner
  <2>4. QED
    BY <2>2, <2>3
<1>6. ASSUME NEW s \in Commit, NEW result \in Result, CIFinish(s, result)
      PROVE  Types'
  BY <1>6 DEF CIFinish, TypeOK, Started, HeldByStep, mirror, event, outputs, runner, store, maven
<1>7. ASSUME NEW s \in Commit, NEW result \in Result, NEW sound \in BOOLEAN,
             NativeFinish(s, result, sound)
      PROVE  Types'
  <2>1. Bundle(s, native[s].attempt, sound) \in AnyBundleType
    BY DEF Bundle, TypeOK, AnyBundleType
  <2>2. bundles' \subseteq AnyBundleType
    BY <1>7, <2>1 DEF NativeFinish, TypeOK, AnyBundleType
  <2>3. QED
    BY <1>7, <2>2 DEF NativeFinish, TypeOK, Started, HeldByStep, AnyBundleType, mirror, event,
      outputs, runner, store, maven
<1>8. ASSUME NEW s \in Commit, CIRerun(s)
      PROVE  Types'
  BY <1>8 DEF CIRerun, TypeOK, Started, HeldByStep, mirror, event, outputs, runner, store, maven
<1>9. ASSUME NEW s \in Commit, NativeRerun(s)
      PROVE  Types'
  BY <1>9, ReleaseBounds DEF NativeRerun, TypeOK, Started, HeldByStep, mirror, event, outputs, runner,
    store, maven
<1>10. CASE Expire
  BY <1>10 DEF Expire, TypeOK, Started, HeldByStep, mirror, event, outputs, runner, store, maven
<1>11. QED
  BY <1>1, <1>2, <1>3, <1>4, <1>5, <1>6, <1>7, <1>8, <1>9, <1>10 DEF Maintainers, Canonical

(* A failing job leaves its runner empty. *)
LEMMA AbortTypes ==
  ASSUME Types, NEW r \in Run, Abort(r)
  PROVE  /\ pc' \in [Run -> Step \cup {"none", "failed", "done"}]
         /\ failed' \in [Run -> Job \cup {"none"}]
         /\ pending' \in [Run -> SUBSET File]
         /\ held' \in [Run -> Artifact \cup {None} \cup AnyBundleType]
         /\ HeldByStep'
BY DEF Types, TypeOK, HeldByStep, Abort, Clean, Goto, JobOf, Job, AnyBundleType

(* A run takes a step. *)
LEMMA WorkTypes ==
  ASSUME Types, NEW r \in Run, Work(r)
  PROVE  Types'
<1> USE DEF Types, TypeOK, Started, HeldByStep, mirror, canonical, event, outputs, runner, store,
      maven
<1>1. CASE VerifyTag(r)
  BY <1>1 DEF VerifyTag, Goto, Step
<1>2. CASE VerifyCI(r)
  BY <1>2 DEF VerifyCI, Goto, Step
<1>3. CASE SelectNative(r)
  <2>1. native[sha[r]].attempt \in 1 .. MaxNative
    BY <1>3 DEF SelectNative
  <2>2. QED
    BY <1>3, <2>1 DEF SelectNative, Goto, Step
<1>4. CASE Download(r)
  <2>1. PICK b \in AnyBundleType : held' = [held EXCEPT ![r] = b]
    BY <1>4 DEF Download, Offered, AnyBundleType
  <2>2. QED
    BY <1>4, <2>1 DEF Download, Goto, Step, AnyBundleType
<1>5. CASE VerifyBundle(r)
  BY <1>5 DEF VerifyBundle, Goto, Step
<1>6. CASE UploadInput(r)
  <2>1. [run |-> r, attempt |-> attempt[r], bundle |-> held[r]] \in Input
    BY <1>6 DEF UploadInput, Input, AnyBundleType
  <2>2. QED
    BY <1>6, <2>1 DEF UploadInput, Goto, Clean, Step
<1>7. CASE Build(r)
  <2>1. PICK i \in Input :
          releases' = releases \cup
            {[run |-> r, attempt |-> attempt[r], sha |-> sha[r], bundle |-> i.bundle]}
    BY <1>7 DEF Build, InputsOf
  <2>2. [run |-> r, attempt |-> attempt[r], sha |-> sha[r], bundle |-> i.bundle] \in Artifact
    BY <1>7 DEF Build, Input, Artifact
  <2>3. QED
    BY <1>7, <2>1, <2>2 DEF Build, Goto, Step
<1>8. CASE VerifyRelease(r)
  <2>1. PICK a \in Artifact : held' = [held EXCEPT ![r] = a]
    BY <1>8 DEF VerifyRelease, ReleasesOf
  <2>2. QED
    BY <1>8, <2>1 DEF VerifyRelease, ToUpload, Goto, Step
<1>9. CASE Finalize(r)
  <2>1. /\ deployed' = deployed \cup {staged}
        /\ staged' = [f \in File |-> None]
    BY <1>9 DEF Finalize
  <2>2. CASE Goto(r, "github") /\ UNCHANGED <<failed, runner>>
    BY <1>9, <2>1, <2>2 DEF Finalize, Goto, Step
  <2>3. CASE Abort(r)
    BY <1>9, <2>1, <2>3, AbortTypes DEF Finalize, Abort, Goto, AnyBundleType
  <2>4. QED
    BY <1>9, <2>2, <2>3 DEF Finalize
<1>10. CASE GitHubRelease(r)
  BY <1>10 DEF GitHubRelease, Goto, Clean, Step
<1>11. CASE Fail(r)
  BY <1>11, AbortTypes DEF Fail, Abort, Active, Goto, AnyBundleType
<1>12. ASSUME NEW f \in File, Put(r, f)
       PROVE  Types'
  <2>1. /\ pc[r] = "upload" /\ held[r] \in Artifact
        /\ staged' = [staged EXCEPT ![f] = held[r]]
    BY <1>12 DEF Put
  <2>2. CASE pending' = [pending EXCEPT ![r] = @ \ {f}] /\ UNCHANGED <<pc, failed, held>>
    BY <1>12, <2>1, <2>2 DEF Put
  <2>3. CASE Abort(r)
    BY <1>12, <2>1, <2>3, AbortTypes DEF Put, Abort, Goto, AnyBundleType
  <2>4. QED
    BY <1>12, <2>2, <2>3 DEF Put
<1>13. QED
  BY <1>1, <1>2, <1>3, <1>4, <1>5, <1>6, <1>7, <1>8, <1>9, <1>10, <1>11, <1>12 DEF Work

(* Every step keeps the types. *)
LEMMA TypesStep == Types /\ [Next]_vars => Types'
<1>1. ASSUME Types, UNCHANGED vars
      PROVE  Types'
  BY <1>1 DEF Types, TypeOK, Started, HeldByStep, vars, mirror, canonical, event, outputs,
    runner, store, maven
<1>2. QED
  BY <1>1, WorldTypes, WorkTypes DEF Next

(* TypeOK: every variable of a release keeps to its type, whatever runs and  *)
(* retries there are (release.yml, release-provenance.py).                   *)
THEOREM TypesHold == Spec => []TypeOK
<1>1. Spec => []Types
  BY TypesInit, TypesStep, PTL DEF Spec
<1>2. Types => TypeOK
  BY DEF Types
<1>3. QED
  BY <1>1, <1>2, PTL

-----------------------------------------------------------------------------
(* Where what is published comes from. *)

(* What prepare has established of a run's commit, before and after it has   *)
(* seen the CI run; what verify-provenance establishes of a bundle.          *)
Checked(r) == created[r] /\ sha[r] \in Faithful /\ sha[r] = pushed[r]
Vetted(r) == Checked(r) /\ sha[r] \in green
BoundTo(s, b) == b.source = s /\ b.sound
Provenance(a) ==
  Vetted(a.run) /\ a.sha = sha[a.run] /\ a.sha \in Declares /\ BoundTo(a.sha, a.bundle)

(* A tag names a commit main had when it was pushed, and main only grows.    *)
PushedFirst == \A r \in Run :
  sha[r] \in Commit => pushed[r] \in Commit /\ sha[r] <= pushed[r] /\ pushed[r] <= main
GreenCI == \A s \in Commit : ci[s] = "success" => s \in green

VettedAtStep(r) ==
  /\ pc[r] = "ci" => Checked(r)
  /\ pc[r] \in {"checks", "native", "download", "verify", "input"} => Vetted(r)
  /\ pc[r] = "input" => BoundTo(sha[r], held[r])
  /\ pc[r] \in {"upload", "github"} => Provenance(held[r])
VettedByStep == \A r \in Run : VettedAtStep(r)

InputsVetted == \A i \in inputs : Vetted(i.run) /\ BoundTo(sha[i.run], i.bundle)
ReleasesVetted == \A a \in releases \cup github : Provenance(a)
MavenVetted == \A f \in File :
  /\ staged[f] # None => Provenance(staged[f])
  /\ \A d \in deployed : d[f] # None => Provenance(d[f])

Admission ==
  /\ PushedFirst /\ GreenCI
  /\ VettedByStep /\ InputsVetted /\ ReleasesVetted /\ MavenVetted

(* What a step may do to the events and to the record of what passed: a push *)
(* fills in a run that has no event yet, and nothing is taken back.          *)
LEMMA EventsKept ==
  ASSUME Types, [Next]_vars
  PROVE  /\ green \subseteq green' /\ main <= main'
         /\ \A r \in Run : sha[r] \in Commit =>
              sha'[r] = sha[r] /\ created'[r] = created[r] /\ pushed'[r] = pushed[r]
<1> USE DEF mirror, canonical, event
<1>1. Commit \subseteq Nat /\ main \in Nat /\ None \notin Commit
  BY ReleaseNone, ReleaseBounds DEF Types, TypeOK, Commit
<1>2. CASE UNCHANGED vars
  BY <1>1, <1>2 DEF vars
<1>3. ASSUME NEW q \in Run, NEW c \in 1 .. main, TagCreate(q, c) \/ TagMove(q, c)
      PROVE  /\ green = green' /\ main = main'
             /\ \A r \in Run : sha[r] \in Commit =>
                  sha'[r] = sha[r] /\ created'[r] = created[r] /\ pushed'[r] = pushed[r]
  <2>1. PICK new \in BOOLEAN : TagPush(q, c, new)
    BY <1>3 DEF TagCreate, TagMove
  <2>2. QED
    BY <1>1, <2>1 DEF TagPush, Types, TypeOK
<1>4. CASE MainMoves \/ TagDelete \/ (\E r \in Run : RerunFailed(r) \/ RerunAll(r))
  BY <1>1, <1>4 DEF MainMoves, TagDelete, RerunFailed, RerunAll
<1>5. CASE Canonical
  BY <1>1, <1>5 DEF Canonical, CIFinish, CIRerun, NativeFinish, NativeRerun
<1>6. CASE Expire
  BY <1>1, <1>6 DEF Expire
<1>7. ASSUME NEW q \in Run, Work(q)
      PROVE  UNCHANGED <<mirror, canonical, event>>
  BY <1>7 DEF Work, VerifyTag, VerifyCI, SelectNative, Download, VerifyBundle, UploadInput, Build,
    VerifyRelease, Put, Finalize, GitHubRelease, Fail
<1>8. QED
  BY <1>1, <1>2, <1>3, <1>4, <1>5, <1>6, <1>7 DEF Next, Maintainers

(* What has been established of a run, and of an artifact, stays true.       *)
LEMMA ProvenanceKept ==
  ASSUME Types, [Next]_vars
  PROVE  /\ \A r \in Run : (Checked(r) => Checked(r)') /\ (Vetted(r) => Vetted(r)')
         /\ \A r \in Run : \A b : Vetted(r) /\ BoundTo(sha[r], b) => BoundTo(sha'[r], b)
         /\ \A a \in Artifact : Provenance(a) => Provenance(a)'
<1>1. ASSUME NEW r \in Run, Checked(r)
      PROVE  Checked(r)' /\ sha'[r] = sha[r] /\ (Vetted(r) => Vetted(r)')
  BY <1>1, EventsKept, ReleaseInputs DEF Checked, Vetted
<1>2. \A a \in Artifact : a.run \in Run
  BY DEF Artifact
<1>3. QED
  BY <1>1, <1>2 DEF Vetted, Provenance, BoundTo

(* Initially nothing is pushed, stored or published.                         *)
LEMMA AdmissionInit == Init => Admission
BY ReleaseNone DEF Init, Admission, PushedFirst, GreenCI, VettedByStep, VettedAtStep, InputsVetted,
  ReleasesVetted, MavenVetted, Commit

(* PushedFirst is kept. *)
LEMMA PushedFirstStep ==
  ASSUME Types, Admission, [Next]_vars
  PROVE  PushedFirst'
<1>1. Commit \subseteq Nat /\ main \in Commit /\ main' \in Commit /\ None \notin Commit
  BY TypesStep, ReleaseBounds, ReleaseNone DEF Types, TypeOK, Commit
<1>2. ASSUME NEW q \in Run, NEW c \in 1 .. main, TagCreate(q, c) \/ TagMove(q, c)
      PROVE  PushedFirst'
  <2>1. PICK new \in BOOLEAN : TagPush(q, c, new)
    BY <1>2 DEF TagCreate, TagMove
  <2>2. QED
    BY <1>1, <2>1 DEF TagPush, Types, TypeOK, Admission, PushedFirst
<1>3. CASE UNCHANGED event
  <2>1. main <= main' /\ UNCHANGED sha
    BY <1>3, EventsKept DEF event
  <2>2. ASSUME NEW r \in Run, sha[r] \in Commit
        PROVE  /\ pushed'[r] = pushed[r] /\ pushed[r] \in Commit
               /\ sha[r] <= pushed[r] /\ pushed[r] <= main
    BY <2>2, EventsKept DEF Admission, PushedFirst
  <2>3. ASSUME NEW r \in Run, sha[r] \in Commit
        PROVE  pushed[r] <= main'
    <3>1. main \in Nat /\ main' \in Nat /\ pushed[r] \in Nat
      BY <1>1, <2>2, <2>3
    <3>2. QED
      BY <2>1, <2>2, <2>3, <3>1
  <2>4. QED
    BY <2>1, <2>2, <2>3 DEF PushedFirst
<1>4. ASSUME ~ \E q \in Run, c \in 1 .. main : TagCreate(q, c) \/ TagMove(q, c)
      PROVE  UNCHANGED event
  BY <1>4 DEF Next, vars, Maintainers, MainMoves, TagDelete, RerunFailed, RerunAll, Canonical,
    CIFinish, CIRerun, NativeFinish, NativeRerun, Expire, Work, VerifyTag, VerifyCI, SelectNative,
    Download, VerifyBundle, UploadInput, Build, VerifyRelease, Put, Finalize, GitHubRelease, Fail
<1>5. QED
  BY <1>2, <1>3, <1>4

(* A source is on the record as soon as its CI run succeeds.                 *)
LEMMA GreenCIStep ==
  ASSUME Types, Admission, [Next]_vars
  PROVE  GreenCI'
<1>1. ASSUME NEW s \in Commit, NEW result \in Result, CIFinish(s, result)
      PROVE  GreenCI'
  BY <1>1 DEF CIFinish, GreenCI, Admission, Types, TypeOK
<1>2. ASSUME NEW s \in Commit, CIRerun(s)
      PROVE  GreenCI'
  BY <1>2 DEF CIRerun, GreenCI, Admission, Types, TypeOK
<1>3. ASSUME ~ \E s \in Commit : CIRerun(s) \/ \E result \in Result : CIFinish(s, result)
      PROVE  UNCHANGED <<ci, green>>
  BY <1>3 DEF Next, vars, Maintainers, MainMoves, TagDelete, TagCreate, TagMove, TagPush,
    RerunFailed, RerunAll, Canonical, NativeFinish, NativeRerun, Expire, Work, VerifyTag, VerifyCI,
    SelectNative, Download, VerifyBundle, UploadInput, Build, VerifyRelease, Put, Finalize,
    GitHubRelease, Fail, canonical
<1>4. QED
  BY <1>1, <1>2, <1>3 DEF GreenCI, Admission

(* A run's own conditions hold on while it and its runner stand still.       *)
LEMMA VettedAtStepKept ==
  ASSUME Types, Admission, [Next]_vars,
         NEW r \in Run, pc'[r] = pc[r], held'[r] = held[r]
  PROVE  VettedAtStep(r)'
<1>1. VettedAtStep(r)
  BY DEF Admission, VettedByStep
<1>2. pc[r] \in {"upload", "github"} => held[r] \in Artifact
  BY DEF Types, HeldByStep
<1>3. QED
  BY <1>1, <1>2, ProvenanceKept DEF VettedAtStep

(* The maintainers' and the canonical repository's steps send a run to where *)
(* nothing is yet demanded of it, if anywhere.                               *)
LEMMA VettedByWorldStep ==
  ASSUME Types, Admission, [Next]_vars, Maintainers \/ Canonical \/ Expire \/ UNCHANGED vars
  PROVE  VettedByStep'
<1>1. SUFFICES ASSUME NEW r \in Run
               PROVE  \/ pc'[r] = pc[r] /\ held'[r] = held[r]
                      \/ pc'[r] \in Job \cup {"none", "tag"}
  BY VettedAtStepKept DEF VettedByStep, VettedAtStep, Job
<1>2. pc \in [Run -> Step \cup {"none", "failed", "done"}] /\ failed[r] \in Job \cup {"none"}
  BY DEF Types, TypeOK
<1>3. QED
  BY <1>2 DEF Maintainers, Canonical, MainMoves, TagDelete, TagCreate, TagMove, TagPush,
    RerunFailed, RerunAll, Goto, CIFinish, CIRerun, NativeFinish, NativeRerun, Expire, vars, runner

(* A step of a run takes it to the next only with what the next may rely on: *)
(* the tag's state for CI, the CI run's success from then on, and the        *)
(* bundle's and the artifact's checks.                                       *)
LEMMA VettedByWorkStep ==
  ASSUME Types, Admission, [Next]_vars, NEW r \in Run, Work(r)
  PROVE  VettedByStep'
<1>1. /\ pc \in [Run -> Step \cup {"none", "failed", "done"}]
      /\ held \in [Run -> Artifact \cup {None} \cup AnyBundleType]
  BY DEF Types, TypeOK, AnyBundleType
<1>2. VettedAtStep(r) /\ (pc[r] # "none" => sha[r] \in Commit)
  BY DEF Admission, VettedByStep, Types, Started
<1>3. \A q \in Run \ {r} : VettedAtStep(q)'
  <2>1. \A q \in Run \ {r} : pc'[q] = pc[q] /\ held'[q] = held[q]
    BY <1>1 DEF Work, VerifyTag, VerifyCI, SelectNative, Download, VerifyBundle, UploadInput,
      Build, VerifyRelease, Put, Finalize, GitHubRelease, Fail, Abort, Clean, Goto, runner
  <2>2. QED
    BY <2>1, VettedAtStepKept
<1>4. SUFFICES VettedAtStep(r)'
  BY <1>3 DEF VettedByStep
<1>5. CASE pc'[r] \in {"none", "tag", "build", "publish", "failed", "done"}
  BY <1>5 DEF VettedAtStep
<1>6. CASE VerifyTag(r)
  <2>1. pc'[r] = "ci" /\ created[r] /\ sha[r] = main /\ sha[r] \in Faithful
    BY <1>1, <1>6 DEF VerifyTag, TagState, Goto
  <2>2. pushed[r] \in Commit /\ sha[r] <= pushed[r] /\ pushed[r] <= main
    BY <1>2, <1>6 DEF VerifyTag, Admission, PushedFirst
  <2>3. sha[r] = pushed[r]
    BY <2>1, <2>2, ReleaseBounds DEF Commit, Types, TypeOK
  <2>4. QED
    BY <2>1, <2>3, ProvenanceKept DEF Checked, VettedAtStep
<1>7. CASE VerifyCI(r)
  <2>1. pc'[r] \in {"checks", "native"} /\ sha[r] \in green /\ pc[r] \in {"ci", "checks"}
    BY <1>1, <1>2, <1>7 DEF VerifyCI, CISuccess, Goto, Admission, GreenCI
  <2>2. Vetted(r)
    BY <1>2, <2>1 DEF VettedAtStep, Vetted
  <2>3. QED
    BY <2>1, <2>2, ProvenanceKept DEF VettedAtStep
<1>8. CASE SelectNative(r) \/ Download(r)
  <2>1. pc'[r] \in {"download", "verify"} /\ Vetted(r)
    BY <1>1, <1>2, <1>8 DEF SelectNative, Download, Goto, VettedAtStep
  <2>2. QED
    BY <2>1, ProvenanceKept DEF VettedAtStep
<1>9. CASE VerifyBundle(r)
  <2>1. pc'[r] = "input" /\ held'[r] = held[r] /\ Vetted(r) /\ BoundTo(sha[r], held[r])
    BY <1>1, <1>2, <1>9 DEF VerifyBundle, BundleVerifies, Goto, VettedAtStep, BoundTo, runner
  <2>2. QED
    BY <2>1, ProvenanceKept DEF VettedAtStep
<1>10. CASE VerifyRelease(r)
  <2>1. PICK a \in releases : held'[r] = a
    BY <1>1, <1>10 DEF VerifyRelease, ReleasesOf
  <2>2. a \in Artifact /\ Provenance(a) /\ pc'[r] = "upload"
    BY <1>1, <1>10 DEF VerifyRelease, Goto, Types, TypeOK, Admission, ReleasesVetted
  <2>3. QED
    BY <2>1, <2>2, ProvenanceKept DEF VettedAtStep
<1>11. CASE pc'[r] = pc[r] /\ held'[r] = held[r]
  BY <1>11, VettedAtStepKept
<1>12. CASE Finalize(r) /\ pc'[r] = "github" /\ UNCHANGED runner
  <2>1. held'[r] = held[r] /\ held[r] \in Artifact /\ Provenance(held[r])
    BY <1>2, <1>12 DEF Finalize, VettedAtStep, runner, Types, HeldByStep
  <2>2. QED
    BY <1>12, <2>1, ProvenanceKept DEF VettedAtStep
<1>13. UploadInput(r) \/ Build(r) \/ GitHubRelease(r) \/ Fail(r) => pc'[r] \in {"build", "publish", "failed", "done"}
  BY <1>1 DEF UploadInput, Build, GitHubRelease, Fail, Abort, Goto
<1>14. ASSUME NEW f \in File, Put(r, f)
       PROVE  pc'[r] = "failed" \/ (pc'[r] = pc[r] /\ held'[r] = held[r])
  BY <1>1, <1>14 DEF Put, Abort, Goto
<1>15. Finalize(r) => pc'[r] = "failed" \/ (pc'[r] = "github" /\ UNCHANGED runner)
  BY <1>1 DEF Finalize, Abort, Goto
<1>16. QED
  BY <1>5, <1>6, <1>7, <1>8, <1>9, <1>10, <1>11, <1>12, <1>13, <1>14, <1>15 DEF Work

(* What prepare leaves behind has been vetted. *)
LEMMA InputsVettedStep ==
  ASSUME Types, Admission, [Next]_vars
  PROVE  InputsVetted'
<1>1. ASSUME NEW i \in inputs
      PROVE  Vetted(i.run)' /\ BoundTo(sha'[i.run], i.bundle)
  <2>1. i.run \in Run /\ Vetted(i.run) /\ BoundTo(sha[i.run], i.bundle)
    BY <1>1 DEF Types, TypeOK, Input, Admission, InputsVetted
  <2>2. QED
    BY <2>1, ProvenanceKept
<1>2. ASSUME NEW r \in Run, UploadInput(r)
      PROVE  InputsVetted'
  <2>1. Vetted(r) /\ BoundTo(sha[r], held[r])
    BY <1>2 DEF UploadInput, Admission, VettedByStep, VettedAtStep
  <2>2. inputs' = inputs \cup {[run |-> r, attempt |-> attempt[r], bundle |-> held[r]]}
    BY <1>2 DEF UploadInput
  <2>3. QED
    BY <1>1, <2>1, <2>2, ProvenanceKept DEF InputsVetted
<1>3. ASSUME ~ \E r \in Run : UploadInput(r)
      PROVE  inputs' \subseteq inputs
  BY <1>3 DEF Next, vars, Maintainers, MainMoves, TagDelete, TagCreate, TagMove, TagPush,
    RerunFailed, RerunAll, Canonical, CIFinish, CIRerun, NativeFinish, NativeRerun, Expire, Work,
    VerifyTag, VerifyCI, SelectNative, Download, VerifyBundle, Build, VerifyRelease, Put, Finalize,
    GitHubRelease, Fail, store
<1>4. QED
  BY <1>1, <1>2, <1>3 DEF InputsVetted

(* What build leaves behind, and what a GitHub Release shows, has its        *)
(* provenance.                                                               *)
LEMMA ReleasesVettedStep ==
  ASSUME Types, Admission, [Next]_vars
  PROVE  ReleasesVetted'
<1>1. ASSUME NEW a \in releases \cup github
      PROVE  Provenance(a)'
  <2>1. a \in Artifact /\ Provenance(a)
    BY <1>1 DEF Types, TypeOK, Admission, ReleasesVetted
  <2>2. QED
    BY <2>1, ProvenanceKept
<1>2. ASSUME NEW r \in Run, Build(r)
      PROVE  ReleasesVetted'
  <2>1. PICK i \in inputs : /\ i.run = r
                            /\ releases' = releases \cup {[run |-> r, attempt |-> attempt[r],
                                 sha |-> sha[r], bundle |-> i.bundle]}
    BY <1>2 DEF Build, InputsOf
  <2>2. sha[r] \in Declares /\ Vetted(r) /\ BoundTo(sha[r], i.bundle) /\ github' = github
    BY <1>2, <2>1 DEF Build, Admission, InputsVetted
  <2>3. [run |-> r, attempt |-> attempt[r], sha |-> sha[r], bundle |-> i.bundle] \in Artifact
    BY <1>2, <2>1 DEF Types, TypeOK, Started, Build, Input, Artifact
  <2>4. PICK a \in Artifact :
          a = [run |-> r, attempt |-> attempt[r], sha |-> sha[r], bundle |-> i.bundle]
    BY <2>3
  <2>5. Provenance(a)
    BY <2>2, <2>4 DEF Provenance
  <2>6. Provenance(a)'
    BY <2>5, ProvenanceKept
  <2>7. QED
    BY <1>1, <2>1, <2>2, <2>4, <2>6 DEF ReleasesVetted
<1>3. ASSUME NEW r \in Run, GitHubRelease(r)
      PROVE  ReleasesVetted'
  <2>1. PICK a \in Artifact : a = held[r] /\ Provenance(a)
    BY <1>3 DEF GitHubRelease, Admission, VettedByStep, VettedAtStep, Types, HeldByStep
  <2>2. github' = github \cup {a} /\ releases' = releases
    BY <1>3, <2>1 DEF GitHubRelease, store
  <2>3. QED
    BY <1>1, <2>1, <2>2, ProvenanceKept DEF ReleasesVetted
<1>4. ASSUME ~ \E r \in Run : Build(r) \/ GitHubRelease(r)
      PROVE  releases' \subseteq releases /\ github' = github
  BY <1>4 DEF Next, vars, Maintainers, MainMoves, TagDelete, TagCreate, TagMove, TagPush,
    RerunFailed, RerunAll, Canonical, CIFinish, CIRerun, NativeFinish, NativeRerun, Expire, Work,
    VerifyTag, VerifyCI, SelectNative, Download, VerifyBundle, UploadInput, VerifyRelease, Put,
    Finalize, Fail, store
<1>5. QED
  BY <1>1, <1>2, <1>3, <1>4 DEF ReleasesVetted

(* What is staged or deployed has its provenance. *)
LEMMA MavenVettedStep ==
  ASSUME Types, Admission, [Next]_vars
  PROVE  MavenVetted'
<1>1. \A a \in Artifact : Provenance(a) => Provenance(a)'
  BY ProvenanceKept
<1>2. /\ staged \in [File -> Artifact \cup {None}]
      /\ deployed \subseteq [File -> Artifact \cup {None}]
  BY DEF Types, TypeOK
<1>3. \A f \in File : staged[f] # None => staged[f] \in Artifact /\ Provenance(staged[f])
  BY <1>2 DEF Admission, MavenVetted
<1>4. \A f \in File, d \in deployed : d[f] # None => d[f] \in Artifact /\ Provenance(d[f])
  BY <1>2 DEF Admission, MavenVetted
<1>5. ASSUME NEW a, NEW f \in File,
             (a = staged[f] /\ staged[f] # None) \/ \E d \in deployed : a = d[f] /\ d[f] # None
      PROVE  Provenance(a)'
  BY <1>1, <1>3, <1>4, <1>5
<1>6. ASSUME NEW r \in Run, NEW f \in File, Put(r, f)
      PROVE  MavenVetted'
  <2>1. PICK a \in Artifact : a = held[r] /\ Provenance(a)
    BY <1>6 DEF Put, Admission, VettedByStep, VettedAtStep, Types, HeldByStep
  <2>2. staged' = [staged EXCEPT ![f] = a] /\ deployed' = deployed
    BY <1>6, <2>1 DEF Put
  <2>3. Provenance(a)'
    BY <1>1, <2>1
  <2>4. ASSUME NEW g \in File, NEW b, b = staged'[g], b # None
        PROVE  Provenance(b)'
    BY <1>2, <1>5, <2>2, <2>3, <2>4
  <2>5. ASSUME NEW g \in File, NEW d \in deployed', NEW b, b = d[g], b # None
        PROVE  Provenance(b)'
    BY <1>5, <2>2, <2>5
  <2>6. QED
    BY <2>4, <2>5 DEF MavenVetted
<1>7. ASSUME NEW r \in Run, Finalize(r)
      PROVE  MavenVetted'
  <2>1. deployed' = deployed \cup {staged} /\ staged' = [f \in File |-> None]
    BY <1>7 DEF Finalize
  <2>2. ASSUME NEW g \in File, NEW d \in deployed', NEW b, b = d[g], b # None
        PROVE  Provenance(b)'
    BY <1>5, <2>1, <2>2
  <2>3. QED
    BY <2>1, <2>2 DEF MavenVetted
<1>8. ASSUME ~ \E r \in Run : Finalize(r) \/ \E f \in File : Put(r, f)
      PROVE  UNCHANGED maven
  BY <1>8 DEF Next, vars, Maintainers, MainMoves, TagDelete, TagCreate, TagMove, TagPush,
    RerunFailed, RerunAll, Canonical, CIFinish, CIRerun, NativeFinish, NativeRerun, Expire, Work,
    VerifyTag, VerifyCI, SelectNative, Download, VerifyBundle, UploadInput, Build, VerifyRelease,
    GitHubRelease, Fail
<1>9. CASE UNCHANGED maven
  <2>1. ASSUME NEW g \in File, NEW b, b = staged'[g], b # None
        PROVE  Provenance(b)'
    BY <1>5, <1>9, <2>1 DEF maven
  <2>2. ASSUME NEW g \in File, NEW d \in deployed', NEW b, b = d[g], b # None
        PROVE  Provenance(b)'
    BY <1>5, <1>9, <2>2 DEF maven
  <2>3. QED
    BY <2>1, <2>2 DEF MavenVetted
<1>10. QED
  BY <1>6, <1>7, <1>8, <1>9

(* Admission is kept by every step. *)
LEMMA AdmissionStep ==
  ASSUME Types, Admission, [Next]_vars
  PROVE  Admission'
<1>1. VettedByStep'
  BY VettedByWorldStep, VettedByWorkStep DEF Next
<1>2. QED
  BY <1>1, PushedFirstStep, GreenCIStep, InputsVettedStep, ReleasesVettedStep, MavenVettedStep
     DEF Admission

LEMMA AdmissionHolds == Spec => [](Types /\ Admission)
<1>1. Init => Types /\ Admission
  BY TypesInit, AdmissionInit
<1>2. Types /\ Admission /\ [Next]_vars => (Types /\ Admission)'
  BY TypesStep, AdmissionStep
<1>3. QED
  BY <1>1, <1>2, PTL DEF Spec

(* Whatever has been published has its provenance. *)
LEMMA PublishedVetted ==
  ASSUME Types, Admission, NEW a \in Published
  PROVE  Provenance(a)
<1>1. a # None /\ (a \in github \/ \E d \in deployed : \E f \in File : a = d[f])
  BY DEF Published
<1>2. QED
  BY <1>1 DEF Admission, MavenVetted, ReleasesVetted

(* AuthorizedOnly: for any number of commits, runs and attempts, whatever is *)
(* published came from a newly created tag on a faithful export whose CI     *)
(* passed and that declares the version, over a verified bundle of that very *)
(* source (release-provenance.py verify, native-artifacts.py                 *)
(* verify_provenance, release.yml).                                          *)
THEOREM AuthorizedOnlyHolds == Spec => []AuthorizedOnly
<1>1. Types /\ Admission => AuthorizedOnly
  BY PublishedVetted DEF AuthorizedOnly, Provenance, Vetted, Checked, BoundTo
<1>2. QED
  BY <1>1, AdmissionHolds, PTL

(* CurrentAtTag: what is published was main's head when its tag was pushed,  *)
(* though the check comes later and main moves on: a commit of main that is  *)
(* its head now was its head then (validate_tag_state).                      *)
THEOREM CurrentAtTagHolds == Spec => []CurrentAtTag
<1>1. Types /\ Admission => CurrentAtTag
  BY PublishedVetted DEF CurrentAtTag, Provenance, Vetted, Checked
<1>2. QED
  BY <1>1, AdmissionHolds, PTL

-----------------------------------------------------------------------------
(* What a deployment is made of.  Maven's staging repository is one for all  *)
(* runs, so this holds as long as no two runs upload at a time.              *)

OneUpload == \A q, r \in Run : pc[q] = "upload" /\ pc[r] = "upload" => q = r

(* A run that uploads has staged its artifact wherever it is no longer due.  *)
StagedSoFar == \A r \in Run :
  pc[r] = "upload" => \A f \in File \ pending[r] : staged[f] = held[r]
DeployedFirst == \A r \in Run : pc[r] = "github" => [f \in File |-> held[r]] \in deployed

Deployments == StagedSoFar /\ DeployedFirst /\ ExactFiles /\ ReleasedIsDeployed

LEMMA DeploymentsInit == Init => Deployments
BY DEF Init, Deployments, StagedSoFar, DeployedFirst, ExactFiles, ReleasedIsDeployed

(* One PUT, or its failure, while no other run uploads.                      *)
LEMMA DeploymentsPut ==
  ASSUME Types, OneUpload, Deployments, NEW r \in Run, NEW f \in File, Put(r, f)
  PROVE  Deployments'
<1>1. /\ pc \in [Run -> Step \cup {"none", "failed", "done"}] /\ pending \in [Run -> SUBSET File]
      /\ held \in [Run -> Artifact \cup {None} \cup AnyBundleType]
      /\ staged \in [File -> Artifact \cup {None}]
  BY DEF Types, TypeOK, AnyBundleType
<1>2. /\ pc[r] = "upload" /\ staged' = [staged EXCEPT ![f] = held[r]]
      /\ UNCHANGED <<deployed, github>>
  BY DEF Put
<1>3. \A q \in Run \ {r} : pc[q] # "upload" /\ pc'[q] = pc[q] /\ held'[q] = held[q]
  BY <1>1, <1>2 DEF Put, Abort, Clean, Goto, OneUpload
<1>4. \/ pc'[r] = "failed"
      \/ pc'[r] = "upload" /\ held'[r] = held[r] /\ pending'[r] = pending[r] \ {f}
  BY <1>1, <1>2 DEF Put, Abort, Goto
<1>5. StagedSoFar'
  BY <1>1, <1>2, <1>3, <1>4 DEF StagedSoFar, Deployments
<1>6. DeployedFirst'
  BY <1>2, <1>3, <1>4 DEF DeployedFirst, Deployments
<1>7. QED
  BY <1>2, <1>5, <1>6 DEF Deployments, ExactFiles, ReleasedIsDeployed

(* The finalizing POST: what is staged is all there and of one artifact.     *)
LEMMA DeploymentsFinalize ==
  ASSUME Types, OneUpload, Deployments, NEW r \in Run, Finalize(r)
  PROVE  Deployments'
<1>1. /\ pc \in [Run -> Step \cup {"none", "failed", "done"}]
      /\ held \in [Run -> Artifact \cup {None} \cup AnyBundleType]
      /\ staged \in [File -> Artifact \cup {None}]
  BY DEF Types, TypeOK, AnyBundleType
<1>2. /\ pc[r] = "upload" /\ pending[r] = {} /\ deployed' = deployed \cup {staged}
      /\ github' = github
  BY DEF Finalize
<1>3. PICK a \in Artifact : a = held[r]
  BY <1>2 DEF Types, HeldByStep
<1>4. staged = [f \in File |-> a]
  BY <1>1, <1>2, <1>3 DEF StagedSoFar, Deployments
<1>5. \A q \in Run \ {r} : pc[q] # "upload" /\ pc'[q] = pc[q] /\ held'[q] = held[q]
  BY <1>1, <1>2 DEF Finalize, Abort, Clean, Goto, OneUpload, runner
<1>6. pc'[r] = "failed" \/ (pc'[r] = "github" /\ held'[r] = held[r])
  BY <1>1, <1>2 DEF Finalize, Abort, Goto, runner
<1>7. StagedSoFar'
  BY <1>5, <1>6 DEF StagedSoFar
<1>8. DeployedFirst'
  BY <1>2, <1>3, <1>4, <1>5, <1>6 DEF DeployedFirst, Deployments
<1>9. ExactFiles'
  <2>1. \A f \in File : staged[f] = a
    BY <1>4
  <2>2. QED
    BY <1>2, <2>1 DEF ExactFiles, Deployments
<1>10. QED
  BY <1>2, <1>7, <1>8, <1>9 DEF Deployments, ReleasedIsDeployed

(* No other step touches what is staged or deployed, or an upload's runner.  *)
LEMMA DeploymentsStep ==
  ASSUME Types, OneUpload, Deployments, [Next]_vars
  PROVE  Deployments'
<1>1. /\ pc \in [Run -> Step \cup {"none", "failed", "done"}] /\ pending \in [Run -> SUBSET File]
      /\ held \in [Run -> Artifact \cup {None} \cup AnyBundleType]
      /\ failed \in [Run -> Job \cup {"none"}]
  BY DEF Types, TypeOK, AnyBundleType
<1>2. ASSUME UNCHANGED <<maven, github>>,
             \A r \in Run : pc'[r] \in {"upload", "github"} =>
               pc'[r] = pc[r] /\ held'[r] = held[r] /\ pending'[r] = pending[r]
      PROVE  Deployments'
  BY <1>2 DEF Deployments, StagedSoFar, DeployedFirst, ExactFiles, ReleasedIsDeployed, maven
<1>3. ASSUME NEW r \in Run, VerifyRelease(r)
      PROVE  Deployments'
  <2>1. /\ UNCHANGED <<maven, github>> /\ pc'[r] = "upload" /\ pending'[r] = File
        /\ \A q \in Run \ {r} : pc'[q] = pc[q] /\ held'[q] = held[q] /\ pending'[q] = pending[q]
    BY <1>1, <1>3 DEF VerifyRelease, Goto, ToUpload
  <2>2. QED
    BY <2>1 DEF Deployments, StagedSoFar, DeployedFirst, ExactFiles, ReleasedIsDeployed, maven
<1>4. ASSUME NEW r \in Run, GitHubRelease(r)
      PROVE  Deployments'
  <2>1. /\ UNCHANGED maven /\ github' = github \cup {held[r]} /\ pc[r] = "github"
        /\ pc'[r] = "done"
        /\ \A q \in Run \ {r} : pc'[q] = pc[q] /\ held'[q] = held[q] /\ pending'[q] = pending[q]
    BY <1>1, <1>4 DEF GitHubRelease, Goto, Clean
  <2>2. QED
    BY <2>1 DEF Deployments, StagedSoFar, DeployedFirst, ExactFiles, ReleasedIsDeployed, maven
<1>5. ASSUME NEW r \in Run, VerifyTag(r) \/ VerifyCI(r) \/ SelectNative(r) \/ Download(r)
               \/ VerifyBundle(r) \/ UploadInput(r) \/ Build(r) \/ Fail(r)
      PROVE  /\ UNCHANGED <<maven, github>> /\ pc'[r] \notin {"upload", "github"}
             /\ \A q \in Run \ {r} : pc'[q] = pc[q] /\ held'[q] = held[q]
                                        /\ pending'[q] = pending[q]
  BY <1>1, <1>5 DEF VerifyTag, VerifyCI, SelectNative, Download, VerifyBundle, UploadInput, Build,
    Fail, Abort, Clean, Goto, runner
<1>6. ASSUME Maintainers \/ Canonical \/ Expire \/ UNCHANGED vars
      PROVE  /\ UNCHANGED <<maven, github, held, pending>>
             /\ \A r \in Run : pc'[r] = pc[r] \/ pc'[r] \in Job \cup {"none", "tag"}
  BY <1>1, <1>6 DEF Maintainers, Canonical, MainMoves, TagDelete, TagCreate, TagMove, TagPush,
    RerunFailed, RerunAll, Goto, CIFinish, CIRerun, NativeFinish, NativeRerun, Expire, vars,
    runner, maven
<1>7. CASE \E r \in Run : VerifyTag(r) \/ VerifyCI(r) \/ SelectNative(r) \/ Download(r)
               \/ VerifyBundle(r) \/ UploadInput(r) \/ Build(r) \/ Fail(r)
  BY <1>2, <1>5, <1>7
<1>8. CASE Maintainers \/ Canonical \/ Expire \/ UNCHANGED vars
  BY <1>2, <1>6, <1>8 DEF Job
<1>9. QED
  BY <1>3, <1>4, <1>7, <1>8, DeploymentsPut, DeploymentsFinalize DEF Next, Work

LEMMA DeploymentsHold == Spec /\ []OneUpload => []Deployments
<1>1. Spec => []Types
  BY TypesInit, TypesStep, PTL DEF Spec
<1>2. Types /\ OneUpload /\ Deployments /\ [Next]_vars => Deployments'
  BY DeploymentsStep
<1>3. QED
  BY <1>1, <1>2, DeploymentsInit, PTL DEF Spec

(* ExactFiles: as long as no two runs upload at the same time, a deployment  *)
(* is one build's files and all of them, whatever requests are lost and      *)
(* whichever jobs are run again (release.yml's upload loop).                 *)
THEOREM ExactFilesHold == Spec /\ []OneUpload => []ExactFiles
<1>1. Deployments => ExactFiles
  BY DEF Deployments
<1>2. QED
  BY <1>1, DeploymentsHold, PTL

(* ReleasedIsDeployed: under the same condition a GitHub Release shows a     *)
(* build all of whose files were deployed.                                   *)
THEOREM ReleasedIsDeployedHolds == Spec /\ []OneUpload => []ReleasedIsDeployed
<1>1. Deployments => ReleasedIsDeployed
  BY DEF Deployments
<1>2. QED
  BY <1>1, DeploymentsHold, PTL

(* A version whose tag is pushed once has one run, so that the condition is  *)
(* met and both properties hold without it.                                  *)
THEOREM OneRunDeploys ==
  ASSUME MaxRuns = 1
  PROVE  Spec => [](ExactFiles /\ ReleasedIsDeployed)
<1>1. OneUpload
  BY DEF OneUpload, Run
<1>2. QED
  BY <1>1, ExactFilesHold, ReleasedIsDeployedHolds, PTL

-----------------------------------------------------------------------------
(* What a re-run finds. *)

(* The run has its input, its artifact, of this attempt or an earlier one.   *)
PastInput(r) ==
  \/ pc[r] \in {"build", "publish", "upload", "github", "done"}
  \/ pc[r] = "failed" /\ failed[r] \in {"build", "publish"}
PastBuild(r) ==
  \/ pc[r] \in {"publish", "upload", "github", "done"}
  \/ pc[r] = "failed" /\ failed[r] = "publish"

(* None of the run's artifacts is newer than attempt n, and if any is left,  *)
(* so is the one of attempt n.                                               *)
LatestIs(artifacts, r, n) == \A x \in artifacts : x.run = r =>
  x.attempt <= n /\ \E y \in artifacts : y.run = r /\ y.attempt = n

NoneAhead == \A x \in inputs \cup releases : x.attempt <= attempt[x.run]
InputLatest == \A r \in Run : PastInput(r) => LatestIs(inputs, r, input[r])
BuildLatest == \A r \in Run : PastBuild(r) => LatestIs(releases, r, built[r])

Resumption == NoneAhead /\ InputLatest /\ BuildLatest

LEMMA ResumptionInit == Init => Resumption
BY DEF Init, Resumption, NoneAhead, InputLatest, BuildLatest, PastInput, PastBuild

(* Artifacts that go with the oldest of their run first leave the newest. *)
LEMMA LatestAfterExpiry ==
  ASSUME NEW A, NEW e \in A, OldestIn(A, e), NEW r, NEW n, LatestIs(A, r, n),
         \A x \in A : x.attempt \in Nat
  PROVE  LatestIs(A \ {e}, r, n)
<1>1. SUFFICES ASSUME NEW x \in A \ {e}, x.run = r
               PROVE  x.attempt <= n /\ \E y \in A \ {e} : y.run = r /\ y.attempt = n
  BY DEF LatestIs
<1>2. x.attempt <= n
  BY <1>1 DEF LatestIs
<1>3. PICK y \in A : y.run = r /\ y.attempt = n
  BY <1>1 DEF LatestIs
<1>4. CASE y = e
  <2>1. e.attempt <= x.attempt
    BY <1>1, <1>3, <1>4 DEF OldestIn
  <2>2. x.attempt = n
    BY <1>2, <1>3, <1>4, <2>1
  <2>3. QED
    BY <1>1, <2>2
<1>5. QED
  BY <1>2, <1>3, <1>4

(* No step but an upload adds an artifact; attempts only rise.               *)
LEMMA ArtifactsKept ==
  ASSUME Types, [Next]_vars
  PROVE  /\ \A r \in Run : attempt[r] <= attempt'[r]
         /\ (~ \E r \in Run : UploadInput(r)) => \/ inputs' = inputs
                \/ \E i \in inputs : OldestIn(inputs, i) /\ inputs' = inputs \ {i}
         /\ (~ \E r \in Run : Build(r)) => \/ releases' = releases
                \/ \E a \in releases : OldestIn(releases, a) /\ releases' = releases \ {a}
<1>1. attempt \in [Run -> 1 .. MaxAttempts]
  BY DEF Types, TypeOK
<1>2. CASE Maintainers
  BY <1>1, <1>2, ReleaseBounds DEF Maintainers, MainMoves, TagDelete, TagCreate, TagMove, TagPush,
    RerunFailed, RerunAll, store
<1>3. CASE Canonical \/ UNCHANGED vars
  BY <1>1, <1>3, ReleaseBounds DEF Canonical, CIFinish, CIRerun, NativeFinish, NativeRerun, vars,
    store
<1>4. CASE Expire
  BY <1>1, <1>4, ReleaseBounds DEF Expire, store
<1>5. ASSUME NEW r \in Run, Work(r)
      PROVE  /\ attempt' = attempt
             /\ ~UploadInput(r) => inputs' = inputs
             /\ ~Build(r) => releases' = releases
  BY <1>5 DEF Work, VerifyTag, VerifyCI, SelectNative, Download, VerifyBundle, UploadInput, Build,
    VerifyRelease, Put, Finalize, GitHubRelease, Fail, store
<1>6. CASE \E r \in Run : Work(r)
  BY <1>1, <1>5, <1>6, ReleaseBounds
<1>7. QED
  BY <1>2, <1>3, <1>4, <1>6 DEF Next

(* No artifact is of an attempt still to come. *)
LEMMA NoneAheadStep ==
  ASSUME Types, NoneAhead, [Next]_vars
  PROVE  NoneAhead'
<1>1. /\ attempt \in [Run -> 1 .. MaxAttempts] /\ attempt' \in [Run -> 1 .. MaxAttempts]
      /\ 1 .. MaxAttempts \subseteq Nat
      /\ \A x \in inputs \cup releases : x.run \in Run /\ x.attempt \in 1 .. MaxAttempts
  BY TypesStep, ReleaseBounds DEF Types, TypeOK, Input, Artifact
<1>2. ASSUME NEW x \in inputs \cup releases
      PROVE  x.attempt <= attempt'[x.run]
  <2>1. x.attempt <= attempt[x.run] /\ attempt[x.run] <= attempt'[x.run]
    BY <1>1, <1>2, ArtifactsKept DEF NoneAhead
  <2>2. QED
    BY <1>1, <2>1
<1>3. ASSUME NEW x \in (inputs \cup releases)', x \notin inputs \cup releases
      PROVE  x.attempt <= attempt'[x.run]
  <2>1. CASE \E r \in Run : UploadInput(r)
    BY <1>1, <1>3, <2>1 DEF UploadInput
  <2>2. CASE \E r \in Run : Build(r)
    BY <1>1, <1>3, <2>2 DEF Build
  <2>3. QED
    BY <1>3, <2>1, <2>2, ArtifactsKept
<1>4. QED
  BY <1>2, <1>3 DEF NoneAhead

(* How a run comes to have its input: by uploading it in this attempt.       *)
LEMMA PastInputStep ==
  ASSUME Types, [Next]_vars, NEW r \in Run, PastInput(r)', ~UploadInput(r)
  PROVE  PastInput(r) /\ input'[r] = input[r]
<1>1. /\ pc \in [Run -> Step \cup {"none", "failed", "done"}]
      /\ failed \in [Run -> Job \cup {"none"}] /\ input \in [Run -> 1 .. MaxAttempts \cup {None}]
  BY DEF Types, TypeOK
<1>2. CASE Maintainers
  BY <1>1, <1>2 DEF Maintainers, MainMoves, TagDelete, TagCreate, TagMove, TagPush, RerunFailed,
    RerunAll, Goto, PastInput, Job, outputs
<1>3. CASE Canonical \/ Expire \/ UNCHANGED vars
  BY <1>3 DEF Canonical, CIFinish, CIRerun, NativeFinish, NativeRerun, Expire, vars, PastInput,
    outputs
<1>4. ASSUME NEW q \in Run, Work(q)
      PROVE  PastInput(r) /\ input'[r] = input[r]
  BY <1>1, <1>4 DEF Work, VerifyTag, VerifyCI, SelectNative, Download, VerifyBundle, UploadInput,
    Build, VerifyRelease, Put, Finalize, GitHubRelease, Fail, Abort, Active, JobOf, Step, Goto,
    PastInput, outputs
<1>5. QED
  BY <1>2, <1>3, <1>4 DEF Next

(* And its artifact: by building it in this attempt.                         *)
LEMMA PastBuildStep ==
  ASSUME Types, [Next]_vars, NEW r \in Run, PastBuild(r)', ~Build(r)
  PROVE  PastBuild(r) /\ built'[r] = built[r]
<1>1. /\ pc \in [Run -> Step \cup {"none", "failed", "done"}]
      /\ failed \in [Run -> Job \cup {"none"}] /\ built \in [Run -> 1 .. MaxAttempts \cup {None}]
  BY DEF Types, TypeOK
<1>2. CASE Maintainers
  BY <1>1, <1>2 DEF Maintainers, MainMoves, TagDelete, TagCreate, TagMove, TagPush, RerunFailed,
    RerunAll, Goto, PastBuild, Job, outputs
<1>3. CASE Canonical \/ Expire \/ UNCHANGED vars
  BY <1>3 DEF Canonical, CIFinish, CIRerun, NativeFinish, NativeRerun, Expire, vars, PastBuild,
    outputs
<1>4. ASSUME NEW q \in Run, Work(q)
      PROVE  PastBuild(r) /\ built'[r] = built[r]
  BY <1>1, <1>4 DEF Work, VerifyTag, VerifyCI, SelectNative, Download, VerifyBundle, UploadInput,
    Build, VerifyRelease, Put, Finalize, GitHubRelease, Fail, Abort, Active, JobOf, Step, Goto,
    PastBuild, outputs
<1>5. QED
  BY <1>2, <1>3, <1>4 DEF Next

LEMMA InputLatestStep ==
  ASSUME Types, Resumption, [Next]_vars
  PROVE  InputLatest'
<1> SUFFICES ASSUME NEW r \in Run, PastInput(r)'
             PROVE  \E n : n = input'[r] /\ LatestIs(inputs', r, n)
  BY DEF InputLatest, LatestIs
<1>1. \A x \in inputs : x.attempt \in Nat /\ x.run \in Run
  BY ReleaseBounds DEF Types, TypeOK, Input
<1>2. ASSUME NEW q \in Run, UploadInput(q)
      PROVE  \E n : n = input'[r] /\ LatestIs(inputs', r, n)
  <2>1. PICK n \in 1 .. MaxAttempts : n = attempt[q]
    BY DEF Types, TypeOK
  <2>2. inputs' = inputs \cup {[run |-> q, attempt |-> n, bundle |-> held[q]]}
    BY <1>2, <2>1 DEF UploadInput
  <2>3. CASE q = r
    <3>1. input'[r] = n
      BY <1>2, <2>1, <2>3 DEF UploadInput, Types, TypeOK
    <3>2. \A x \in inputs : x.run = r => x.attempt <= n
      BY <2>1, <2>3 DEF Resumption, NoneAhead
    <3>3. \E y \in inputs' : y.run = r /\ y.attempt = n
      <4>1. [run |-> q, attempt |-> n, bundle |-> held[q]]
              \in inputs'
        BY <2>2
      <4>2. QED
        BY <2>3, <4>1
    <3>4. ASSUME NEW x \in inputs', x.run = r
          PROVE  x.attempt <= n
      BY <2>1, <2>2, <3>2, <3>4, ReleaseBounds
    <3>5. QED
      BY <3>1, <3>3, <3>4 DEF LatestIs
  <2>4. CASE q # r
    <3>1. PastInput(r) /\ input'[r] = input[r]
      BY <1>2, <2>4 DEF UploadInput, PastInput, Goto, Types, TypeOK
    <3>2. LatestIs(inputs, r, input[r])
      BY <3>1 DEF Resumption, InputLatest
    <3>3. LatestIs(inputs', r, input[r])
      BY <2>2, <2>4, <3>2 DEF LatestIs
    <3>4. QED
      BY <3>1, <3>3
  <2>5. QED
    BY <2>3, <2>4
<1>3. CASE ~ \E q \in Run : UploadInput(q)
  <2>1. PastInput(r) /\ input'[r] = input[r]
    BY <1>3, PastInputStep
  <2>2. LatestIs(inputs, r, input[r])
    BY <2>1 DEF Resumption, InputLatest
  <2>3. CASE inputs' = inputs
    BY <2>1, <2>2, <2>3
  <2>4. CASE inputs' # inputs
    <3>1. PICK i \in inputs : OldestIn(inputs, i) /\ inputs' = inputs \ {i}
      BY <1>3, <2>4, ArtifactsKept
    <3>2. LatestIs(inputs \ {i}, r, input[r])
      BY <1>1, <2>2, <3>1, LatestAfterExpiry
    <3>3. QED
      BY <2>1, <3>1, <3>2
  <2>5. QED
    BY <2>3, <2>4
<1>4. QED
  BY <1>2, <1>3

LEMMA BuildLatestStep ==
  ASSUME Types, Resumption, [Next]_vars
  PROVE  BuildLatest'
<1> SUFFICES ASSUME NEW r \in Run, PastBuild(r)'
             PROVE  \E n : n = built'[r] /\ LatestIs(releases', r, n)
  BY DEF BuildLatest, LatestIs
<1>1. \A x \in releases : x.attempt \in Nat /\ x.run \in Run
  BY ReleaseBounds DEF Types, TypeOK, Artifact
<1>2. ASSUME NEW q \in Run, Build(q)
      PROVE  \E n : n = built'[r] /\ LatestIs(releases', r, n)
  <2>1. PICK n \in 1 .. MaxAttempts : n = attempt[q]
    BY DEF Types, TypeOK
  <2>2. PICK b : releases' = releases \cup {[run |-> q, attempt |-> n, sha |-> sha[q], bundle |-> b]}
    BY <1>2, <2>1 DEF Build
  <2>3. CASE q = r
    <3>1. built'[r] = n
      BY <1>2, <2>1, <2>3 DEF Build, Types, TypeOK
    <3>2. \A x \in releases : x.run = r => x.attempt <= n
      BY <2>1, <2>3 DEF Resumption, NoneAhead
    <3>3. \E y \in releases' : y.run = r /\ y.attempt = n
      <4>1. [run |-> q, attempt |-> n, sha |-> sha[q], bundle |-> b]
              \in releases'
        BY <2>2
      <4>2. QED
        BY <2>3, <4>1
    <3>4. ASSUME NEW x \in releases', x.run = r
          PROVE  x.attempt <= n
      BY <2>1, <2>2, <3>2, <3>4, ReleaseBounds
    <3>5. QED
      BY <3>1, <3>3, <3>4 DEF LatestIs
  <2>4. CASE q # r
    <3>1. PastBuild(r) /\ built'[r] = built[r]
      BY <1>2, <2>4 DEF Build, PastBuild, Goto, Types, TypeOK
    <3>2. LatestIs(releases, r, built[r])
      BY <3>1 DEF Resumption, BuildLatest
    <3>3. LatestIs(releases', r, built[r])
      BY <2>2, <2>4, <3>2 DEF LatestIs
    <3>4. QED
      BY <3>1, <3>3
  <2>5. QED
    BY <2>3, <2>4
<1>3. CASE ~ \E q \in Run : Build(q)
  <2>1. PastBuild(r) /\ built'[r] = built[r]
    BY <1>3, PastBuildStep
  <2>2. LatestIs(releases, r, built[r])
    BY <2>1 DEF Resumption, BuildLatest
  <2>3. CASE releases' = releases
    BY <2>1, <2>2, <2>3
  <2>4. CASE releases' # releases
    <3>1. PICK a \in releases : OldestIn(releases, a) /\ releases' = releases \ {a}
      BY <1>3, <2>4, ArtifactsKept
    <3>2. LatestIs(releases \ {a}, r, built[r])
      BY <1>1, <2>2, <3>1, LatestAfterExpiry
    <3>3. QED
      BY <2>1, <3>1, <3>2
  <2>5. QED
    BY <2>3, <2>4
<1>4. QED
  BY <1>2, <1>3

(* Resumable: whatever was re-run and whatever lapsed, build and publish     *)
(* find the artifacts of the jobs before them if any of the run's is left,   *)
(* under the attempt and with the manifest they ask for (release.yml,        *)
(* release-artifact.py verify).                                              *)
THEOREM ResumableHolds == Spec => []Resumable
<1>1. Types /\ Resumption /\ [Next]_vars => Resumption'
  BY NoneAheadStep, InputLatestStep, BuildLatestStep DEF Resumption
<1>2. Types /\ Admission /\ Resumption => Resumable
  <2>1. SUFFICES ASSUME Types, Admission, Resumption, NEW r \in Run
                 PROVE  /\ pc[r] = "build" /\ (\E i \in inputs : i.run = r) => InputsOf(r) # {}
                        /\ pc[r] = "publish" /\ (\E a \in releases : a.run = r)
                             => \E a \in ReleasesOf(r) : ManifestAgrees(r, a)
    BY DEF Resumable
  <2>2. pc[r] = "build" /\ (\E i \in inputs : i.run = r) => InputsOf(r) # {}
    BY <2>1 DEF Resumption, InputLatest, PastInput, LatestIs, InputsOf
  <2>3. ASSUME pc[r] = "publish", \E a \in releases : a.run = r
        PROVE  \E a \in ReleasesOf(r) : ManifestAgrees(r, a)
    <3>1. PICK a \in releases : a.run = r /\ a.attempt = built[r]
      BY <2>1, <2>3 DEF Resumption, BuildLatest, PastBuild, LatestIs
    <3>2. a.sha = sha[r]
      BY <2>1, <3>1 DEF Admission, ReleasesVetted, Provenance
    <3>3. QED
      BY <3>1, <3>2 DEF ReleasesOf, ManifestAgrees
  <2>4. QED
    BY <2>2, <2>3
<1>3. QED
  BY <1>1, <1>2, ResumptionInit, AdmissionHolds, PTL DEF Spec

-----------------------------------------------------------------------------
(* Which native attempt a release is built over. *)

(* An attempt is named in an output only once its job is past.               *)
Named == \A r \in Run :
  /\ ~PastInput(r) => input[r] = None
  /\ ~PastBuild(r) => built[r] = None

(* What the present attempt has uploaded is what the outputs name, so an     *)
(* upload never shares its name with an artifact of another selection.       *)
CurrentNamed ==
  /\ \A i \in inputs : i.attempt = attempt[i.run] => input[i.run] = i.attempt
  /\ \A a \in releases : a.attempt = attempt[a.run] => built[a.run] = a.attempt

HeldSelected == \A r \in Run : pc[r] \in {"verify", "input"} => held[r].attempt = chosen[r]
InputSelected == \A r \in Run : \A i \in InputsOf(r) : i.bundle.attempt = chosen[r]

Selection == Named /\ CurrentNamed /\ HeldSelected /\ InputSelected /\ SelectedBundle

LEMMA SelectionInit == Init => Selection
BY DEF Init, Selection, Named, CurrentNamed, HeldSelected, InputSelected, SelectedBundle, InputsOf,
  ReleasesOf

(* No run but its own job names an attempt, and artifacts only lapse.        *)
LEMMA SelectionWorld ==
  ASSUME Types, NoneAhead, Selection, Maintainers \/ Canonical \/ Expire \/ UNCHANGED vars
  PROVE  Selection'
<1> USE DEF Selection, Named, CurrentNamed, HeldSelected, InputSelected, SelectedBundle, InputsOf,
  ReleasesOf, PastInput, PastBuild
<1>1. /\ pc \in [Run -> Step \cup {"none", "failed", "done"}] /\ attempt \in [Run -> 1 .. MaxAttempts]
      /\ failed \in [Run -> Job \cup {"none"}]
      /\ chosen \in [Run -> 1 .. MaxNative \cup {None}]
      /\ input \in [Run -> 1 .. MaxAttempts \cup {None}]
      /\ built \in [Run -> 1 .. MaxAttempts \cup {None}]
      /\ \A x \in inputs \cup releases : x.run \in Run /\ x.attempt \in 1 .. MaxAttempts
  BY DEF Types, TypeOK, Input, Artifact
<1>2. CASE MainMoves \/ TagDelete \/ Canonical \/ UNCHANGED vars
  BY <1>2 DEF MainMoves, TagDelete, Canonical, CIFinish, CIRerun, NativeFinish, NativeRerun, vars,
    outputs, runner, store
<1>3. CASE Expire
  <2>1. inputs' \subseteq inputs /\ releases' \subseteq releases
    BY <1>3 DEF Expire, store
  <2>2. UNCHANGED <<attempt, pc, failed, chosen, input, built, held>>
    BY <1>3 DEF Expire, outputs, runner
  <2>3. QED
    BY <2>1, <2>2
<1>4. ASSUME NEW r \in Run, NEW c, NEW new, TagPush(r, c, new)
      PROVE  Selection'
  <2>1. pc[r] = "none"
    BY <1>4, ReleaseNone, ReleaseBounds DEF TagPush, Types, Started, Commit
  <2>2. QED
    BY <1>1, <1>4, <2>1 DEF TagPush, Goto, outputs, runner, store
<1>5. ASSUME NEW r \in Run, RerunFailed(r) \/ RerunAll(r)
      PROVE  Selection'
  <2>1. attempt' = [attempt EXCEPT ![r] = @ + 1] /\ UNCHANGED <<inputs, releases, held>>
    BY <1>5 DEF RerunFailed, RerunAll, store, runner
  <2>2. \A x \in inputs \cup releases : x.run = r => x.attempt # attempt'[r]
    BY <1>1, <2>1, ReleaseBounds DEF NoneAhead
  <2>3. CASE RerunFailed(r)
    <3>1. UNCHANGED <<chosen, input, built>>
      BY <2>3 DEF RerunFailed, outputs
    <3>2. CurrentNamed'
      BY <1>1, <2>1, <2>2, <3>1
    <3>3. Named' /\ HeldSelected'
      BY <1>1, <2>1, <2>3, <3>1 DEF RerunFailed, Goto, Job
    <3>4. QED
      BY <2>1, <3>1, <3>2, <3>3
  <2>4. CASE RerunAll(r)
    <3>1. /\ input' = [input EXCEPT ![r] = None] /\ built' = [built EXCEPT ![r] = None]
          /\ chosen' = [chosen EXCEPT ![r] = None] /\ pc' = [pc EXCEPT ![r] = "tag"]
          /\ failed' = [failed EXCEPT ![r] = "none"]
      BY <2>4 DEF RerunAll, Goto
    <3>2. CurrentNamed'
      BY <1>1, <2>1, <2>2, <3>1
    <3>3. Named' /\ HeldSelected'
      BY <1>1, <2>1, <3>1
    <3>4. InputSelected' /\ SelectedBundle'
      BY <1>1, <2>1, <3>1, ReleaseNone
    <3>5. QED
      BY <3>2, <3>3, <3>4
  <2>5. QED
    BY <1>5, <2>3, <2>4
<1>6. QED
  BY <1>2, <1>3, <1>4, <1>5 DEF Maintainers, TagCreate, TagMove

LEMMA SelectionWork ==
  ASSUME Types, Selection, NEW r \in Run, Work(r)
  PROVE  Selection'
<1> USE DEF Selection, Named, CurrentNamed, HeldSelected, InputSelected, SelectedBundle, InputsOf,
  ReleasesOf, PastInput, PastBuild
<1>1. /\ pc \in [Run -> Step \cup {"none", "failed", "done"}] /\ attempt \in [Run -> 1 .. MaxAttempts]
      /\ failed \in [Run -> Job \cup {"none"}]
      /\ chosen \in [Run -> 1 .. MaxNative \cup {None}]
      /\ input \in [Run -> 1 .. MaxAttempts \cup {None}]
      /\ built \in [Run -> 1 .. MaxAttempts \cup {None}]
      /\ DOMAIN held = Run
      /\ \A x \in inputs \cup releases : x.run \in Run /\ x.attempt \in 1 .. MaxAttempts
  BY DEF Types, TypeOK, Input, Artifact
<1>2. None \notin 1 .. MaxAttempts
  BY ReleaseNone, ReleaseBounds
<1>3. CASE SelectNative(r)
  BY <1>1, <1>2, <1>3 DEF SelectNative, Goto, runner, store
<1>4. CASE Download(r)
  <2>1. held'[r].attempt = chosen[r]
    BY <1>1, <1>4 DEF Download, Offered
  <2>2. QED
    BY <1>1, <1>4, <2>1 DEF Download, Goto, outputs, store
<1>5. CASE UploadInput(r)
  <2>1. PICK i : i = [run |-> r, attempt |-> attempt[r], bundle |-> held[r]]
    OBVIOUS
  <2>2. /\ inputs' = inputs \cup {i} /\ input' = [input EXCEPT ![r] = attempt[r]]
        /\ pc[r] = "input" /\ pc' = [pc EXCEPT ![r] = "build"]
        /\ held' = [held EXCEPT ![r] = None]
        /\ UNCHANGED <<attempt, failed, chosen, built, releases>>
    BY <1>5, <2>1 DEF UploadInput, Goto, Clean
  <2>3. \A x \in inputs : x.run = r => x.attempt # attempt[r]
    BY <1>1, <1>2, <2>2
  <2>4. i.run = r /\ i.attempt = attempt[r] /\ i.bundle.attempt = chosen[r]
    BY <2>1, <2>2
  <2>5. Named' /\ CurrentNamed' /\ HeldSelected'
    BY <1>1, <2>2, <2>4
  <2>6. InputSelected'
    BY <1>1, <2>2, <2>3, <2>4
  <2>7. QED
    BY <2>2, <2>5, <2>6
<1>6. CASE Build(r)
  <2>1. PICK i \in InputsOf(r) : releases' = releases \cup
          {[run |-> r, attempt |-> attempt[r], sha |-> sha[r], bundle |-> i.bundle]}
    BY <1>6 DEF Build
  <2>2. PICK a : a = [run |-> r, attempt |-> attempt[r], sha |-> sha[r], bundle |-> i.bundle]
    OBVIOUS
  <2>3. /\ releases' = releases \cup {a} /\ built' = [built EXCEPT ![r] = attempt[r]]
        /\ pc[r] = "build" /\ pc' = [pc EXCEPT ![r] = "publish"]
        /\ UNCHANGED <<attempt, failed, chosen, input, inputs, held>>
    BY <1>6, <2>1, <2>2 DEF Build, Goto, runner
  <2>4. \A x \in releases : x.run = r => x.attempt # attempt[r]
    BY <1>1, <1>2, <2>3
  <2>5. a.run = r /\ a.attempt = attempt[r] /\ a.bundle.attempt = chosen[r]
    BY <2>1, <2>2
  <2>6. Named' /\ CurrentNamed' /\ HeldSelected'
    BY <1>1, <2>3, <2>5
  <2>7. SelectedBundle'
    BY <1>1, <2>3, <2>4, <2>5
  <2>8. QED
    BY <2>3, <2>6, <2>7
<1>7. ASSUME VerifyTag(r) \/ VerifyCI(r) \/ VerifyBundle(r) \/ VerifyRelease(r) \/ Finalize(r)
               \/ GitHubRelease(r) \/ Fail(r) \/ \E f \in File : Put(r, f)
      PROVE  Selection'
  <2>1. UNCHANGED <<attempt, chosen, input, built, inputs, releases>>
    BY <1>7 DEF VerifyTag, VerifyCI, VerifyBundle, VerifyRelease, Finalize, GitHubRelease, Fail, Put,
      outputs, store
  <2>2. Named'
    BY <1>1, <1>7, <2>1 DEF VerifyTag, VerifyCI, VerifyBundle, VerifyRelease, Finalize,
      GitHubRelease, Fail, Put, Abort, Active, JobOf, Step, Goto
  <2>3. HeldSelected'
    BY <1>1, <1>7, <2>1 DEF VerifyTag, VerifyCI, VerifyBundle, VerifyRelease, Finalize,
      GitHubRelease, Fail, Put, Abort, Clean, Goto, runner
  <2>4. QED
    BY <2>1, <2>2, <2>3
<1>8. QED
  BY <1>3, <1>4, <1>5, <1>6, <1>7 DEF Work

(* SelectedBundle: a release is built over the native attempt its prepare    *)
(* job selected, for any number of runs and attempts of either workflow.     *)
THEOREM SelectedBundleHolds == Spec => []SelectedBundle
<1>1. Types /\ Resumption /\ [Next]_vars => Resumption'
  BY NoneAheadStep, InputLatestStep, BuildLatestStep DEF Resumption
<1>2. Types /\ Resumption /\ Selection /\ [Next]_vars => Selection'
  BY SelectionWorld, SelectionWork DEF Next, Resumption
<1>3. Selection => SelectedBundle
  BY DEF Selection
<1>4. QED
  BY <1>1, <1>2, <1>3, ResumptionInit, SelectionInit, AdmissionHolds, PTL DEF Spec
=============================================================================
