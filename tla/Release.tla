------------------------------- MODULE Release -------------------------------
(***************************************************************************)
(* One version's way from a pushed tag to Maven Central: the three jobs of *)
(* .github/workflows/release.yml with release-provenance.py,               *)
(* native-artifacts.py (download-github, verify-provenance) and            *)
(* release-artifact.py, as workflow runs that race the mirror's main       *)
(* branch, the canonical repository's runs, each other and retries.        *)
(*                                                                         *)
(* A commit of the mirror stands for its canonical source too: SHA equals  *)
(* GitOrigin-RevId.  Commits are numbered in the order main takes them.    *)
(* A bundle is what one attempt of the canonical native workflow uploaded; *)
(* a release artifact what one attempt of the build job did.               *)
(***************************************************************************)
EXTENDS Integers, FiniteSets

CONSTANTS
  MaxCommits,   \* bound: commits of the mirror's main
  MaxRuns,      \* bound: pushes of the version's tag
  MaxAttempts,  \* bound: attempts of a release run
  MaxNative,    \* bound: attempts of a canonical native run
  File,         \* paths of the Maven repository, as integers in sorted order
  Faithful,     \* commits whose tree is the canonical export of their source
  Declares,     \* commits whose build.gradle.kts declares the tag's version
  Required,     \* options native-artifacts.py verify-provenance demands
  Faults,       \* what may go wrong: see FaultSet
  None

Commit == 1 .. MaxCommits
Run == 1 .. MaxRuns
FaultSet == {"network", "expiry", "rerun", "main", "retag"}

ASSUME ReleaseBounds ==
  /\ MaxCommits \in Nat \ {0} /\ MaxRuns \in Nat \ {0}
  /\ MaxAttempts \in Nat \ {0} /\ MaxNative \in Nat \ {0}
ASSUME ReleaseInputs ==
  File \subseteq Nat /\ IsFiniteSet(File) /\ Faithful \subseteq Commit
    /\ Declares \subseteq Commit /\ Faults \subseteq FaultSet
ASSUME ReleaseNone == None \notin Nat

(* What release.yml passes to verify-provenance. *)
Given == {"manifest", "signature", "public-key", "directory", "provenance-bundle",
          "source-sha", "run-id", "run-attempt"}

VARIABLES
  main, tag,              \* the mirror: main's head, the commit the tag names
  ci, native, bundles,    \* canonical runs by source, native bundles on GitHub
  sha, created, attempt,  \* each release run: GITHUB_SHA, event.created, GITHUB_RUN_ATTEMPT
  pc, failed,             \* the step it is at, the job that failed
  chosen, input, built,   \* outputs: native run attempt; attempts naming the artifacts
  held, pending,          \* on the runner: the artifact in hand, files left to upload
  inputs, releases,       \* workflow artifacts of the release runs
  staged, deployed,       \* Maven: the staging repository, deployments finalized
  github,                 \* GitHub Releases created
  green, pushed           \* history: sources whose CI passed; main at each tag push

mirror == <<main, tag, pushed>>
canonical == <<ci, native, bundles, green>>
event == <<sha, created>>
outputs == <<chosen, input, built>>
runner == <<held, pending>>
store == <<inputs, releases>>
maven == <<staged, deployed>>
vars == <<mirror, canonical, event, attempt, pc, failed, outputs, runner, store, maven, github>>

Init ==
  /\ main = 1 /\ tag = None /\ pushed = [r \in Run |-> None]
  /\ ci = [s \in Commit |-> "running"]
  /\ native = [s \in Commit |-> [attempt |-> 1, status |-> "running"]]
  /\ bundles = {} /\ green = {}
  /\ sha = [r \in Run |-> None] /\ created = [r \in Run |-> FALSE]
  /\ attempt = [r \in Run |-> 1]
  /\ pc = [r \in Run |-> "none"] /\ failed = [r \in Run |-> "none"]
  /\ chosen = [r \in Run |-> None]
  /\ input = [r \in Run |-> None] /\ built = [r \in Run |-> None]
  /\ held = [r \in Run |-> None] /\ pending = [r \in Run |-> {}]
  /\ inputs = {} /\ releases = {}
  /\ staged = [f \in File |-> None] /\ deployed = {} /\ github = {}

-----------------------------------------------------------------------------
(* The mirror.  A tag push starts a run; a moved tag's event is not        *)
(* "created".                                                              *)

MainMoves ==
  /\ "main" \in Faults /\ main < MaxCommits
  /\ main' = main + 1
  /\ UNCHANGED <<tag, pushed, canonical, event, attempt, pc, failed, outputs, runner, store,
                 maven, github>>

TagPush(r, c, new) ==
  /\ sha[r] = None /\ \A q \in Run : q < r => sha[q] # None
  /\ tag' = c
  /\ sha' = [sha EXCEPT ![r] = c]
  /\ created' = [created EXCEPT ![r] = new]
  /\ pushed' = [pushed EXCEPT ![r] = main]
  /\ pc' = [pc EXCEPT ![r] = "tag"]
  /\ UNCHANGED <<main, canonical, attempt, failed, outputs, runner, store, maven, github>>

TagCreate(r, c) == tag = None /\ TagPush(r, c, TRUE)
TagMove(r, c) == "retag" \in Faults /\ tag \notin {None, c} /\ TagPush(r, c, FALSE)

TagDelete ==
  /\ "retag" \in Faults /\ tag # None
  /\ tag' = None
  /\ UNCHANGED <<main, pushed, canonical, event, attempt, pc, failed, outputs, runner, store,
                 maven, github>>

(* The canonical repository's CI and native runs of one source. *)
CIFinish(s, result) ==
  /\ ci[s] = "running"
  /\ ci' = [ci EXCEPT ![s] = result]
  /\ green' = IF result = "success" THEN green \cup {s} ELSE green
  /\ UNCHANGED <<mirror, native, bundles, event, attempt, pc, failed, outputs, runner, store,
                 maven, github>>

CIRerun(s) ==
  /\ "rerun" \in Faults /\ ci[s] # "running"
  /\ ci' = [ci EXCEPT ![s] = "running"]
  /\ UNCHANGED <<mirror, native, bundles, green, event, attempt, pc, failed, outputs, runner,
                 store, maven, github>>

Bundle(s, a, sound) == [source |-> s, attempt |-> a, sound |-> sound]

(* A native run ends and, unless it failed, has uploaded a bundle; sound,  *)
(* if signature, inventory, digests and attestation agree.                 *)
NativeFinish(s, result, sound) ==
  /\ native[s].status = "running"
  /\ native' = [native EXCEPT ![s].status = result]
  /\ bundles' = IF result = "success"
                THEN bundles \cup {Bundle(s, native[s].attempt, sound)} ELSE bundles
  /\ UNCHANGED <<mirror, ci, green, event, attempt, pc, failed, outputs, runner, store, maven,
                 github>>

NativeRerun(s) ==
  /\ "rerun" \in Faults /\ native[s].status # "running" /\ native[s].attempt < MaxNative
  /\ native' = [native EXCEPT ![s] = [attempt |-> @.attempt + 1, status |-> "running"]]
  /\ UNCHANGED <<mirror, ci, bundles, green, event, attempt, pc, failed, outputs, runner, store,
                 maven, github>>

(* Artifacts lapse, a run's older ones first; the native input after a day. *)
OldestIn(artifacts, x) == \A y \in artifacts : y.run = x.run => x.attempt <= y.attempt
Expire ==
  /\ "expiry" \in Faults
  /\ \/ \E b \in bundles : bundles' = bundles \ {b} /\ UNCHANGED store
     \/ /\ \E i \in inputs : OldestIn(inputs, i) /\ inputs' = inputs \ {i}
        /\ UNCHANGED <<bundles, releases>>
     \/ /\ \E a \in releases : OldestIn(releases, a) /\ releases' = releases \ {a}
        /\ UNCHANGED <<bundles, inputs>>
  /\ UNCHANGED <<mirror, ci, native, green, event, attempt, pc, failed, outputs, runner, maven,
                 github>>

-----------------------------------------------------------------------------
(* What each step demands. *)

(* validate_tag_state and compare_trees. *)
OnMain(r) == created[r] /\ sha[r] <= main /\ sha[r] \in Faithful  \* mutant
AnyHead(r) == created[r] /\ sha[r] = main                           \* mutant
TagState(r) == created[r] /\ sha[r] = main /\ sha[r] \in Faithful

(* select_workflow_run, and again verify_required_checks. *)
CISuccess(r) == ci[sha[r]] = "success"

(* select_native_run. *)
NativeSuccess(r) == native[sha[r]].status = "success"

(* download_github: the run is still at the attempt chosen. *)
NativeAsChosen(r) == NativeSuccess(r) /\ native[sha[r]].attempt = chosen[r]
Offered(r) == {b \in bundles : b.source = sha[r] /\ b.attempt = chosen[r]}

(* verify_provenance, whose command line argparse rejects when an option   *)
(* it requires is missing.                                                 *)
AnyBundle(r) ==  \* mutant
  /\ Required \subseteq Given
  /\ held[r].source = sha[r] /\ held[r].attempt = chosen[r]
BundleVerifies(r) ==
  /\ Required \subseteq Given
  /\ held[r].source = sha[r] /\ held[r].attempt = chosen[r] /\ held[r].sound

(* download-artifact by the name prepare, or build, gave it. *)
InputsOfRun(r) == {i \in inputs : i.run = r /\ i.attempt = r}  \* mutant: the run's number
InputsOf(r) == {i \in inputs : i.run = r /\ i.attempt = input[r]}
ReleasesOf(r) == {a \in releases : a.run = r /\ a.attempt = built[r]}

(* release-artifact.py verify: the manifest names this run's build.        *)
ManifestAgreesNow(r, a) == a.run = r /\ a.sha = sha[r] /\ a.attempt = attempt[r]  \* mutant
ManifestAgrees(r, a) == a.run = r /\ a.sha = sha[r] /\ a.attempt = built[r]

(* What the publish job uploads: every file, whatever is staged. *)
Unstaged(r) == {f \in File : staged[f] = None}  \* mutant
ToUpload(r) == File

-----------------------------------------------------------------------------
(* The steps of a run. *)

Goto(r, p) == pc' = [pc EXCEPT ![r] = p]

Step == {"tag", "ci", "checks", "native", "download", "verify", "input", "build", "publish",
         "upload", "github"}
Job == {"prepare", "build", "publish"}
StepOf(p) == p  \* mutant
JobOf(p) ==
  IF p \in {"tag", "ci", "checks", "native", "download", "verify", "input"} THEN "prepare"
  ELSE IF p = "build" THEN "build" ELSE "publish"
Active(r) == pc[r] \notin {"none", "failed", "done"}

(* A runner's files go with its job. *)
Clean(r) == held' = [held EXCEPT ![r] = None] /\ pending' = [pending EXCEPT ![r] = {}]

(* A job fails: the jobs after it do not run. *)
Abort(r) ==
  /\ failed' = [failed EXCEPT ![r] = JobOf(pc[r])]
  /\ Goto(r, "failed")
  /\ Clean(r)

(* prepare: provenance.  The tag as checked out may be the event's commit  *)
(* though the tag has moved since, so TagState does not read tag.          *)
VerifyTag(r) ==
  /\ pc[r] = "tag" /\ TagState(r)
  /\ Goto(r, "ci")
  /\ UNCHANGED <<mirror, canonical, event, attempt, failed, outputs, runner, store, maven, github>>

VerifyCI(r) ==
  /\ pc[r] \in {"ci", "checks"} /\ CISuccess(r)
  /\ Goto(r, IF pc[r] = "ci" THEN "checks" ELSE "native")
  /\ UNCHANGED <<mirror, canonical, event, attempt, failed, outputs, runner, store, maven, github>>

SelectNative(r) ==
  /\ pc[r] = "native" /\ NativeSuccess(r)
  /\ chosen' = [chosen EXCEPT ![r] = native[sha[r]].attempt]
  /\ Goto(r, "download")
  /\ UNCHANGED <<mirror, canonical, event, attempt, failed, input, built, runner, store, maven,
                 github>>

(* prepare: native-artifacts.py, then the bundle is kept for the build. *)
Download(r) ==
  /\ pc[r] = "download" /\ NativeAsChosen(r)
  /\ \E b \in Offered(r) : held' = [held EXCEPT ![r] = b]
  /\ Goto(r, "verify")
  /\ UNCHANGED <<mirror, canonical, event, attempt, failed, outputs, pending, store, maven, github>>

VerifyBundle(r) ==
  /\ pc[r] = "verify" /\ BundleVerifies(r)
  /\ Goto(r, "input")
  /\ UNCHANGED <<mirror, canonical, event, attempt, failed, outputs, runner, store, maven, github>>

UploadInput(r) ==
  /\ pc[r] = "input"
  /\ inputs' = inputs \cup {[run |-> r, attempt |-> attempt[r], bundle |-> held[r]]}
  /\ input' = [input EXCEPT ![r] = attempt[r]]
  /\ Goto(r, "build") /\ Clean(r)
  /\ UNCHANGED <<mirror, canonical, event, attempt, failed, chosen, built, releases, maven, github>>

(* build: an artifact whose manifest binds it to this attempt. *)
Build(r) ==
  /\ pc[r] = "build" /\ sha[r] \in Declares
  /\ \E i \in InputsOf(r) :
       releases' = releases \cup
         {[run |-> r, attempt |-> attempt[r], sha |-> sha[r], bundle |-> i.bundle]}
  /\ built' = [built EXCEPT ![r] = attempt[r]]
  /\ Goto(r, "publish")
  /\ UNCHANGED <<mirror, canonical, event, attempt, failed, chosen, input, runner, inputs, maven,
                 github>>

(* publish. *)
VerifyRelease(r) ==
  /\ pc[r] = "publish"
  /\ \E a \in ReleasesOf(r) : ManifestAgrees(r, a) /\ held' = [held EXCEPT ![r] = a]
  /\ pending' = [pending EXCEPT ![r] = ToUpload(r)]
  /\ Goto(r, "upload")
  /\ UNCHANGED <<mirror, canonical, event, attempt, failed, outputs, store, maven, github>>

(* One PUT; its effect may outlive a lost response. *)
Put(r, f) ==
  /\ pc[r] = "upload" /\ f \in pending[r] /\ \A g \in pending[r] : f <= g
  /\ staged' = [staged EXCEPT ![f] = held[r]]
  /\ \/ pending' = [pending EXCEPT ![r] = @ \ {f}] /\ UNCHANGED <<pc, failed, held>>
     \/ "network" \in Faults /\ Abort(r)
  /\ UNCHANGED <<mirror, canonical, event, attempt, outputs, store, deployed, github>>

(* The finalizing POST turns what is staged into a deployment. *)
FinalizeEarly(r) ==  \* mutant
  /\ pc[r] = "upload"
  /\ deployed' = deployed \cup {staged}
  /\ staged' = [f \in File |-> None]
  /\ Goto(r, "github")
  /\ UNCHANGED <<mirror, canonical, event, attempt, failed, outputs, runner, store, github>>
Finalize(r) ==
  /\ pc[r] = "upload" /\ pending[r] = {}
  /\ deployed' = deployed \cup {staged}
  /\ staged' = [f \in File |-> None]
  /\ \/ Goto(r, "github") /\ UNCHANGED <<failed, runner>>
     \/ "network" \in Faults /\ Abort(r)
  /\ UNCHANGED <<mirror, canonical, event, attempt, outputs, store, github>>

GitHubRelease(r) ==
  /\ pc[r] = "github"
  /\ github' = github \cup {held[r]}
  /\ Goto(r, "done") /\ Clean(r)
  /\ UNCHANGED <<mirror, canonical, event, attempt, failed, outputs, store, maven>>

(* A check refuses, or a tag moved before the checkout is seen to differ.  *)
Refused(r) ==
  \/ pc[r] = "tag" /\ (~TagState(r) \/ tag # sha[r])
  \/ pc[r] \in {"ci", "checks"} /\ ~CISuccess(r)
  \/ pc[r] = "native" /\ ~NativeSuccess(r)
  \/ pc[r] = "download" /\ ~(NativeAsChosen(r) /\ Offered(r) # {})
  \/ pc[r] = "verify" /\ ~BundleVerifies(r)
  \/ pc[r] = "build" /\ ~(sha[r] \in Declares /\ InputsOf(r) # {})
  \/ pc[r] = "publish" /\ ~ \E a \in ReleasesOf(r) : ManifestAgrees(r, a)

Fail(r) ==
  /\ Active(r) /\ (Refused(r) \/ "network" \in Faults)
  /\ Abort(r)
  /\ UNCHANGED <<mirror, canonical, event, attempt, outputs, store, maven, github>>

(* "Re-run failed jobs" keeps the outputs of the jobs that passed. *)
RerunFailed(r) ==
  /\ "rerun" \in Faults /\ pc[r] = "failed" /\ attempt[r] < MaxAttempts
  /\ attempt' = [attempt EXCEPT ![r] = @ + 1]
  /\ Goto(r, IF failed[r] = "prepare" THEN "tag" ELSE failed[r])
  /\ failed' = [failed EXCEPT ![r] = "none"]
  /\ UNCHANGED <<mirror, canonical, event, outputs, runner, store, maven, github>>

RerunAll(r) ==
  /\ "rerun" \in Faults /\ pc[r] \in {"failed", "done"} /\ attempt[r] < MaxAttempts
  /\ attempt' = [attempt EXCEPT ![r] = @ + 1]
  /\ Goto(r, "tag")
  /\ failed' = [failed EXCEPT ![r] = "none"]
  /\ chosen' = [chosen EXCEPT ![r] = None]
  /\ input' = [input EXCEPT ![r] = None]
  /\ built' = [built EXCEPT ![r] = None]
  /\ UNCHANGED <<mirror, canonical, event, runner, store, maven, github>>

-----------------------------------------------------------------------------
Result == {"success", "failure"}

Maintainers ==
  \/ MainMoves \/ TagDelete
  \/ \E r \in Run, c \in 1 .. main : TagCreate(r, c) \/ TagMove(r, c)
  \/ \E r \in Run : RerunFailed(r) \/ RerunAll(r)

Canonical == \E s \in Commit :
  \/ \E result \in Result : CIFinish(s, result)
  \/ \E result \in Result, sound \in BOOLEAN : NativeFinish(s, result, sound)
  \/ CIRerun(s) \/ NativeRerun(s)

Work(r) ==
  \/ VerifyTag(r) \/ VerifyCI(r) \/ SelectNative(r) \/ Download(r) \/ VerifyBundle(r)
  \/ UploadInput(r) \/ Build(r) \/ VerifyRelease(r) \/ Finalize(r) \/ GitHubRelease(r) \/ Fail(r)
  \/ \E f \in File : Put(r, f)

Next == Maintainers \/ Canonical \/ Expire \/ \E r \in Run : Work(r)

Spec == Init /\ [][Next]_vars

(* GitHub runs the jobs it has queued. *)
FairSpec == Spec /\ \A r \in Run : WF_vars(Work(r))

-----------------------------------------------------------------------------
(* Properties. *)

Input == [run : Run, attempt : 1 .. MaxAttempts,
          bundle : [source : Commit, attempt : 1 .. MaxNative, sound : BOOLEAN]]
Artifact == [run : Run, attempt : 1 .. MaxAttempts, sha : Commit,
             bundle : [source : Commit, attempt : 1 .. MaxNative, sound : BOOLEAN]]

(* Every variable keeps to its type; a failed run failed in a job. *)
TypeOK ==
  /\ main \in Commit /\ tag \in Commit \cup {None}
  /\ pushed \in [Run -> Commit \cup {None}] /\ sha \in [Run -> Commit \cup {None}]
  /\ created \in [Run -> BOOLEAN] /\ attempt \in [Run -> 1 .. MaxAttempts]
  /\ ci \in [Commit -> {"running"} \cup Result] /\ green \subseteq Commit
  /\ native \in [Commit -> [attempt : 1 .. MaxNative, status : {"running"} \cup Result]]
  /\ bundles \subseteq [source : Commit, attempt : 1 .. MaxNative, sound : BOOLEAN]
  /\ pc \in [Run -> Step \cup {"none", "failed", "done"}] /\ failed \in [Run -> Job \cup {"none"}]
  /\ chosen \in [Run -> 1 .. MaxNative \cup {None}]
  /\ input \in [Run -> 1 .. MaxAttempts \cup {None}] /\ built \in [Run -> 1 .. MaxAttempts \cup {None}]
  /\ inputs \subseteq Input /\ releases \subseteq Artifact /\ github \subseteq Artifact
  /\ held \in [Run -> Artifact \cup {None}
                       \cup [source : Commit, attempt : 1 .. MaxNative, sound : BOOLEAN]]
  /\ pending \in [Run -> SUBSET File] /\ staged \in [File -> Artifact \cup {None}]
  /\ deployed \subseteq [File -> Artifact \cup {None}]

Published == ({d[f] : d \in deployed, f \in File} \cup github) \ {None}

(* Whatever reaches Maven Central or a GitHub Release was built from a     *)
(* newly created tag's commit that is the canonical export of a source     *)
(* whose CI passed and declares the version, over a native bundle of that  *)
(* very source that verified: across re-runs of any of the runs involved,  *)
(* lapsed artifacts and moved tags no other bundle or commit slips in      *)
(* (release-provenance.py verify, native-artifacts.py download_github and  *)
(* verify_provenance, release.yml).                                        *)
AuthorizedOnly == \A a \in Published :
  /\ created[a.run] /\ a.sha = sha[a.run] /\ a.sha \in Faithful \cap Declares \cap green
  /\ a.bundle.source = a.sha /\ a.bundle.sound

(* What is published was main's head when its tag was pushed: neither a    *)
(* late re-run nor a main that moved on releases an older commit           *)
(* (validate_tag_state: "exactly the current mirror main commit").         *)
CurrentAtTag == \A a \in Published : a.sha = pushed[a.run]

(* A deployment is one build's files, all of them: retries after a lost    *)
(* upload or a lost finalizing answer never mix attempts or leave a file   *)
(* out ("publish those exact files", release.yml's upload loop).           *)
ExactFiles == \A d \in deployed : \E a \in Artifact : \A f \in File : d[f] = a

(* A GitHub Release shows a build all of whose files were deployed         *)
(* (release.yml creates it after the upload).                              *)
ReleasedIsDeployed == \A a \in github : [f \in File |-> a] \in deployed

(* A re-run finds what the jobs it skips left for it: no attempt number    *)
(* that has moved on makes build or publish refuse artifacts that are      *)
(* stored (release.yml binds names and manifest to the attempt that made   *)
(* them).                                                                  *)
Resumable == \A r \in Run :
  /\ pc[r] = "build" /\ (\E i \in inputs : i.run = r) => InputsOf(r) # {}
  /\ pc[r] = "publish" /\ (\E a \in releases : a.run = r)
       => \E a \in ReleasesOf(r) : ManifestAgrees(r, a)

(* A release is built over the native attempt that the run's own prepare   *)
(* job selected: when the native run is re-run, or the release wholly or   *)
(* in part, no bundle of another attempt takes its place, an earlier input *)
(* of the same run included (release.yml:80-108 hand on the attempts).     *)
SelectedBundle == \A r \in Run : \A a \in ReleasesOf(r) : a.bundle.attempt = chosen[r]

(* Nothing the tag's release depends on is missing: its commit is main's   *)
(* head, CI and native run succeeded, the bundle is there and sound.       *)
Ready(r) ==
  /\ TagState(r) /\ tag = sha[r] /\ sha[r] \in Declares
  /\ ci[sha[r]] = "success" /\ native[sha[r]].status = "success"
  /\ Bundle(sha[r], native[sha[r]].attempt, TRUE) \in bundles

(* A release for which all is ready is published, unless something it      *)
(* depends on changes under it; the version its native bundle carries is   *)
(* no obstacle (release.yml:60 "the bundle's own tag is deliberately NOT   *)
(* cross-checked against this release tag").                               *)
Lands == \A r \in Run : (pc[r] = "tag" /\ Ready(r)) ~> (pc[r] = "done" \/ ~Ready(r))
=============================================================================
