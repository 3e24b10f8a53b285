------------------------------ MODULE NativeRun ------------------------------
(***************************************************************************)
(* How the native bundle of one source comes about: native-artifacts.py's  *)
(* authorize-ci, download-partials and create, as jobs of the canonical    *)
(* native workflow's run.  One job authorises the source by its CI run;    *)
(* one job per group of targets (PARTIAL_ARTIFACT_TARGETS) builds and      *)
(* uploads a partial artifact named by the attempt; the last one picks a   *)
(* partial of each group and assembles the bundle.  CI goes on meanwhile,  *)
(* and both runs are re-run, wholly or where they failed.                  *)
(***************************************************************************)
EXTENDS Integers, FiniteSets, FiniteSetsExt

CONSTANTS
  Group,        \* keys of PARTIAL_ARTIFACT_TARGETS
  CIJob,        \* CI_AUTHORIZATION_JOBS
  MaxCI,        \* bound: attempts of the CI run
  MaxAttempts   \* bound: attempts of the native run

ASSUME NativeRunBounds == MaxCI \in Nat \ {0} /\ MaxAttempts \in Nat \ {0}
ASSUME NativeRunSets == IsFiniteSet(Group) /\ IsFiniteSet(CIJob)

VARIABLES
  ci, jobs,     \* the CI run; the attempt and result of each job's latest execution
  attempt,      \* GITHUB_RUN_ATTEMPT of the native run
  pc,           \* where the native run is
  seen,         \* authorize_ci: the CI run as the second query showed it
  group,        \* each group's job in this attempt
  partials,     \* partial artifacts GitHub lists
  selected,     \* what select_partial_artifacts picked: an attempt per group
  bundles,      \* bundles uploaded
  passed, ran   \* history: CI attempts that passed whole; attempt each group last ran in

world == <<ci, jobs, passed>>
vars == <<world, attempt, pc, seen, group, partials, selected, bundles, ran>>

Unselected == [g \in Group |-> 0]

Init ==
  /\ ci = [attempt |-> 1, status |-> "running"]
  /\ jobs = [j \in CIJob |-> [attempt |-> 1, result |-> "running"]]
  /\ attempt = 1 /\ pc = "authorize"
  /\ seen = [attempt |-> 0, status |-> "none"]
  /\ group = [g \in Group |-> "waiting"]
  /\ partials = {} /\ selected = Unselected /\ bundles = {}
  /\ passed = {} /\ ran = [g \in Group |-> 0]

-----------------------------------------------------------------------------
(* The CI run.  A re-run of its failed jobs may keep a job that succeeded. *)

CIJobEnd(j, result) ==
  /\ jobs[j].result = "running"
  /\ jobs' = [jobs EXCEPT ![j].result = result]
  /\ UNCHANGED <<ci, passed, attempt, pc, seen, group, partials, selected, bundles, ran>>

Whole(a) == \A j \in CIJob : jobs[j] = [attempt |-> a, result |-> "success"]

CIEnd(result) ==
  /\ ci.status = "running" /\ \A j \in CIJob : jobs[j].result # "running"
  /\ result = "success" => \A j \in CIJob : jobs[j].result = "success"
  /\ ci' = [ci EXCEPT !.status = result]
  /\ passed' = IF result = "success" /\ Whole(ci.attempt) THEN passed \cup {ci.attempt} ELSE passed
  /\ UNCHANGED <<jobs, attempt, pc, seen, group, partials, selected, bundles, ran>>

CIRerun(kept) ==
  /\ ci.status # "running" /\ ci.attempt < MaxCI
  /\ \A j \in kept : jobs[j].result = "success"
  /\ ci' = [attempt |-> ci.attempt + 1, status |-> "running"]
  /\ jobs' = [j \in CIJob |-> IF j \in kept THEN jobs[j]
                              ELSE [attempt |-> ci.attempt + 1, result |-> "running"]]
  /\ UNCHANGED <<passed, attempt, pc, seen, group, partials, selected, bundles, ran>>

-----------------------------------------------------------------------------
(* authorize_ci: watch the run, look it up again, then list its jobs. *)

Goto(p) == pc' = p

Watch ==
  /\ pc = "authorize" /\ ci.status # "running"
  /\ Goto(IF ci.status = "success" THEN "lookup" ELSE "failed")
  /\ UNCHANGED <<world, attempt, seen, group, partials, selected, bundles, ran>>

Lookup ==
  /\ pc = "lookup"
  /\ seen' = ci
  /\ Goto("jobs")
  /\ UNCHANGED <<world, attempt, group, partials, selected, bundles, ran>>

(* validate_ci_authorization over the two answers. *)
AnyAttempt ==  \* mutant
  seen.status = "success" /\ \A j \in CIJob : jobs[j].result = "success"
Authorizes ==
  /\ seen.status = "success"
  /\ \A j \in CIJob : jobs[j].result = "success" /\ jobs[j].attempt = seen.attempt

Authorize ==
  /\ pc = "jobs"
  /\ Goto(IF Authorizes THEN "build" ELSE "failed")
  /\ UNCHANGED <<world, attempt, seen, group, partials, selected, bundles, ran>>

-----------------------------------------------------------------------------
(* The groups' jobs: each may fail before or after its upload. *)

NextPartial(g) == [group |-> g, attempt |-> attempt + 1, expired |-> FALSE]  \* mutant
PartialOf(g) == [group |-> g, attempt |-> attempt, expired |-> FALSE]

BuildGroup(g, uploads, result) ==
  /\ pc = "build" /\ group[g] = "waiting"
  /\ result = "success" => uploads
  /\ group' = [group EXCEPT ![g] = result]
  /\ partials' = IF uploads THEN partials \cup {PartialOf(g)} ELSE partials
  /\ ran' = [ran EXCEPT ![g] = attempt]
  /\ UNCHANGED <<world, attempt, pc, seen, selected, bundles>>

GroupsDone ==
  /\ pc = "build" /\ \A g \in Group : group[g] # "waiting"
  /\ Goto(IF \A g \in Group : group[g] = "success" THEN "select" ELSE "failed")
  /\ UNCHANGED <<world, attempt, seen, group, partials, selected, bundles, ran>>

Expire(p) ==
  /\ ~p.expired
  /\ partials' = (partials \ {p}) \cup {[p EXCEPT !.expired = TRUE]}
  /\ UNCHANGED <<world, attempt, pc, seen, group, selected, bundles, ran>>

(* select_partial_artifacts: of each group the newest, which must be there. *)
Matching(g) == {p \in partials : p.group = g}
OldestAttempt(g) == Min({p.attempt : p \in Matching(g)})  \* mutant
NewestAttempt(g) == Max({p.attempt : p \in Matching(g)})
OfThisAttempt(g) ==  \* mutant
  \E p \in Matching(g) : p.attempt = attempt /\ ~p.expired
Selectable(g) ==
  /\ Matching(g) # {} /\ \A p \in Matching(g) : p.attempt <= attempt
  /\ \E p \in Matching(g) : p.attempt = NewestAttempt(g) /\ ~p.expired

Select ==
  /\ pc = "select" /\ \A g \in Group : Selectable(g)
  /\ selected' = [g \in Group |-> NewestAttempt(g)]
  /\ Goto("download")
  /\ UNCHANGED <<world, attempt, seen, group, partials, bundles, ran>>

(* download_partials' downloads, then create_manifest; the artifacts may   *)
(* have lapsed since they were listed.                                     *)
Available == \A g \in Group : \E p \in Matching(g) : p.attempt = selected[g] /\ ~p.expired

Assemble ==
  /\ pc = "download" /\ Available
  /\ bundles' = bundles \cup {[attempt |-> attempt, parts |-> selected, ci |-> seen.attempt]}
  /\ Goto("done")
  /\ UNCHANGED <<world, attempt, seen, group, partials, selected, ran>>

Refuse ==
  /\ \/ pc = "select" /\ \E g \in Group : ~Selectable(g)
     \/ pc = "download" /\ ~Available
  /\ Goto("failed")
  /\ UNCHANGED <<world, attempt, seen, group, partials, selected, bundles, ran>>

-----------------------------------------------------------------------------
(* Re-running the native run.  Only what failed: the authorisation stands  *)
(* if it passed, groups that succeeded are not built again.                *)
RerunFailed ==
  /\ pc = "failed" /\ attempt < MaxAttempts
  /\ attempt' = attempt + 1
  /\ LET rerun == [g \in Group |-> IF group[g] = "failure" THEN "waiting" ELSE group[g]] IN
       /\ group' = rerun
       /\ Goto(IF \A g \in Group : group[g] = "waiting" THEN "authorize" ELSE "build")
  /\ selected' = Unselected
  /\ UNCHANGED <<world, seen, partials, bundles, ran>>

RerunAll ==
  /\ pc \in {"failed", "done"} /\ attempt < MaxAttempts
  /\ attempt' = attempt + 1
  /\ group' = [g \in Group |-> "waiting"]
  /\ Goto("authorize")
  /\ seen' = [attempt |-> 0, status |-> "none"]
  /\ selected' = Unselected
  /\ UNCHANGED <<world, partials, bundles, ran>>

Result == {"success", "failure"}

CI ==
  \/ \E result \in Result : CIEnd(result) \/ \E j \in CIJob : CIJobEnd(j, result)
  \/ \E kept \in SUBSET CIJob : CIRerun(kept)

Native ==
  \/ Watch \/ Lookup \/ Authorize \/ GroupsDone \/ Select \/ Assemble \/ Refuse
  \/ \E g \in Group, uploads \in BOOLEAN, result \in Result : BuildGroup(g, uploads, result)

Next == CI \/ Native \/ RerunFailed \/ RerunAll \/ \E p \in partials : Expire(p)

Spec == Init /\ [][Next]_vars

-----------------------------------------------------------------------------
(* Properties. *)

Attempt == 1 .. MaxAttempts

(* Every variable has its type; partials carry attempts that were made. *)
TypeOK ==
  /\ ci \in [attempt : 1 .. MaxCI, status : {"running"} \cup Result]
  /\ jobs \in [CIJob -> [attempt : 1 .. MaxCI, result : {"running"} \cup Result]]
  /\ attempt \in Attempt
  /\ pc \in {"authorize", "lookup", "jobs", "build", "select", "download", "done", "failed"}
  /\ seen \in [attempt : 0 .. MaxCI, status : {"none", "running"} \cup Result]
  /\ group \in [Group -> {"waiting"} \cup Result]
  /\ partials \subseteq [group : Group, attempt : Attempt, expired : BOOLEAN]
  /\ selected \in [Group -> 0 .. MaxAttempts]
  /\ bundles \subseteq [attempt : Attempt, parts : [Group -> Attempt], ci : 1 .. MaxCI]
  /\ passed \subseteq 1 .. MaxCI /\ ran \in [Group -> 0 .. MaxAttempts]

(* No bundle without a CI attempt that passed whole: both authorising jobs *)
(* ran and succeeded in the one attempt that succeeded, whatever was       *)
(* re-run between the watch and the two lookups (validate_ci_authorization *)
(* and its "stale run attempt").                                           *)
Authorized == \A b \in bundles : b.ci \in passed

(* A bundle is made of what each group's last job built: neither an older  *)
(* attempt's partial nor one whose job went on to fail, though groups      *)
(* carry over between attempts (select_partial_artifacts).                 *)
FreshParts ==
  pc = "done" => \E b \in bundles :
    b.attempt = attempt /\ \A g \in Group : b.parts[g] = ran[g] /\ group[g] = "success"

(* A re-run of the failed jobs does not have to build the others again: as *)
(* long as nothing has lapsed, the selection goes through.                 *)
Assembles ==
  pc = "select" /\ (\A p \in partials : ~p.expired) => \A g \in Group : Selectable(g)
=============================================================================
