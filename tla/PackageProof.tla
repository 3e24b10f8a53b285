----------------------------- MODULE PackageProof -----------------------------
(***************************************************************************)
(* How the Android package is built from an export and a signed native     *)
(* bundle and proved by a clean consumer before it is released: the        *)
(* validate commands of .github/package-export-smoke.py, build-aar.sh,     *)
(* extract of native/native-artifacts.py and the build job of release.yml. *)
(*                                                                         *)
(* A host runs one validation after another.  "ci" is the release's build  *)
(* job: prepare has compared the tagged commit with the canonical export,  *)
(* and every attempt gets a fresh runner.  "monorepo" is validate: every   *)
(* attempt writes the export anew.  "local" is validate-android-export run *)
(* again in one checkout, with what the attempt before left in build/.     *)
(***************************************************************************)
EXTENDS Export

CONSTANTS
  Order,      \* build-aar.sh's ABIs, in order
  Machine,    \* the ELF machine of each ABI
  Bundles,    \* native bundles a validation may be given
  Source,     \* the monorepo's tree
  Mirrors,    \* commits of the mirror, as trees
  Scribbles,  \* paths a consumer with privileges may write to
  Scrap,      \* what it writes there
  Paths,      \* bound: paths that change mode in each tree
  MaxFaults,  \* bound: tools that fail and consumers that write
  None

Component == "hop-sdk-android"
Abi == {Order[i] : i \in DOMAIN Order}
Host == {"ci", "monorepo", "local"}
HeaderFile == <<"include", "hop.h">>
BuildScript == <<"build-aar.sh">>

ASSUME OrderAssumption == Order \in Seq(Abi) /\ Order # <<>>
ASSUME BoundsAssumption == Paths \in Nat \ {0} /\ MaxFaults \in Nat
(* A manifest lists an archive for every ABI, whatever is on disk; every   *)
(* commit of the mirror considered has a header, right or wrong.           *)
ASSUME BundlesAssumption ==
  \A b \in Bundles : \A a \in Abi :
    b.entry[a] # None /\ b.entry[a].holds \subseteq {"lib", "header"}
ASSUME MirrorsAssumption ==
  \A m \in Mirrors : HeaderFile \in DOMAIN m /\ "text" \in DOMAIN m[HeaderFile]

VARIABLES
  host, mirror, bundle,  \* what the validation is given
  pc, index,              \* the step, and the ABI build-aar.sh is at
  export,                \* the export's files
  staging, native,       \* build/native-staging and build/native-android
  repo,                  \* the Maven repository of this attempt
  locked,                \* how many paths of export, then repo, are read-only
  prints,                \* their fingerprints before the consumer runs
  proven,                \* history: the repository validate_android looked into
  released,              \* the release directory
  faults

given == <<host, mirror, bundle>>
build == <<staging, native, index>>
proof == <<locked, prints, proven>>
vars == <<given, pc, export, build, repo, proof, released, faults>>

Empty == [a \in Abi |-> [holds |-> {}, of |-> None]]
Unfilled == [a \in Abi |-> None]

Init ==
  /\ host \in Host /\ mirror \in Mirrors /\ bundle \in Bundles
  /\ pc = (IF host = "ci" THEN "prepare" ELSE "start")
  /\ index = 1 /\ staging = Empty /\ native = Unfilled
  /\ export = mirror /\ repo = None
  /\ locked = 0 /\ prints = None /\ proven = None
  /\ released = None
  /\ faults = 0

Header == export[HeaderFile].text
At == Order[index]

Goto(step) == pc' = step
Fault == faults < MaxFaults /\ faults' = faults + 1
Sound == UNCHANGED faults
Given(others) == UNCHANGED <<given, others>>

-----------------------------------------------------------------------------
(* Obtaining the export. *)

Prepare ==
  /\ pc = "prepare"
  /\ Goto(IF Accepts(Source, Component, mirror) THEN "start" ELSE "refused")
  /\ Sound /\ Given(<<export, build, repo, proof, released>>)

(* validate_package writes the export into a fresh directory; the commands *)
(* on an existing export check that it is one.                             *)
Start ==
  /\ pc = "start"
  /\ IF host = "monorepo"
     THEN /\ Canonical(Source, Component) # Refused
          /\ export' = Canonical(Source, Component)
          /\ Goto("clear")
     ELSE /\ Goto(IF BuildScript \in DOMAIN export THEN "clear" ELSE "refused")
          /\ UNCHANGED export
  /\ Sound /\ Given(<<build, repo, proof, released>>)

-----------------------------------------------------------------------------
(* build-aar.sh *)

ClearNativeOnly ==                                                  \* mutant
  /\ pc = "clear"
  /\ native' = Unfilled /\ index' = 1
  /\ Goto("extract")
  /\ Sound /\ Given(<<export, staging, repo, proof, released>>)
Clear ==
  /\ pc = "clear"
  /\ staging' = Empty /\ native' = Unfilled /\ index' = 1
  /\ Goto("extract")
  /\ Sound /\ Given(<<export, repo, proof, released>>)

(* verify_signature, load_manifest, select_artifact, verify_artifact *)
ArtifactListed(a) == bundle.disk[a] # None                          \* mutant
ArtifactVerifies(a) == bundle.disk[a] = bundle.entry[a]
Extract ==
  /\ pc = "extract"
  /\ Goto(IF bundle.signed /\ bundle.complete /\ ArtifactVerifies(At)
          THEN "unpack" ELSE "failed")
  /\ Sound /\ Given(<<export, build, repo, proof, released>>)

(* safe_extract, into a directory that is absent or empty; a full disk     *)
(* leaves some of the files.                                               *)
Unpack ==
  /\ pc = "unpack"
  /\ IF staging[At].holds # {} THEN Goto("failed") /\ Sound /\ UNCHANGED staging
     ELSE \E some \in SUBSET bundle.disk[At].holds :
       /\ staging' = [staging EXCEPT ![At] = [holds |-> some, of |-> bundle.disk[At]]]
       /\ \/ some = bundle.disk[At].holds /\ Goto("slice") /\ Sound
          \/ Goto("failed") /\ Fault
  /\ Given(<<export, native, index, repo, proof, released>>)

(* The slice is taken from what was unpacked, and the header compared with *)
(* the first one unpacked; after the last, the export's own is.            *)
PastLast == index > Len(Order)                                      \* mutant
LastAbi == index = Len(Order)
HeaderOf(a) == staging[a].of.header
Slice ==
  /\ pc = "slice"
  /\ IF {"lib", "header"} \subseteq staging[At].holds
     THEN /\ native' = [native EXCEPT ![At] =
                          [lib |-> staging[At].of.lib, machine |-> staging[At].of.machine]]
          /\ IF HeaderOf(At) # HeaderOf(Order[1]) THEN Goto("failed") /\ UNCHANGED index
             ELSE IF LastAbi THEN UNCHANGED index /\ Goto("headers")
             ELSE index' = index + 1 /\ Goto("extract")
     ELSE Goto("failed") /\ UNCHANGED <<native, index>>
  /\ Sound /\ Given(<<export, staging, repo, proof, released>>)

Headers ==
  /\ pc = "headers"
  /\ Goto(IF HeaderOf(Order[1]) = Header THEN "gradle" ELSE "failed")
  /\ Sound /\ Given(<<export, build, repo, proof, released>>)

(* gradle test hopAar publish..., and the sidecars *)
Gradle ==
  /\ pc = "gradle"
  /\ \/ /\ \A a \in Abi : native[a] # None
        /\ repo' = [jni |-> native, prefab |-> native, header |-> Header]
        /\ Goto("inspect") /\ Sound
     \/ repo' \in {None, [jni |-> native, prefab |-> native, header |-> Header]}
        /\ Goto("failed") /\ Fault
  /\ Given(<<export, build, proof, released>>)

-----------------------------------------------------------------------------
(* validate_android *)

RightMachine(slice, a) == slice.machine = Machine[a]

Inspect ==
  /\ pc = "inspect"
  /\ IF /\ repo.header = Header
        /\ \A a \in Abi : RightMachine(repo.jni[a], a) /\ repo.jni[a] = repo.prefab[a]
     THEN /\ proven' = repo /\ prints' = <<export, repo>> /\ Goto("lock")
     ELSE UNCHANGED <<proven, prints>> /\ Goto("failed")
  /\ Sound /\ Given(<<export, build, repo, locked, released>>)

(* make_tree_read_only on the export, then on the repository, path by path *)
Lock ==
  /\ pc = "lock"
  /\ \/ /\ locked' = locked + 1
        /\ Goto(IF locked' = 2 * Paths THEN "consume" ELSE "lock") /\ Sound
     \/ UNCHANGED locked /\ Goto("give up") /\ Fault
  /\ Given(<<export, build, repo, prints, proven, released>>)

(* The offline consumer builds or does not.  Read-only trees stop it from  *)
(* writing to them unless it has privileges.                               *)
Consume ==
  /\ pc = "consume"
  /\ \/ Goto("compare") /\ Sound /\ UNCHANGED <<export, repo>>
     \/ Goto("give up") /\ Fault /\ UNCHANGED <<export, repo>>
     \/ /\ \/ /\ \E p \in Scribbles : export' = [export EXCEPT ![p].text = Scrap]
              /\ UNCHANGED repo
           \/ /\ \E a \in Abi : repo' = [repo EXCEPT !.jni[a].lib = Scrap]
              /\ UNCHANGED export
        /\ pc' \in {"compare", "give up"} /\ Fault
  /\ Given(<<build, proof, released>>)

SameExport == prints[1] = export                                    \* mutant
SameTrees == prints = <<export, repo>>
Compare ==
  /\ pc = "compare"
  /\ Goto(IF SameTrees THEN "restore" ELSE "give up")
  /\ Sound /\ Given(<<export, build, repo, proof, released>>)

(* The finally block. *)
RestoreIfPassed ==                                                  \* mutant
  /\ pc \in {"restore", "give up"}
  /\ locked' = (IF pc = "restore" THEN 0 ELSE locked)
  /\ Goto(IF pc = "restore" THEN "resolve" ELSE "failed")
  /\ Sound /\ Given(<<export, build, repo, prints, proven, released>>)
Restore ==
  /\ pc \in {"restore", "give up"}
  /\ locked' = 0
  /\ Goto(IF pc = "restore" THEN "resolve" ELSE "failed")
  /\ Sound /\ Given(<<export, build, repo, prints, proven, released>>)

(* The AAR the consumer resolved and the slices in its APK are the         *)
(* repository's, or some other's after all.                                *)
Resolve ==
  /\ pc = "resolve"
  /\ \/ Goto(IF host = "ci" THEN "ship" ELSE "passed") /\ Sound
     \/ Goto("failed") /\ Fault
  /\ Given(<<export, build, repo, proof, released>>)

(* The build job copies repository and native manifest and binds them. *)
Ship ==
  /\ pc = "ship"
  /\ released' = [repo |-> repo, manifest |-> bundle.entry]
  /\ Goto("passed")
  /\ Sound /\ Given(<<export, build, repo, proof>>)

-----------------------------------------------------------------------------
(* Another attempt with a new work root: a re-run of the job on a fresh    *)
(* runner, which downloads the same bundle; a fresh export; or the same    *)
(* checkout, perhaps with another bundle.                                  *)
Retry ==
  /\ pc = "failed"
  /\ bundle' \in IF host = "local" THEN Bundles ELSE {bundle}
  /\ IF host = "local" THEN UNCHANGED <<export, build>>
     ELSE export' = mirror /\ staging' = Empty /\ native' = Unfilled /\ index' = 1
  /\ repo' = None /\ prints' = None /\ proven' = None /\ UNCHANGED locked
  /\ Goto("start")
  /\ Sound /\ UNCHANGED <<host, mirror, released>>

Step ==
  \/ Prepare \/ Start \/ Clear \/ Extract \/ Unpack \/ Slice \/ Headers \/ Gradle
  \/ Inspect \/ Lock \/ Consume \/ Compare \/ Restore \/ Resolve \/ Ship
Next == Step \/ Retry

Spec == Init /\ [][Next]_vars
FairSpec == Spec /\ WF_vars(Next)

-----------------------------------------------------------------------------
(* Properties *)

Archives == {b.disk[a] : b \in Bundles, a \in Abi} \ {None}
Slices == {None} \cup [lib : {r.lib : r \in Archives} \cup {Scrap},
                       machine : {r.machine : r \in Archives}]
Repository == [jni : [Abi -> Slices], prefab : [Abi -> Slices],
               header : {mirror[HeaderFile].text, Source[<<"sdk", "hop.h">>].text, Scrap}]

(* Types; what was fingerprinted stays known until the attempt is over. *)
TypeOK ==
  /\ host \in Host /\ mirror \in Mirrors /\ bundle \in Bundles
  /\ DOMAIN export \in {DOMAIN mirror, DOMAIN Canonical(Source, Component)}
  /\ staging \in [Abi -> [holds : SUBSET {"lib", "header"}, of : Archives \cup {None}]]
  /\ native \in [Abi -> Slices]
  /\ index \in DOMAIN Order
  /\ repo \in Repository \cup {None} /\ proven \in Repository \cup {None}
  /\ locked \in 0..2 * Paths
  /\ (prints = None) = (proven = None)
  /\ released # None => released.repo \in Repository
  /\ faults \in 0..MaxFaults

Passed == pc = "passed"

(* A package that passed carries for every ABI the very slice the signed   *)
(* manifest lists for it, of the right machine, and the header of the      *)
(* export it was built from, whatever earlier attempts left behind.        *)
ShipsBundle ==
  Passed =>
    /\ bundle.signed
    /\ \A a \in Abi :
         /\ repo.jni[a] = [lib |-> bundle.entry[a].lib, machine |-> Machine[a]]
         /\ repo.prefab[a] = repo.jni[a]
         /\ repo.header = bundle.entry[a].header

(* What is released is what was inspected, built from the canonical        *)
(* export: the consumer that proves it has changed neither.                *)
ReleasesProven ==
  released # None =>
    /\ released.repo = proven
    /\ export = Canonical(Source, Component)

(* However far the proof got, the trees it made read-only are writable     *)
(* again when it is over.                                                  *)
ModesRestored ==
  pc \notin {"lock", "consume", "compare", "restore", "give up"} => locked = 0

(* A validation that could pass does after enough attempts: nothing an     *)
(* attempt leaves behind stops the next, save a consumer's scribbling in    *)
(* the one checkout.                                                       *)
Valid(tree) ==
  /\ bundle.signed /\ bundle.complete
  /\ \A a \in Abi :
       /\ bundle.disk[a] = bundle.entry[a]
       /\ bundle.entry[a].machine = Machine[a]
       /\ bundle.entry[a].holds = {"lib", "header"}
       /\ bundle.entry[a].header = tree[HeaderFile].text
Intact ==
  /\ host = "ci" => mirror = Canonical(Source, Component)
  /\ BuildScript \in DOMAIN mirror
  /\ Valid(IF host = "monorepo" THEN Canonical(Source, Component) ELSE mirror)
RetriesLand ==
  Intact ~> (Passed \/ ~Intact \/ (host = "local" /\ export # mirror))
=============================================================================
