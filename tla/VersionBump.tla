----------------------------- MODULE VersionBump -----------------------------
(***************************************************************************)
(* A coordinated version bump of the mirrored crates, as                   *)
(* .github/package-export-smoke.py lets it through: static_check exports   *)
(* every crate and verify_standalone_lock holds its manifest against the   *)
(* lock it ships and the registry, forgiving a sibling that is not         *)
(* published yet.                                                          *)
(*                                                                         *)
(* A commit of the monorepo carries the workspace's version, the versions  *)
(* its shared preamble demands of each package, and each crate's lock.     *)
(* Versions are 0.0.x, where a caret requirement is met by itself alone.   *)
(***************************************************************************)
EXTENDS Integers

CONSTANTS
  Crate,       \* crates mirrored with a release workflow
  Foreign,     \* third-party packages
  FirstParty,  \* names read from CRATE_RENAMES, and hop-wasm
  Needs,       \* the packages each crate depends on
  MaxVersion,  \* bound: main's version
  None         \* no pull request

Package == Crate \cup Foreign
Sibling == {p \in Crate : \E k \in Crate : p \in Needs[k]}
Requirement == {r \in Crate \X Package : r[2] \in Needs[r[1]]}
Version == 1..MaxVersion + 1

ASSUME BoundAssumption == MaxVersion \in Nat \ {0}
ASSUME NeedsAssumption == Needs \in [Crate -> SUBSET Package]
\* "Crates absent from the rename map publish under their monorepo name."
ASSUME NamesAssumption ==
  \A k \in Crate : Needs[k] \cap FirstParty = Needs[k] \cap Crate

VARIABLES
  main, mainCI,  \* main's head and the last verdict of its CI
  pr, prCI,      \* the open pull request, if any, and its last verdict
  registry       \* crates.io: the versions published of each package

vars == <<main, mainCI, pr, prCI, registry>>

Verdict == {"none", "green", "red"}
Commit == [version : Version, wants : [Package -> Version],
           lock : [Crate -> [Package -> SUBSET Version]]]

(* A commit of version v that wants v of its siblings, everything pinned. *)
Consistent(v) ==
  LET wants == [p \in Package |-> IF p \in Crate THEN v ELSE 1] IN
    [version |-> v, wants |-> wants,
     lock |-> [k \in Crate |->
                 [p \in Package |-> IF p \in Needs[k] THEN {wants[p]} ELSE {}]]]

Init ==
  /\ main = Consistent(1) /\ mainCI = "none"
  /\ pr = None /\ prCI = "none"
  /\ registry = [p \in Package |-> {1}]

-----------------------------------------------------------------------------
(* verify_standalone_lock *)

(* The requirements of k that the registry cannot meet. *)
Unresolved(c, k) == {p \in Needs[k] : c.wants[p] \notin registry[p]}

(* cargo metadata --locked succeeds. *)
Strict(c, k) ==
  /\ Unresolved(c, k) = {}
  /\ \A p \in Needs[k] : c.wants[p] \in c.lock[k][p]

(* What cargo names when it fails to select versions: it gives up at the   *)
(* first or goes on.                                                       *)
Reports(c, k) == (SUBSET Unresolved(c, k)) \ {{}}

AnyFirstParty(c, p) == p \in FirstParty                             \* mutant
AtAnchor(c, p) == p \in FirstParty /\ c.wants[p] = c.version
AnyLock(c, k, p) == c.lock[k][p] # {}                               \* mutant
Pinned(c, k, p) == c.wants[p] \in c.lock[k][p]

(* The direct comparison that replaces cargo's when it reported rep. *)
ToleratesMissing(c, k, rep) ==                                      \* mutant
  \A p \in rep : AtAnchor(c, p) /\ Pinned(c, k, p)
Tolerates(c, k, rep) ==
  /\ \A p \in rep : AtAnchor(c, p) /\ Pinned(c, k, p)
  /\ \A p \in Needs[k] : c.lock[k][p] # {}

OnlyStrict(c, k) == Strict(c, k)                                    \* mutant
MayPass(c, k) == Strict(c, k) \/ \E rep \in Reports(c, k) : Tolerates(c, k, rep)
MayFail(c, k) ==
  /\ ~Strict(c, k)
  /\ Reports(c, k) # {} => \E rep \in Reports(c, k) : ~Tolerates(c, k, rep)

(* A verdict static_check can reach over all crates. *)
Possible(c, verdict) ==
  \/ verdict = "green" /\ \A k \in Crate : MayPass(c, k)
  \/ verdict = "red" /\ \E k \in Crate : MayFail(c, k)

-----------------------------------------------------------------------------
(* The monorepo, its CI and the registry. *)

(* A pull request raises the version or not, and may forget to regenerate  *)
(* locks, lose a pin, miss a line of the preamble or demand of some        *)
(* package a version that nobody published: each name has its own line.    *)
Propose ==
  /\ pr = None
  /\ \E v \in {main.version, main.version + 1} \cap 1..MaxVersion :
     \E demand \in [Sibling -> {main.version, v, v + 1}], range \in [Foreign -> {1, 2}],
        kept, lost \in SUBSET Requirement :
       LET wants == [p \in Package |-> IF p \in Sibling THEN demand[p]
                                      ELSE IF p \in Crate THEN v ELSE range[p]] IN
         pr' = [version |-> v, wants |-> wants,
                lock |-> [k \in Crate |-> [p \in Package |->
                  IF p \notin Needs[k] \/ <<k, p>> \in lost THEN {}
                  ELSE IF <<k, p>> \in kept THEN main.lock[k][p]
                  ELSE {wants[p]}]]]
  /\ pr' # main
  /\ prCI' = "none"
  /\ UNCHANGED <<main, mainCI, registry>>

CheckPR ==
  /\ pr # None
  /\ prCI' \in {w \in Verdict : Possible(pr, w)}
  /\ UNCHANGED <<main, mainCI, pr, registry>>

MergeKeepsVerdict ==                                                \* mutant
  /\ pr # None /\ prCI = "green"
  /\ main' = pr /\ mainCI' = "none" /\ pr' = None
  /\ UNCHANGED <<prCI, registry>>
Merge ==
  /\ pr # None /\ prCI = "green"
  /\ main' = pr /\ mainCI' = "none"
  /\ pr' = None /\ prCI' = "none"
  /\ UNCHANGED registry

(* Its author gives up a pull request that failed. *)
Withdraw ==
  /\ prCI = "red"
  /\ pr' = None /\ prCI' = "none"
  /\ UNCHANGED <<main, mainCI, registry>>

CheckMain ==
  /\ mainCI' \in {w \in Verdict : Possible(main, w)}
  /\ UNCHANGED <<main, pr, prCI, registry>>

(* A crate's tag: its provenance needs main's CI green, and cargo publish  *)
(* resolves against the registry.                                          *)
Publish(k) ==
  /\ mainCI = "green"
  /\ main.version \notin registry[k]
  /\ Strict(main, k)
  /\ registry' = [registry EXCEPT ![k] = @ \cup {main.version}]
  /\ UNCHANGED <<main, mainCI, pr, prCI>>

Next ==
  \/ Propose \/ CheckPR \/ Merge \/ Withdraw \/ CheckMain
  \/ \E k \in Crate : Publish(k)

(* CI runs what is pushed, a green pull request is merged, and what can be *)
(* published is.                                                           *)
Fairness ==
  /\ WF_vars(CheckPR) /\ WF_vars(Merge) /\ WF_vars(CheckMain)
  /\ \A k \in Crate : WF_vars(Publish(k))

Spec == Init /\ [][Next]_vars
FairSpec == Spec /\ Fairness

-----------------------------------------------------------------------------
(* Properties *)

(* Types; a verdict belongs to an open pull request. *)
TypeOK ==
  /\ main \in Commit /\ mainCI \in Verdict
  /\ pr \in Commit \cup {None} /\ prCI \in Verdict /\ (pr = None => prCI = "none")
  /\ registry \in [Package -> SUBSET Version]

(* What is on main ships locks that agree with its manifests in every      *)
(* first-party requirement, whether cargo said so or the tolerance did.    *)
LocksAgree ==
  \A k \in Crate, p \in Crate : p \in Needs[k] => main.wants[p] \in main.lock[k][p]

(* A first-party requirement of main that nobody can meet is of the        *)
(* version being released, so publishing main's crates meets it.           *)
OnlyMidRelease ==
  \A k \in Crate, p \in Crate :
    p \in Needs[k] => main.wants[p] \in registry[p] \cup {main.version}

(* The tolerance leaves only third-party version ranges to the strict      *)
(* check that returns later: a merged commit that CI refuses afterwards    *)
(* locks some third-party package at a version that does not do.           *)
RedForRangesOnly ==
  mainCI = "red" =>
    \E k \in Crate, p \in Foreign :
      /\ p \in Needs[k] /\ main.lock[k][p] # {}
      /\ main.wants[p] \notin registry[p] \cap main.lock[k][p]

(* The deadlock the tolerance is there to break: a sound bump is merged    *)
(* and all its crates are published, unless main moves on to a commit      *)
(* that cannot be.                                                         *)
Sound(c) == c = Consistent(c.version)
Released(v) == \A k \in Crate : v \in registry[k]
BumpLands ==
  \A v \in 2..MaxVersion :
    (pr # None /\ pr = Consistent(v))
      ~> (Released(v) \/ ~Sound(main) \/ main.version > v)
=============================================================================
