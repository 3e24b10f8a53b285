-------------------------- MODULE PackageProof_proofs --------------------------
(* Proofs about PackageProof: what a package that passed is made of.         *)
EXTENDS PackageProof, Export_proofs

(* ABI a has been taken from its archive, which is the listed one and agrees *)
(* with the first unpacked in its header.                                    *)
Taken(a) ==
  /\ native[a] = [lib |-> bundle.entry[a].lib, machine |-> bundle.entry[a].machine]
  /\ bundle.entry[a].header = HeaderOf(Order[1])

(* A repository made of the listed slices, before and after their machines   *)
(* are looked at.                                                            *)
Packed(r) ==
  /\ bundle.signed
  /\ \A a \in Abi :
       /\ r.jni[a] = [lib |-> bundle.entry[a].lib, machine |-> bundle.entry[a].machine]
       /\ r.prefab[a] = r.jni[a]
       /\ r.header = bundle.entry[a].header
Ships(r) == Packed(r) /\ \A a \in Abi : bundle.entry[a].machine = Machine[a]

Consuming == {"lock", "consume", "compare"}
Proved == {"restore", "resolve", "ship", "passed"}

NativeShape == native = [a \in Abi |-> native[a]] /\ staging = [a \in Abi |-> staging[a]]
LoopTakes ==
  pc \in {"extract", "unpack", "slice"} =>
    /\ index \in 1..Len(Order)
    /\ \A i \in 1..index - 1 : Taken(Order[i])
LoopSigned ==
  /\ pc = "extract" /\ index # 1 => bundle.signed
  /\ pc \in {"unpack", "slice"} => bundle.signed /\ bundle.disk[At] = bundle.entry[At]
  /\ pc = "slice" => staging[At].of = bundle.disk[At]
AllTaken ==
  pc \in {"headers", "gradle"} => bundle.signed /\ \A a \in Abi : Taken(a)
HeaderAgrees == pc = "gradle" => HeaderOf(Order[1]) = Header
BuiltPacked == pc = "inspect" => Packed(repo)
PrintsTaken ==
  /\ pc \in Consuming => Ships(proven) /\ prints[2] = proven
  /\ pc \in {"lock", "consume"} => prints = <<export, repo>>
ProvedShips == pc \in Proved => Ships(repo) /\ repo = proven

BuildInv ==
  /\ NativeShape /\ LoopTakes /\ LoopSigned /\ AllTaken /\ HeaderAgrees
  /\ BuiltPacked /\ PrintsTaken /\ ProvedShips

LEMMA FirstAbi == 1 \in 1..Len(Order) /\ Abi = {Order[i] : i \in 1..Len(Order)}
BY OrderAssumption DEF Abi

LEMMA BuildInit == Init => BuildInv
BY FirstAbi DEF Init, BuildInv, NativeShape, LoopTakes, LoopSigned, AllTaken, HeaderAgrees,
  BuiltPacked, PrintsTaken, ProvedShips, Consuming, Proved, Unfilled, Empty

LEMMA SliceStep ==
  ASSUME BuildInv, Slice
  PROVE  BuildInv'
<1>1. UNCHANGED <<bundle, staging, export, repo, prints, proven>> /\ pc = "slice"
  BY DEF Slice, Given, given, proof
<1>2. /\ index \in 1..Len(Order) /\ bundle.signed /\ bundle.disk[At] = bundle.entry[At]
      /\ staging[At].of = bundle.disk[At] /\ staging = [a \in Abi |-> staging[a]]
      /\ \A i \in 1..index - 1 : Taken(Order[i])
      /\ native = [a \in Abi |-> native[a]]
  BY <1>1 DEF BuildInv, LoopTakes, LoopSigned, NativeShape
<1>3. CASE pc' = "failed"
  <2>1. native' = [a \in Abi |-> native'[a]]
    BY <1>2 DEF Slice
  <2> QED
    BY <1>1, <1>2, <1>3, <2>1 DEF BuildInv, NativeShape, LoopTakes, LoopSigned, AllTaken, HeaderAgrees,
      BuiltPacked, PrintsTaken, ProvedShips, Consuming, Proved
<1>4. CASE pc' # "failed"
  <2>1. /\ native' = [native EXCEPT ![At] =
                        [lib |-> staging[At].of.lib, machine |-> staging[At].of.machine]]
        /\ HeaderOf(At) = HeaderOf(Order[1])
        /\ IF LastAbi THEN UNCHANGED index /\ pc' = "headers"
           ELSE index' = index + 1 /\ pc' = "extract"
    BY <1>4 DEF Slice, Goto
  <2>2. native' = [a \in Abi |-> native'[a]]
    BY <1>2, <2>1
  <2>3. At \in Abi
    BY <1>2, FirstAbi DEF At
  <2>4. native'[At] = [lib |-> bundle.entry[At].lib, machine |-> bundle.entry[At].machine]
        /\ bundle.entry[At].header = HeaderOf(Order[1])
    BY <1>2, <2>1, <2>3 DEF HeaderOf
  <2>5. \A i \in 1..index : /\ native'[Order[i]] = [lib |-> bundle.entry[Order[i]].lib,
                                                    machine |-> bundle.entry[Order[i]].machine]
                            /\ bundle.entry[Order[i]].header = HeaderOf(Order[1])
    <3> SUFFICES ASSUME NEW i \in 1..index
                 PROVE  /\ native'[Order[i]] = [lib |-> bundle.entry[Order[i]].lib,
                                                machine |-> bundle.entry[Order[i]].machine]
                        /\ bundle.entry[Order[i]].header = HeaderOf(Order[1])
      OBVIOUS
    <3>1. CASE Order[i] = At
      BY <3>1, <2>4
    <3>2. CASE Order[i] # At
      <4>1. i \in 1..index - 1
        BY <1>2, <3>2 DEF At
      <4>2. Taken(Order[i])
        BY <1>2, <4>1
      <4>3. native'[Order[i]] = native[Order[i]]
        BY <1>2, <2>1, <3>2, <4>1, FirstAbi
      <4> QED
        BY <4>2, <4>3 DEF Taken
    <3> QED
      BY <3>1, <3>2
  <2>6. CASE LastAbi
    <3>1. pc' = "headers" /\ \A i \in 1..Len(Order) : Taken(Order[i])'
      BY <1>1, <2>1, <2>5, <2>6 DEF LastAbi, Taken, HeaderOf
    <3>2. \A a \in Abi : Taken(a)'
      BY <3>1, FirstAbi
    <3> QED
      BY <1>1, <1>2, <2>2, <3>1, <3>2 DEF BuildInv, NativeShape, LoopTakes, LoopSigned, AllTaken,
        HeaderAgrees, BuiltPacked, PrintsTaken, ProvedShips, Consuming, Proved
  <2>7. CASE ~LastAbi
    <3>1. /\ pc' = "extract" /\ index' = index + 1 /\ index' \in 1..Len(Order)
          /\ 1..index' - 1 = 1..index
      BY <1>1, <1>2, <2>1, <2>7, OrderAssumption DEF LastAbi
    <3>2. \A i \in 1..index : Taken(Order[i])'
      BY <1>1, <2>5 DEF Taken, HeaderOf
    <3> QED
      BY <1>1, <1>2, <2>2, <3>1, <3>2 DEF BuildInv, NativeShape, LoopTakes, LoopSigned, AllTaken,
        HeaderAgrees, BuiltPacked, PrintsTaken, ProvedShips, Consuming, Proved
  <2> QED
    BY <2>6, <2>7
<1> QED
  BY <1>3, <1>4

LEMMA BuildStep ==
  ASSUME BuildInv, [Next]_vars
  PROVE  BuildInv'
<1> USE DEF BuildInv, NativeShape, LoopTakes, LoopSigned, AllTaken, HeaderAgrees,
      BuiltPacked, PrintsTaken, ProvedShips, Consuming, Proved, Goto, Given, given, build, proof
<1>1. CASE Prepare
  BY <1>1 DEF Prepare
<1>2. CASE Start
  BY <1>2 DEF Start
<1>3. CASE Clear
  BY <1>3, FirstAbi DEF Clear, Unfilled, Empty
<1>4. CASE Extract
  BY <1>4 DEF Extract, ArtifactVerifies, At, Taken, HeaderOf
<1>5. CASE Unpack
  <2>1. /\ pc = "unpack" /\ bundle.disk[At] = bundle.entry[At] /\ At \in Abi
        /\ UNCHANGED <<bundle, native, index, export, repo, prints, proven>>
    BY <1>5, FirstAbi DEF Unpack, At
  <2>2. /\ staging' = [a \in Abi |-> staging'[a]]
        /\ pc' = "slice" => staging'[At].of = bundle.disk[At]
        /\ \A a \in Abi : staging'[a] = staging[a] \/ (a = At /\ staging'[a].of = bundle.entry[a])
    BY <1>5, <2>1 DEF Unpack
  <2>3. \A i \in 1..index - 1 : Taken(Order[i])'
    <3> SUFFICES ASSUME NEW i \in 1..index - 1
                 PROVE  /\ native[Order[i]] = [lib |-> bundle.entry[Order[i]].lib,
                                               machine |-> bundle.entry[Order[i]].machine]
                        /\ bundle.entry[Order[i]].header = staging'[Order[1]].of.header
      BY <2>1 DEF Taken, HeaderOf
    <3>1. Taken(Order[i]) /\ Taken(Order[1]) /\ Order[1] \in Abi
      BY <2>1, FirstAbi
    <3>2. CASE staging'[Order[1]] = staging[Order[1]]
      BY <3>1, <3>2 DEF Taken, HeaderOf
    <3>3. CASE staging'[Order[1]].of = bundle.entry[Order[1]]
      BY <3>1, <3>3 DEF Taken, HeaderOf
    <3> QED
      BY <2>2, <3>1, <3>2, <3>3
  <2>4. pc' \in {"slice", "failed"}
    BY <1>5 DEF Unpack
  <2> QED
    BY <2>1, <2>2, <2>3, <2>4 DEF At
<1>6. CASE Slice
  BY <1>6, SliceStep
<1>7. CASE Headers
  BY <1>7 DEF Headers, Header, Taken, HeaderOf
<1>8. CASE Gradle
  <2>1. UNCHANGED <<bundle, native, staging>> /\ pc = "gradle"
    BY <1>8 DEF Gradle
  <2>2. CASE pc' = "inspect"
    <3>1. repo' = [jni |-> native, prefab |-> native, header |-> Header]
      BY <1>8, <2>2 DEF Gradle
    <3>2. Packed(repo)'
      BY <2>1, <3>1 DEF Packed, Taken
    <3> QED
      BY <2>1, <2>2, <3>2
  <2>3. CASE pc' = "failed"
    BY <2>1, <2>3
  <2> QED
    BY <1>8, <2>2, <2>3 DEF Gradle
<1>9. CASE Inspect
  <2>1. UNCHANGED <<bundle, native, staging, repo, export>> /\ pc = "inspect"
    BY <1>9 DEF Inspect
  <2>2. CASE pc' = "lock"
    <3>1. /\ \A a \in Abi : repo.jni[a].machine = Machine[a]
          /\ proven' = repo /\ prints' = <<export, repo>>
      BY <1>9, <2>2 DEF Inspect, RightMachine
    <3>2. ASSUME NEW a \in Abi
          PROVE  bundle.entry[a].machine = Machine[a]
      <4>1. repo.jni[a] = [lib |-> bundle.entry[a].lib, machine |-> bundle.entry[a].machine]
        BY <2>1 DEF Packed
      <4>2. repo.jni[a].machine = Machine[a]
        BY <3>1
      <4>3. repo.jni[a].machine = bundle.entry[a].machine
        BY ONLY <4>1
      <4> QED
        BY <4>2, <4>3
    <3>3. Ships(proven)'
      BY <2>1, <3>1, <3>2 DEF Ships, Packed
    <3>4. prints'[2] = proven' /\ prints' = <<export, repo>>'
      BY <2>1, <3>1
    <3>5. PrintsTaken'
      BY <3>3, <3>4
    <3> QED
      BY <2>1, <2>2, <3>5
  <2>3. CASE pc' = "failed"
    BY <2>1, <2>3
  <2> QED
    BY <1>9, <2>2, <2>3 DEF Inspect
<1>10. CASE Lock
  BY <1>10 DEF Lock, Ships, Packed
<1>11. CASE Consume
  BY <1>11 DEF Consume, Ships, Packed
<1>12. CASE Compare
  <2>1. UNCHANGED <<bundle, native, staging, repo, export, prints, proven>> /\ pc = "compare"
    BY <1>12 DEF Compare
  <2>2. CASE pc' = "restore"
    <3>1. prints = <<export, repo>>
      BY <1>12, <2>2 DEF Compare, SameTrees
    <3>2. repo = proven /\ Ships(proven)
      BY <2>1, <3>1
    <3>3. ProvedShips'
      BY <2>1, <3>2 DEF Ships, Packed
    <3> QED
      BY <2>1, <2>2, <3>3
  <2>3. CASE pc' = "give up"
    BY <2>1, <2>3
  <2> QED
    BY <1>12, <2>2, <2>3 DEF Compare
<1>13. CASE Restore
  BY <1>13 DEF Restore, Ships, Packed
<1>14. CASE Resolve
  BY <1>14 DEF Resolve, Ships, Packed
<1>15. CASE Ship
  BY <1>15 DEF Ship, Ships, Packed
<1>16. CASE Retry
  BY <1>16 DEF Retry, Unfilled, Empty
<1>17. CASE UNCHANGED vars
  BY <1>17 DEF vars, Ships, Packed, Taken, At, Header, HeaderOf
<1> QED
  BY <1>1, <1>2, <1>3, <1>4, <1>5, <1>6, <1>7, <1>8, <1>9, <1>10, <1>11, <1>12, <1>13, <1>14,
    <1>15, <1>16, <1>17 DEF Next, Step

LEMMA BuildAlways == Spec => []BuildInv
<1> QED
  BY BuildInit, BuildStep, PTL DEF Spec

(* Whatever fails and is tried again, with whatever bundles: a package that  *)
(* passed is made of the slices one signed manifest lists.                   *)
THEOREM ShipsBundleAlways == Spec => []ShipsBundle
<1>1. BuildInv => ShipsBundle
  BY DEF BuildInv, ProvedShips, Proved, Ships, Packed, ShipsBundle, Passed
<1> QED
  BY <1>1, BuildAlways, PTL

-----------------------------------------------------------------------------
(* In the release's build job the export is the accepted commit until the    *)
(* consumer runs, and again once the fingerprints agree.                     *)
Building == {"start", "clear", "extract", "unpack", "slice", "headers", "gradle", "inspect",
             "lock", "consume"}
CheckoutInv ==
  /\ host = "ci" =>
       /\ pc \notin {"prepare", "refused"} => mirror = Canonical(Source, Component)
       /\ pc \in Building \cup Proved \cup {"prepare"} => export = mirror
       /\ pc \in Consuming => prints[1] = mirror
  /\ pc = "ship" => host = "ci"
  /\ released # None => host = "ci" /\ pc = "passed" /\ released.repo = repo

LEMMA CheckoutInit == Init => CheckoutInv
BY DEF Init, CheckoutInv, Building, Proved, Consuming

LEMMA CheckoutStep ==
  ASSUME NEW Path, NEW Text, NEW Edit, Source \in [Path -> Content(Text, Edit)],
         CheckoutInv, [Next]_vars
  PROVE  CheckoutInv'
<1> USE DEF CheckoutInv, Building, Proved, Consuming, Goto, Given, given, build, proof
<1>1. CASE Prepare
  <2>1. Accepts(Source, Component, mirror) => mirror = Canonical(Source, Component)
    BY MapBound
  <2> QED
    BY <1>1, <2>1 DEF Prepare
<1>2. CASE Start
  BY <1>2 DEF Start
<1>3. CASE Clear \/ Extract \/ Unpack \/ Headers \/ Gradle
  BY <1>3 DEF Clear, Extract, Unpack, Headers, Gradle
<1>4. CASE Slice
  BY <1>4 DEF Slice
<1>5. CASE Inspect
  BY <1>5 DEF Inspect
<1>6. CASE Lock
  BY <1>6 DEF Lock
<1>7. CASE Consume
  BY <1>7 DEF Consume
<1>8. CASE Compare
  <2>1. /\ UNCHANGED <<host, mirror, export, repo, prints, released>> /\ pc = "compare"
        /\ pc' = "restore" \/ pc' = "give up"
    BY <1>8 DEF Compare
  <2>2. CASE pc' = "restore"
    <3>1. prints = <<export, repo>>
      BY <1>8, <2>2 DEF Compare, SameTrees
    <3>2. host = "ci" => export = mirror
      BY <2>1, <3>1
    <3> QED
      BY <2>1, <2>2, <3>2
  <2>3. CASE pc' = "give up"
    BY <2>1, <2>3
  <2> QED
    BY <2>1, <2>2, <2>3
<1>9. CASE Restore \/ Resolve
  BY <1>9 DEF Restore, Resolve
<1>10. CASE Ship
  <2>1. /\ UNCHANGED <<host, mirror, export, repo>> /\ pc = "ship" /\ pc' = "passed"
        /\ released' = [repo |-> repo, manifest |-> bundle.entry]
    BY <1>10 DEF Ship
  <2>2. released'.repo = repo
    BY <2>1
  <2> QED
    BY <2>1, <2>2
<1>11. CASE Retry
  BY <1>11 DEF Retry
<1>12. CASE UNCHANGED vars
  BY <1>12 DEF vars
<1> QED
  BY <1>1, <1>2, <1>3, <1>4, <1>5, <1>6, <1>7, <1>8, <1>9, <1>10, <1>11, <1>12 DEF Next, Step

(* What the build job puts into the release is what the consumer proved,     *)
(* built from the canonical export, whatever a privileged consumer writes.   *)
THEOREM ReleasesProvenAlways ==
  ASSUME NEW Path, NEW Text, NEW Edit, Source \in [Path -> Content(Text, Edit)]
  PROVE  Spec => []ReleasesProven
<1>1. CheckoutInv /\ [Next]_vars => CheckoutInv'
  BY CheckoutStep
<1>2. BuildInv /\ CheckoutInv => ReleasesProven
  BY DEF BuildInv, ProvedShips, Proved, CheckoutInv, ReleasesProven
<1> QED
  BY <1>1, <1>2, CheckoutInit, BuildAlways, PTL DEF Spec

-----------------------------------------------------------------------------
(* Whatever step fails, nothing stays read-only once the proof is over.      *)
THEOREM ModesRestoredAlways == Spec => []ModesRestored
<1>1. Init => ModesRestored
  BY DEF Init, ModesRestored
<1>2. ModesRestored /\ [Next]_vars => ModesRestored'
  BY DEF ModesRestored, Next, Step, vars, Goto, Given, given, build, proof, Prepare, Start, Clear,
    Extract, Unpack, Slice, Headers, Gradle, Inspect, Lock, Consume, Compare, Restore, Resolve,
    Ship, Retry
<1> QED
  BY <1>1, <1>2, PTL DEF Spec
-----------------------------------------------------------------------------
(* Types. *)

(* None is neither a pair of fingerprints, a slice nor a repository. *)
NoneApart ==
  /\ \A x, y : <<x, y>> # None
  /\ \A l, m : [lib |-> l, machine |-> m] # None
  /\ \A j, p, h : [jni |-> j, prefab |-> p, header |-> h] # None

Inputs == host \in Host /\ mirror \in Mirrors /\ bundle \in Bundles /\ faults \in 0..MaxFaults

(* The export always has a header, whosever it is. *)
Texts == {mirror[HeaderFile].text, Source[<<"sdk", "hop.h">>].text, Scrap}
Exported ==
  /\ DOMAIN export \in {DOMAIN mirror, DOMAIN Canonical(Source, Component)}
  /\ HeaderFile \in DOMAIN export /\ "text" \in DOMAIN export[HeaderFile] /\ Header \in Texts

Filled ==
  /\ staging \in [Abi -> [holds : SUBSET {"lib", "header"}, of : Archives \cup {None}]]
  /\ native \in [Abi -> Slices]
  /\ index \in DOMAIN Order

(* From the build on there is a repository, with a slice for every ABI. *)
Built == {"inspect", "lock", "consume", "compare", "restore", "resolve", "ship"}
Repositories ==
  /\ repo \in Repository \cup {None} /\ proven \in Repository \cup {None}
  /\ (prints = None) = (proven = None)
  /\ released # None => released.repo \in Repository
  /\ pc \in Built => repo \in Repository /\ \A a \in Abi : repo.jni[a] # None

Locked ==
  /\ locked \in 0..2 * Paths
  /\ pc = "lock" => locked < 2 * Paths

PackageTypes == Inputs /\ Exported /\ Filled /\ Repositories /\ Locked

LEMMA TypesGiven == Inputs /\ [Next]_vars => Inputs' /\ UNCHANGED mirror
<1> SUFFICES ASSUME Inputs, [Next]_vars PROVE Inputs' /\ UNCHANGED mirror
  OBVIOUS
<1> USE BoundsAssumption DEF Inputs, Given, given, Sound
<1>1. Fault => faults' \in 0..MaxFaults
  BY DEF Fault
<1>2. Step => UNCHANGED <<host, mirror, bundle>> /\ (Fault \/ UNCHANGED faults)
  BY DEF Step, Prepare, Start, Clear, Extract, Unpack, Slice, Headers, Gradle, Inspect, Lock,
    Consume, Compare, Restore, Resolve, Ship
<1>3. CASE Retry
  BY <1>3 DEF Retry
<1>4. CASE UNCHANGED vars
  BY <1>4 DEF vars
<1> QED
  BY <1>1, <1>2, <1>3, <1>4 DEF Next

(* Only obtaining the export and a privileged consumer write to it. *)
LEMMA TypesExported ==
  ASSUME NEW Path, NEW Text, NEW Edit, Source \in [Path -> Content(Text, Edit)],
         Inputs, Exported, [Next]_vars
  PROVE  Exported'
<1> USE DEF Exported, Header, Texts
<1>1. UNCHANGED mirror /\ mirror \in Mirrors
  BY TypesGiven DEF Inputs
<1>2. CASE UNCHANGED export
  BY <1>1, <1>2
<1>3. CASE Start
  <2>1. CASE host = "monorepo"
    <3>1. Canonical(Source, Component) # Refused /\ export' = Canonical(Source, Component)
      BY <1>3, <2>1 DEF Start
    <3>2. <<<<"sdk", "hop.h">>, HeaderFile>> \in Files(Component)
      BY DEF Files, HeaderExports, Component, HeaderFile
    <3>3. /\ HeaderFile \in DOMAIN export' /\ "text" \in DOMAIN export'[HeaderFile]
          /\ export'[HeaderFile].text = Source[<<"sdk", "hop.h">>].text
      BY <3>1, <3>2, CarriesFile DEF Canonical
    <3> QED
      BY <1>1, <3>1, <3>3
  <2>2. CASE host # "monorepo"
    BY <1>2, <1>3, <2>2 DEF Start
  <2> QED
    BY <2>1, <2>2
<1>4. CASE Consume
  <2>1. ASSUME NEW p \in Scribbles, export' = [export EXCEPT ![p].text = Scrap]
        PROVE  Exported'
    <3>1. DOMAIN export' = DOMAIN export
      BY <2>1
    <3>2. CASE p = HeaderFile
      <4>1. export'[HeaderFile] = [export[HeaderFile] EXCEPT !.text = Scrap]
        BY <2>1, <3>2
      <4>2. "text" \in DOMAIN export'[HeaderFile] /\ export'[HeaderFile].text = Scrap
        BY <4>1
      <4> QED
        BY <1>1, <3>1, <4>2
    <3>3. CASE p # HeaderFile
      BY <1>1, <2>1, <3>1, <3>3
    <3> QED
      BY <3>2, <3>3
  <2> QED
    BY <1>2, <1>4, <2>1 DEF Consume
<1>5. CASE Retry
  BY <1>1, <1>2, <1>5, MirrorsAssumption DEF Retry
<1>6. UNCHANGED vars => UNCHANGED export
  BY DEF vars
<1> QED
  BY <1>2, <1>3, <1>4, <1>5, <1>6
  DEF Next, Step, Given, Prepare, Clear, Extract, Unpack, Slice, Headers, Gradle, Inspect, Lock,
    Compare, Restore, Resolve, Ship

(* A listed archive has files for a slice. *)
LEMMA ListedArchive ==
  ASSUME Inputs, NEW a \in Abi, bundle.disk[a] = bundle.entry[a]
  PROVE  /\ bundle.disk[a].holds \subseteq {"lib", "header"}
         /\ bundle.disk[a] \in Archives
         /\ [lib |-> bundle.disk[a].lib, machine |-> bundle.disk[a].machine] \in Slices
<1>1. bundle \in Bundles /\ bundle.entry[a] # None
      /\ bundle.entry[a].holds \subseteq {"lib", "header"}
  BY BundlesAssumption DEF Inputs
<1>2. bundle.disk[a] \in Archives
  BY <1>1 DEF Archives
<1> QED
  BY <1>1, <1>2 DEF Slices

LEMMA TypesFilled ==
  ASSUME Inputs, Filled, BuildInv, [Next]_vars
  PROVE  Filled'
<1> USE DEF Filled
<1>1. CASE UNCHANGED build
  BY <1>1 DEF build
<1>2. DOMAIN Order = 1..Len(Order) /\ Len(Order) \in Nat /\ 1 \in DOMAIN Order
      /\ Abi = {Order[i] : i \in DOMAIN Order}
  BY OrderAssumption DEF Abi
<1>3. At \in Abi
  BY <1>2 DEF At
<1>4. /\ pc \in {"unpack", "slice"} => bundle.disk[At] = bundle.entry[At]
      /\ pc = "slice" => staging[At].of = bundle.disk[At]
  BY DEF BuildInv, LoopSigned
<1>5. /\ Empty \in [Abi -> [holds : SUBSET {"lib", "header"}, of : Archives \cup {None}]]
      /\ Unfilled \in [Abi -> Slices]
  BY DEF Empty, Unfilled, Slices
<1>6. CASE Clear
  BY <1>2, <1>5, <1>6 DEF Clear
<1>7. CASE Unpack
  <2>1. /\ bundle.disk[At].holds \subseteq {"lib", "header"} /\ bundle.disk[At] \in Archives
        /\ UNCHANGED <<native, index>>
    BY <1>3, <1>4, <1>7, ListedArchive DEF Unpack, Given
  <2> QED
    BY <1>3, <1>7, <2>1 DEF Unpack
<1>8. CASE Slice
  <2>1. [lib |-> staging[At].of.lib, machine |-> staging[At].of.machine] \in Slices
        /\ UNCHANGED staging
    BY <1>3, <1>4, <1>8, ListedArchive DEF Slice, Given
  <2>2. native' \in [Abi -> Slices]
    BY <1>3, <1>8, <2>1 DEF Slice
  <2>3. index' \in DOMAIN Order
    BY <1>2, <1>8 DEF Slice, LastAbi
  <2> QED
    BY <2>1, <2>2, <2>3
<1>9. CASE Retry
  BY <1>1, <1>2, <1>5, <1>9 DEF Retry
<1>10. UNCHANGED vars => UNCHANGED build
  BY DEF vars
<1> QED
  BY <1>1, <1>6, <1>7, <1>8, <1>9, <1>10
  DEF Next, Step, Given, Prepare, Start, Extract, Headers, Gradle, Inspect, Lock, Consume,
    Compare, Restore, Resolve, Ship

(* A repository, once built, stays one: with one slice overwritten too.     *)
LEMMA ScribbledRepository ==
  ASSUME NEW r \in Repository, \A a \in Abi : r.jni[a] # None, NEW b \in Abi
  PROVE  /\ [r EXCEPT !.jni[b].lib = Scrap] \in Repository
         /\ \A a \in Abi \ {b} : [r EXCEPT !.jni[b].lib = Scrap].jni[a] = r.jni[a]
         /\ [r EXCEPT !.jni[b].lib = Scrap].jni[b] = [r.jni[b] EXCEPT !.lib = Scrap]
<1>1. r.jni \in [Abi -> Slices] /\ r.jni[b] \in Slices \ {None}
  BY DEF Repository
<1>2. [r.jni[b] EXCEPT !.lib = Scrap] \in Slices
  BY <1>1 DEF Slices
<1> DEFINE q == [r.jni EXCEPT ![b] = [r.jni[b] EXCEPT !.lib = Scrap]]
<1>3. q \in [Abi -> Slices] /\ q[b] = [r.jni[b] EXCEPT !.lib = Scrap]
      /\ \A a \in Abi \ {b} : q[a] = r.jni[a]
  BY <1>1, <1>2
<1> HIDE DEF q
<1>4. [r EXCEPT !.jni = q] \in Repository /\ [r EXCEPT !.jni = q].jni = q
  BY <1>3 DEF Repository
<1> QED
  BY <1>3, <1>4 DEF q

(* Only a build that found every slice makes a repository the proof sees.   *)
LEMMA TypesRepositories ==
  ASSUME NoneApart, Inputs, Exported, Filled, Repositories, BuildInv, [Next]_vars
  PROVE  Repositories'
<1> USE DEF Repositories, Built, Goto
<1>1. UNCHANGED mirror
  BY TypesGiven
<1>2. Repository' = Repository
  BY <1>1 DEF Repository
<1>3. None \notin Repository /\ \A x, y : <<x, y>> # None
  BY DEF NoneApart, Repository
<1>4. CASE Prepare \/ Start \/ Clear \/ Extract \/ Unpack \/ Slice \/ Headers
  BY <1>2, <1>4
  DEF Prepare, Start, Clear, Extract, Unpack, Slice, Headers, Given, proof
<1>5. CASE Gradle
  <2>1. [jni |-> native, prefab |-> native, header |-> Header] \in Repository
    BY DEF Repository, Filled, Exported, Texts
  <2>2. [jni |-> native, prefab |-> native, header |-> Header].jni = native
    OBVIOUS
  <2> QED
    BY <1>2, <1>5, <2>1, <2>2 DEF Gradle, Given, proof
<1>6. CASE Inspect
  <2>1. repo \in Repository /\ (\A a \in Abi : repo.jni[a] # None) /\ UNCHANGED <<repo, released>>
    BY <1>6 DEF Inspect, Given
  <2> QED
    BY <1>2, <1>3, <1>6, <2>1 DEF Inspect
<1>7. CASE Consume
  <2>1. pc = "consume" /\ pc' \in {"compare", "give up"} /\ UNCHANGED <<proven, prints, released>>
    BY <1>7 DEF Consume, Given, proof
  <2>2. CASE UNCHANGED repo
    BY <1>2, <2>1, <2>2
  <2>3. ASSUME NEW b \in Abi, repo' = [repo EXCEPT !.jni[b].lib = Scrap]
        PROVE  Repositories'
    <3>1. repo \in Repository /\ \A a \in Abi : repo.jni[a] # None
      BY <2>1
    <3>2. /\ repo' \in Repository
          /\ \A a \in Abi \ {b} : repo'.jni[a] = repo.jni[a]
          /\ repo'.jni[b] = [repo.jni[b] EXCEPT !.lib = Scrap]
      BY <2>3, <3>1, ScribbledRepository
    <3>3. PICK l, m : repo.jni[b] = [lib |-> l, machine |-> m]
      BY <3>1 DEF Repository, Slices
    <3>4. repo'.jni[b] = [lib |-> Scrap, machine |-> m]
      BY <3>2, <3>3
    <3>5. \A a \in Abi : repo'.jni[a] # None
      BY <3>1, <3>2, <3>4 DEF NoneApart
    <3> QED
      BY <1>2, <2>1, <3>2, <3>5
  <2> QED
    BY <1>7, <2>2, <2>3 DEF Consume
<1>8. CASE Lock \/ Compare \/ Restore \/ Resolve
  BY <1>2, <1>8 DEF Lock, Compare, Restore, Resolve, Given, proof
<1>9. CASE Ship
  <2>1. released' = [repo |-> repo, manifest |-> bundle.entry] /\ repo \in Repository
    BY <1>9 DEF Ship
  <2>2. released'.repo = repo
    BY <2>1
  <2> QED
    BY <1>2, <1>9, <2>1, <2>2 DEF Ship, Given, proof
<1>10. CASE Retry
  BY <1>2, <1>10 DEF Retry
<1>11. CASE UNCHANGED vars
  BY <1>2, <1>11 DEF vars, proof
<1> QED
  BY <1>4, <1>5, <1>6, <1>7, <1>8, <1>9, <1>10, <1>11 DEF Next, Step

LEMMA TypesLocked ==
  ASSUME Locked, ModesRestored, [Next]_vars
  PROVE  Locked'
<1> USE BoundsAssumption DEF Locked, Goto
<1>1. locked \in Nat /\ 0 \in 0..2 * Paths /\ 0 < 2 * Paths
  OBVIOUS
<1>2. CASE Inspect
  <2>1. locked = 0 /\ UNCHANGED locked
    BY <1>2 DEF Inspect, ModesRestored, Given
  <2> QED
    BY <1>1, <2>1
<1>3. CASE Lock
  <2>1. PICK n \in Nat : n = 2 * Paths
    OBVIOUS
  <2>2. locked \in Nat /\ locked < n
    BY <1>1, <1>3, <2>1 DEF Lock
  <2>3. CASE locked' = locked + 1 /\ pc' = IF locked' = n THEN "consume" ELSE "lock"
    BY ONLY <2>1, <2>2, <2>3 DEF Locked
  <2>4. CASE UNCHANGED locked /\ pc' = "give up"
    BY <2>4
  <2> QED
    BY <1>3, <2>1, <2>3, <2>4 DEF Lock
<1>4. CASE Restore
  BY <1>1, <1>4 DEF Restore
<1>5. ASSUME UNCHANGED locked, pc' # "lock" \/ UNCHANGED pc PROVE Locked'
  BY <1>5
<1> QED
  BY <1>2, <1>3, <1>4, <1>5
  DEF Next, Step, vars, proof, Given, Prepare, Start, Clear, Extract, Unpack, Slice, Headers,
    Gradle, Consume, Compare, Resolve, Ship, Retry

(* Every variable has its type: an export always has a header, what was     *)
(* fingerprinted is known until the attempt is over, and from the build on  *)
(* the repository holds a slice for every ABI, overwritten or not.          *)
THEOREM PackageTypesHold ==
  ASSUME NEW Path, NEW Text, NEW Edit, Source \in [Path -> Content(Text, Edit)],
         NoneApart
  PROVE  Spec => []TypeOK
<1>1. Init => PackageTypes
  <2> SUFFICES ASSUME Init PROVE PackageTypes
    OBVIOUS
  <2> USE DEF Init
  <2>1. Inputs
    BY BoundsAssumption DEF Inputs
  <2>2. Exported
    BY MirrorsAssumption DEF Exported, Texts, Header
  <2>3. Filled
    BY FirstAbi, OrderAssumption DEF Filled, Empty, Unfilled, Slices
  <2>4. Repositories
    BY DEF Repositories, Built
  <2>5. Locked
    BY BoundsAssumption DEF Locked
  <2> QED
    BY <2>1, <2>2, <2>3, <2>4, <2>5 DEF PackageTypes
<1>2. PackageTypes /\ BuildInv /\ ModesRestored /\ [Next]_vars => PackageTypes'
  BY TypesGiven, TypesExported, TypesFilled, TypesRepositories, TypesLocked DEF PackageTypes
<1>3. PackageTypes => TypeOK
  BY DEF PackageTypes, Inputs, Exported, Filled, Repositories, Locked, TypeOK
<1> QED
  BY <1>1, <1>2, <1>3, BuildAlways, ModesRestoredAlways, PTL DEF Spec
=============================================================================
