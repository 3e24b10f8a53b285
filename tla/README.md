# Formal model of hop-sdk-android

TLA+ modules, TLC configurations and TLAPS proofs for the Hop Android SDK: the Kotlin wrapper around
`libhop` (`src/src/main/kotlin/sh/hop`) and the release pipeline that publishes it (`src/.github`,
`src/native`). Paths below are relative to the repository's root, `src/`.

## The system

| component | state it keeps | operations | how it meets the others |
|---|---|---|---|
| `BearerManager` (Bearers.kt) | bearers and lanes, names disabled, bearers stopped, `started`, the two maps between local and global link ids | `register`, `setEnabled`, `start`, `stop`, `send`; `up`, `bytes`, `down` from bearers | calls bearers and the consumer's sink with its lock released |
| bearers (their own modules; `LoopbackBearer` in Smoke.kt) | links each has open | start, stop, send; callbacks at any time | callbacks arrive on the bearer's threads |
| `HopRuntime` (Bearers.kt) | none of its own | register, start, stop, pump, tick | bearer links into the node, the node's packets out to bearers |
| `NativeHandleLifecycle`, `HopNode` (Hop.kt) | pointer, closed, active calls, a fair reentrant lock | every node call, close, free, the Cleaner's run | native calls call back synchronously; a callback may call or close a node |
| inbox and service polling (Hop.kt, hop.h) | in libhop | poll, accept | at-least-once delivery: repeats until accepted |
| relay pool, addresses, helpers | in libhop, or none | thin or pure | |
| release.yml with release-provenance.py, release-artifact.py, native-artifacts.py | job outputs, workflow artifacts, the staging repository | prepare, build, publish; re-runs | reads the canonical repository's runs, which others re-run meanwhile |
| package-export-smoke.py: export | none: a function of the monorepo's tree | `expected_export_tree`, `write_export` | Copybara's mirror must equal it; release-provenance.py compares |
| package-export-smoke.py: locks | none: a verdict on a commit and the registry | `verify_standalone_lock` in `check` | CI of pull requests and of main; crates are published from a green main |
| package-export-smoke.py validate, build-aar.sh, build.gradle.kts, native-artifacts.py extract | work root, `build/`, file modes | validate, build, prove with a clean consumer | from the monorepo, from CI's build job, or again and again in one checkout |

What is hard here: the manager calls out with its lock released, so a bearer's callback, a second host
thread and the call itself interleave at every release; enablement must hold against links that were
in flight; the handle must be freed exactly once although a close can come from a callback of the very
call that uses it; a release is a long chain of checks on things that go on changing (main, tags, CI and
native runs, artifact retention) with retries of steps that are not idempotent; a check that must forgive
a dependency nobody has published yet, and nothing else; a package proof that changes the modes of the
very trees it compares, may stop at any step and is run again over what it left. `PROJECT.json` lists
these hazards line by line with the properties that watch them.

What makes each part correct:

- manager: the two maps agree and neither leaks; every link id is announced once and closed once; a
  disabled transport carries no link; the books say what each bearer was last told;
- handle: freed once, after its last use; closed means freed; one thread inside; every call ends;
- release: only what was verified is published, whole and from one build; a re-run can resume; a release
  for which everything is ready does land;
- export: an accepted mirror commit is the canonical export, although its component map is read from it;
- locks: what is merged agrees with its locks, and a sound version bump can be merged and published;
- package: what ships was inspected and is made of the signed bundle's slices, whatever was left behind
  by an attempt before; modes are restored.

## Modules

- `BearerManager.tla` models Bearers.kt. A *controller* is a host thread inside one API call; `pc` says
  which lock section or outward call it performs next, `todo` the bearers its loop has left, `cur` the one
  in hand, `orphans` the `linkDown`s it owes. A *link* is a bearer with a local id; `callback` and `held`
  are its callback between the manager's lock section and the call into the sink. Each action is one
  `synchronized` block (`Disable`, `DisableMark`, `TearDown`, `Up`, `Down`, ...) or one call out
  (`DisableCall`, `StartCall`, `NotifyDown`, `SinkUp`, ...). Calls that change nothing (a send without a
  route, enabling what is enabled, bytes on an unknown link) are stutters. The consumer keeps the links it
  was told of (`table`) and sends only on those. Bearers may report at any time, started or not; a bearer
  that throws from `start` or `stop` is one that was called, since the code swallows the exception.
  A bearer announces one link per local id at a time unless `Liberties` says `"reannounce"`, and reports
  only once it is in the list unless it says `"early"`.
- `LinkLedger.tla` is the abstract specification: each id goes from unused to routed, closing and
  closed, in ascending order of minting, and is announced once at any time after it was minted.
  `BearerManager!Ledger` is the refinement mapping. That announcement and closing are unordered is what
  the code gives: see the findings.
- `NativeHandle.tla` models the lifecycle class and the calls through it. A thread is a stack of frames
  (`Call`, `Enter`, `Return`, `Close`); `rank` numbers the frames active on a node; the lock is a FIFO
  reentrant lock (`Enqueue`, `MayLock`, `Lock`, `Unlock`), external, as `ReentrantLock(true)` documents.
  `Reach` says which nodes a callback may call or close, thread by thread. `HopNode.close`, `free` and the Cleaner are `Close`.
- `Release.tla` models a tag's workflow run: `pc` is the step, `attempt` GITHUB_RUN_ATTEMPT, `chosen`,
  `input`, `built` the job outputs, `held` and `pending` what is on the runner. The world around it moves:
  main, the tag, CI and native runs finish and are re-run, artifacts lapse, answers are lost (the effect
  of a PUT or of the finalizing POST may stand although the step fails), and "re-run failed jobs" and
  "re-run all jobs" are actions. A mirror commit stands for its canonical source as well. Whether a tree
  is the canonical export, whether a bundle's signature, inventory and attestation agree, and the digests
  of the built files are predicates (`Faithful`, `sound`), since the scripts decide them on data alone.
- `NativeRun.tla` models how such a bundle comes about: `pc` walks through authorize-ci (`Watch`,
  `Lookup`, `Authorize`), the groups' jobs, `Select` (select_partial_artifacts) and `Assemble`
  (download-partials, create). CI (`ci`, `jobs`) goes on beside it; re-runs of either keep what they may.
  `passed` and `ran` are history the properties refer to.
- `VersionBump.tla` models verify_standalone_lock where it matters, between a monorepo's pull requests and
  crates.io. A commit is the workspace's version, the versions its preamble demands (`wants`) and each
  crate's lock. `Strict` is `cargo metadata --locked` succeeding; `Reports` is which unmet requirements
  cargo names when it fails, an open choice because it may stop at the first; `Tolerates` is the direct
  comparison. A verdict is taken (`CheckPR`, `CheckMain`) and used later (`Merge`, `Publish`) while the
  registry moves. Versions are 0.0.x, so that a caret requirement is met by itself alone.
- `Export.tla` gives expected_export_tree as operators: `Placements` are the files with their places,
  `Rewritings` the edits in order, `Exportable` the ways it refuses. A text is a value, a file the mode, the
  text and the edits made; which anchors a text has once is a constant. `Accepts` is the comparison in
  release-provenance.py.
- `PackageProof.tla`, over `Export`, models a validation of the Android package: `pc` walks through the
  comparison of the mirror (`Prepare`, for CI), build-aar.sh (`Clear` .. `Gradle`) and validate_android
  (`Inspect` .. `Resolve`). `host` says which of the three commands runs and hence what an attempt starts
  from. A `Fault` is a full disk, a tool that fails, or a consumer that writes to the trees although they
  are read-only, as one that runs with privileges can. "give up" is an exception on its way through `finally`.
- `Transport.tla` is `nodeIdGreater`, the tie-breaker of two bearers that discover each other.
- `MC*.tla` give the constants their small values; `*_proofs.tla` hold the theorems.

Definitions marked `\* mutant` are slips a maintainer could make; each property of a passing run is
shown to fail when the operation after it is replaced by one.

## Runs

| configuration | instance | shows |
|---|---|---|
| `BearerHosts` | 2 host threads (symmetric), 2 bearers of one name, 1 local id each, 2 global ids | `RoutesAgree`, `NoStaleRoute`, `DisabledIsDark`, `OnePlace`, `ConsumerTracks`, `TypeOK` |
| `BearerSingleHost` | 1 host thread, the same bearers, reports during `register` allowed, fair | `Settled`, `DisableDarkens`, `LedgerSpec` with its liveness |
| `HandleNodes` | 3 threads that each call and close 2 nodes, calls 3 deep: callbacks of one thread cross between the nodes, those of another stay on their own, the third makes none; fair | freeing, exclusion, draining, `NoCircularWait`, `CallsEnd`, `CloseLeadsToFree` |
| `ReleaseRetries` | 1 run, 2 attempts of everything, 2 files; network, expiry and re-run faults | `AuthorizedOnly`, `ExactFiles`, `ReleasedIsDeployed`, `Resumable`, `SelectedBundle`, `TypeOK` |
| `ReleaseTags` | 2 tag pushes, 2 commits, one not a faithful export; re-runs; fair | `CurrentAtTag`, `AuthorizedOnly`, `Lands` |
| `NativeRun` | 2 groups, 2 authorising jobs, 3 attempts of CI and of the native run | `Authorized`, `FreshParts`, `Assembles`, `TypeOK` |
| `VersionBump` | a core crate, two crates on it, one third-party package, 3 versions; fair | `LocksAgree`, `OnlyMidRelease`, `RedForRangesOnly`, `BumpLands`, `TypeOK` |
| `PackageProof` | 2 ABIs, 9 bundles, 8 mirror commits, 3 hosts, 2 faults; fair | `ShipsBundle`, `ReleasesProven`, `ModesRestored`, `RetriesLand`, `TypeOK` |

Bounds. Two host threads suffice for the manager's races: each lock section involves one, and the third
party is the bearers' callbacks. Two bearers of one name make a loop that is interrupted half way; two
ids let a link come back under the same local id while the old id is still being closed. For the handle
a depth of three puts a close below, between and above active calls, and the third thread waits behind
two. `Reach` holds the one instance in which calls do end (`CallsEnd`, `CloseLeadsToFree`): with callbacks
that cross on two threads, closes included, the threads deadlock, as the locks of Hop.kt then do. For a release, two attempts distinguish "this attempt" from "the one that built". Three versions
allow a bump on top of one that is half published. Of the four ABIs two are enough for a slice that
disagrees with an earlier one, and two paths per tree (`Paths`) for modes changed half way; two faults
(`MaxFaults`) let an attempt leave something and a later one fail again. The bundles and mirror commits of
`MCPackageProof` hold one defect each, for every comparison the code makes. The theorems carry every
invariant of every run over to all sizes. `MaxLinks`, `MaxDepth`, `MaxCommits`,
`MaxRuns`, `MaxAttempts`, `MaxNative`, `MaxCI`, `MaxVersion`, `Paths` and `MaxFaults` are the only bounds on
behaviour. The release and native runs and a validation stop when nothing is left to do, so deadlock is
not checked there.

Fairness. In the manager, `Proceed` and `Sink` are weakly fair: a call under way goes on because calls
into bearers and the consumer return; nobody is obliged to open a call or to report. In the handle a
thread whose turn it is takes the lock (the fair lock's promise) and a native call returns: a native call
makes one callback per queued packet or message, so `Return` at each depth is strongly fair rather than
kept off for ever by new callbacks. In a release the jobs that are queued are run. For a bump, CI runs what
is pushed, a green pull request is merged and a crate that can be published is; nobody need propose or
withdraw one. A validation goes on and is tried again after it failed.

### What the code does not keep

Four configurations end in a counterexample; `PROJECT.json` quotes the text each contradicts.

- `BearerLateLinkUp`: `setEnabled(false)` promises that no new link surfaces once it returns. `up` mints
  under the lock and announces after it, so a thread paused in between announces a link that has already
  been torn down. The consumer then holds an id that will never be closed again. The ledger states what
  remains true: one announcement, one closing, in either order.
- `BearerStartRace`: `start()` snapshots the enabled bearers and starts them without looking again;
  `setEnabled(false)` on another thread in between is undone, although links stay refused
  (`DisabledIsDark` still holds, because `acceptsLinks` reads the name). `Settled` shows that one host
  thread is safe.
- `ReleaseTagOption`: `verify-provenance` requires `--tag`, which release.yml deliberately leaves out,
  so every release stops in the prepare job. `Required` is therefore a constant: the other release runs
  give it the list the workflow was written for, to show what the rest of the pipeline does then.
- `VersionBumpLayered`: verify_standalone_lock says that, where it tolerates a missing sibling, it asserts
  itself the agreement cargo would have proven. It does so for the siblings cargo named only. A crate with
  two siblings passes with a stale pin of the other, because cargo stopped at the first or because the
  other is on the registry. With one sibling per crate the promise holds (`LocksAgree`, proved). The
  layered crates of `MCVersionBump` are an example; no manifest of them is in this repository.
  The same gap lets main demand a version that nobody is about to publish: a sibling that cargo did not name
  is never compared with the version being released. TLC refutes `OnlyMidRelease`, too, on that instance.

## Proofs

The `*_proofs` modules are checked by TLAPS for all values of the constants under the named assumptions
of the modules they extend. Every invariant of the runs that pass is a theorem, and so are the action
property `ClosedOnlyDrains` and the safety part of `LedgerSpec`. Conditions beyond the constants' own
assumptions are hypotheses of the theorems:

| condition | theorems | why, and what happens without it |
|---|---|---|
| bearers announce a link once (`"reannounce" \notin Liberties`) | `NoStaleRoutes` | false otherwise: `up` overwrites `toGlobal` and leaves the first route |
| no liberties, or one host thread and no second announcement | `DisabledDark`; `OneHostDark` | with two threads a bearer that reports before it is in the list gets a route that a `setEnabled(false)` meanwhile does not see; one that announces twice has a route its tear-down leaves |
| one host thread (`Controller = {t}`) | `SettledAlways`, `OneHostStaysDown` | false with two: `BearerStartRace` |
| `OnePump`: callbacks lead from one node to another, to call or to close it, on at most one thread | `NeverCircular` | the host's to keep, as Smoke.kt's one thread does; two threads whose callbacks cross do deadlock, be it by a close |
| `SingleSibling`: no crate depends on two of ours | `LocksAgreeAlways`, `OnlyMidReleaseAlways`, `RedForRangesOnlyAlways` | false otherwise: `VersionBumpLayered` |
| `[]OneUpload`: no two runs upload at a time; implied by `MaxRuns = 1` | `ExactFilesHold`, `ReleasedIsDeployedHolds`; `OneRunDeploys` | the one staging repository mixes their files |
| `Source` is a tree of files | `MapBound`, `ReleasesProvenAlways`, `PackageTypesHold` | what `expected_export_tree` is given |
| `NoneApart`: `None` is no pair of fingerprints, slice or repository | `PackageTypesHold` | how a model value is used |

The manager (`BearerManager_proofs`).

- `TypeCorrect`: `TypeOK` alone is not inductive, since `DisableCall` and the sink calls use `cur` and `held`;
  `Typed` (`TypedAlways`) adds that a controller in those steps has a bearer in hand and a callback under way its id.
- `RoutesCorrect`: with `RoutesMinted` (only ids below `nextGlobal` are routed) a fresh id cannot
  collide, and `Forget` clears both maps for the same links.
- `NoStaleRoutes`: `RoutedIsOpen` (a routed link is one its bearer has open) excludes that `Up` overwrites a
  mapping. `DisabledDark`: its step lemma says that every route belongs to a registered bearer, so a
  `Disable` finds it among its matches and the tear-down has it in `todo` or `cur`. For `OneHostDark` a
  routed bearer may also be in the hand of the thread that registers it (`RoutedIsKnown`), which then does
  not disable.
- `ImplementsLedger`: each step maps to a ledger step or a stutter. `HandsDisjoint` says that an id being
  closed is in one hand only, neither routed nor closed, and is what makes `Close` and `Retire` exact.
- `OnePlaceAlways` counts: `HandsDisjoint` gives at most one place per id and at most one thread about to
  close it (`OneCloser`), `NoneLost` at least one. `NoneLost` needs `OrphansAtNotify`: a thread that opens a
  new call would otherwise drop what it still owes. It holds with bearers that announce a link twice,
  since a stale route is a place too.
- `ConsumerTracksAlways`: a link is in the consumer's table only once announced, and a route that is
  not there is in the hand of the callback that announces it (`TableAnnounced`, `RoutedAnnounced`).
- `SettledAlways` by `Books`: a mark is written before the call it announces (`MarkedFirst`), what a call
  has already written is what it goes on to bring about (`Purpose`), and a bearer told otherwise than the
  settings say is among those the call has left to visit (`Pending`). `OneHostStaysDown` follows.

The handle (`NativeHandle_proofs`). `HandleInvariant` is one inductive invariant: the lock's owner and hold
count (`LockCounts`) count exactly the active frames of the owner on that node (`InsideOwned`), the ranks
of active frames grow along the stack (`RanksGrow`) and fill 1..activeCalls (`RanksFilled`), only the top
frame waits (`TopWaits`), and a handle has been freed exactly if it is closed and idle (`FreedOnce`).
From it follow `HandleTypes`, `NeverUsedFreed`, `OneThreadInside`, `NoLeak` and `ClosedDrains`.
`NeverCircular` adds `OneNodeEach` (on a thread whose callbacks do not cross, all frames are of one node): a
thread that holds one lock while it waits for another crosses (`HolderCrosses`), and a ring of waiting
threads has two such threads next to each other. The other theorems hold for every `Reach`.

A release (`Release_proofs`). `Types` is `TypeOK` with what a run has on its runner at each step.

- `AuthorizedOnlyHolds` and `CurrentAtTagHolds` by `Admission`: what a run has passed at its step
  (`VettedByStep`) stays true of the past however the world moves on, because the facts it rests on are
  remembered by events that cannot be undone (`GreenCI`; `PushedFirst`, main only grows), and it is handed
  on to the workflow's inputs, the built artifacts, the staging repository and the deployments.
- `ExactFilesHold` and `ReleasedIsDeployedHolds` by `Deployments`: a run that uploads has staged its own
  artifact wherever it is no longer due (`StagedSoFar`), which another run's upload would undo.
- `SelectedBundleHolds` by `Selection`: job outputs name an attempt only once the job is past (`Named`), and
  what the present attempt uploaded is what they name (`CurrentNamed`), so what a runner downloads and hands
  on is that attempt's (`HeldSelected`, `InputSelected`) whatever older attempts left.
- `ResumableHolds` by `Resumption`: the attempt that the job outputs name is the newest that has an
  artifact (`InputLatest`, `BuildLatest`) and no artifact is from an attempt to come (`NoneAhead`).

A native run (`NativeRun_proofs`). `NativeInv` holds `Authorization`, what the watch, the lookup and the
jobs' list have established by each step although CI may be re-run in between, and `Assembly`, where
`ran` is the attempt of a group's last job: no partial is newer, and a job that succeeded left one of that
attempt (`RanNewest`, `SuccessUploads`), so that `Select` finds what that job uploaded.

A version bump (`VersionBump_proofs`). With one sibling per crate, the requirement that cargo named is the
only one to compare (`ToleratedSibling`): a tolerated crate's sibling is demanded and pinned at the anchor.
Hence a green pull request agrees and demands only what is published or being released, and so does main
(`MergedSound`), because the registry only grows: `LocksAgreeAlways` and `OnlyMidReleaseAlways`.
`RedForRangesOnlyAlways` adds `MergedLocked`: with everything of ours in order, only a third-party range is
left to fail.

The export and the package (`Export_proofs`, `PackageProof_proofs`).

- `MapBound`: an accepted mirror commit equals `Canonical`, the export under the monorepo's map. Every
  export carries components.json from the monorepo, under its own name and unedited (`CarriesFile`), and no
  two files to one place, so the map read from the mirror is the one compared a moment later.
- `ShipsBundleAlways` by `BuildInv`: up to the ABI build-aar.sh is at, each slice is the listed one and its
  header the first's (`LoopTakes`, `LoopSigned`), whatever the directories held before. `ReleasesProvenAlways`
  adds `CheckoutInv` (in CI the export is an accepted commit until the consumer runs, and again once the
  fingerprints agree) and `MapBound`. `ModesRestoredAlways` is inductive as it stands.
- `PackageTypesHold` by `PackageTypes`: an export always has a header (`CarriesFile` again, and
  `MirrorsAssumption` for the commits CI is given), what is unpacked is what bundles list
  (`BundlesAssumption`), and with `BuildInv` the repository has a slice for every ABI.

The tie-breaker (`Transport_proofs`). `NotBothDial` and `OneDials`: exactly one of two peers with different
ids dials. `FirstDifference` takes the least index at which the ids differ from the well-foundedness of the
naturals.

Only model-checked: liveness (`DisableDarkens`, `LedgerSpec` beyond its safety part, `CallsEnd`,
`CloseLeadsToFree`, `Lands`, `BumpLands`, `RetriesLand`), which is beyond this prover, and the four
counterexamples. The ledger's liveness is checked with one host thread; that the manager keeps its safety
with any number of threads, and with bearers that announce a link twice, is `ImplementsLedger`.

## Not modelled

- The inside of libhop (only its header is here), and with it the durable inbox, service polling and the
  relay pool: the wrapper's part is one native call each, whose locking and reentrancy `NativeHandle` has.
  That items repeat until accepted is a promise of libhop's, and a model of it would be of code that is not
  here. `HopAddress`, `require32` and the conversions of a status are pure one-liners.
- A consumer's sink that throws. `HopRuntime` passes `linkDown` into a node that may be closed, which cuts a
  tear-down short; in `BearerManager` the sink returns normally.
- Key material, signing and hashing; the text of manifests and archives (archive_entries' checks of paths
  are taken as part of what an artifact must equal); Gradle's work; the packages of other platforms
  (Go, Elixir, Apple, embedded) that package-export-smoke.py also validates; paging through GitHub's API
  and unpacking the source archive.
- Cargo's resolution of third-party ranges (a third-party requirement is exact here), and the build
  dependencies that the Elixir export vendors.
- A consumer that deletes paths of the trees it is given, or a kill during the proof: `restore_tree_modes`
  then raises or never runs.
- Two runs of one version that publish at once share a staging repository whose way of separating uploads
  the repository does not state, so `ExactFiles` is checked and proved for one uploading run at a time.

## Plan

1. done: `BearerManager`, `LinkLedger`, `NativeHandle`, `Release`, `NativeRun`, `VersionBump`, `Export`,
   `PackageProof`, `Transport` with their runs.
2. done: proofs of all invariants the passing runs check.
3. `Runtime`: `HopRuntime` over `BearerManager` and `NativeHandle`, link events against a closing node.
4. `NativeRun`'s bundles as those that `Release` and `PackageProof` take as given (a refinement), and
   `Faithful` of `Release` as `Accepts` of `Export`.
