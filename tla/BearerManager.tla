---------------------------- MODULE BearerManager ----------------------------
(***************************************************************************)
(* The registry and multiplexer of src/main/kotlin/sh/hop/Bearers.kt.      *)
(*                                                                         *)
(* Two kinds of sequential activity interleave.  A controller is a host    *)
(* thread inside one call of the manager's API (register, setEnabled,      *)
(* start, stop, send).  A link <<b, l>> is bearer b's connection with      *)
(* local id l, whose callbacks (linkUp, linkBytes, linkDown) the bearer    *)
(* runs one at a time.  Every step is one critical section of the          *)
(* manager's lock, or one call out of the manager made with the lock       *)
(* released: into a bearer (start, stop, send) or into the consumer's      *)
(* sink (linkUp, linkBytes, linkDown).                                     *)
(***************************************************************************)
EXTENDS Integers, Sequences, FiniteSets

CONSTANTS
  Bearer,      \* bearer objects; each is registered at most once
  Local,       \* local link ids a bearer may use
  Controller,  \* host threads
  NameOf,      \* transportName of each bearer
  BaseLinkId,  \* the constructor's baseLinkId
  MaxLinks,    \* bound: how many global ids a behaviour may mint
  Liberties,   \* departures from the Bearer contract this instance allows
  None         \* null

Name == {NameOf[b] : b \in Bearer}
Link == Bearer \X Local
Global == BaseLinkId .. (BaseLinkId + MaxLinks - 1)

ASSUME BoundsAssumption == BaseLinkId \in Nat /\ MaxLinks \in Nat
ASSUME NameAssumption == NameOf \in [Bearer -> Name]
(* "reannounce": linkUp for a local id that is already up, as              *)
(* Smoke.kt's LoopbackBearer does when it is started twice.                *)
(* "early": callbacks between the two halves of register().                *)
ASSUME LibertiesAssumption == Liberties \subseteq {"reannounce", "early"}
ASSUME NoneAssumption ==
  None \notin Bearer /\ None \notin Link /\ None \notin Global /\ None \notin Name

VARIABLES
  \* the manager's fields
  bearers, disabledNames, stoppedBearers, started,
  nextGlobal, toGlobal, fromGlobal,
  \* the bearers: lanes attached, links each believes open, last start/stop call received
  attached, open, driven,
  \* a controller's call: where it is, its argument, bearers still to visit,
  \* the bearer being visited, linkDowns still to deliver, the route of a send
  pc, name, todo, cur, orphans, route,
  \* a link's callback: which one, and the global id it carries
  callback, held,
  \* the consumer: links it holds; history of linkUp, linkDown received
  table, upped, downed,
  \* history: names whose setEnabled(false) returned with no enabling call since
  quiet

registry == <<bearers, attached>>
enablement == <<disabledNames, stoppedBearers, started, quiet>>
links == <<nextGlobal, toGlobal, fromGlobal>>
control == <<pc, name, todo, cur, orphans, route>>
reports == <<open, callback, held>>
consumer == <<table, upped, downed>>
vars == <<registry, enablement, links, driven, control, reports, consumer>>

Registered == {bearers[i] : i \in DOMAIN bearers}

(* The bearers setEnabled(n, _) addresses. *)
FirstMatch(n) == {b \in Registered : NameOf[b] = n /\ b = bearers[1]}  \* mutant
Matches(n) == {b \in Registered : NameOf[b] = n}

AcceptsUnlessStopped(b) == b \notin stoppedBearers  \* mutant
AcceptsLinks(b) == NameOf[b] \notin disabledNames /\ b \notin stoppedBearers

(* Enabled bearers: what start() starts. *)
EveryBearer == Registered  \* mutant
Live == {b \in Registered : NameOf[b] \notin disabledNames}

(* The global ids bearer b's links go by. *)
NoLinks(b) == {}  \* mutant
LinksOrNull(b) == {toGlobal[<<b, l>>] : l \in Local}  \* mutant
LinksOf(b) == {toGlobal[<<b, l>>] : l \in Local} \ {None}

(* Both maps forget the links K, whichever of them are mapped. *)
ForgetLocals(K) ==  \* mutant
  /\ toGlobal' = [k \in Link |-> IF k \in K THEN None ELSE toGlobal[k]]
  /\ UNCHANGED fromGlobal
ForgetRoutes(K) ==  \* mutant
  /\ fromGlobal' = [g \in Global |->
                      IF \E k \in K : toGlobal[k] = g THEN None ELSE fromGlobal[g]]
  /\ UNCHANGED toGlobal
Forget(K) ==
  /\ toGlobal' = [k \in Link |-> IF k \in K THEN None ELSE toGlobal[k]]
  /\ fromGlobal' = [g \in Global |->
                      IF \E k \in K : toGlobal[k] = g THEN None ELSE fromGlobal[g]]

(* A fresh id for link k, in both maps. *)
MintSame(k) ==  \* mutant
  /\ nextGlobal' = BaseLinkId + 1
  /\ toGlobal' = [toGlobal EXCEPT ![k] = BaseLinkId]
  /\ fromGlobal' = [fromGlobal EXCEPT ![BaseLinkId] = k]
Mint(k) ==
  /\ nextGlobal' = nextGlobal + 1
  /\ toGlobal' = [toGlobal EXCEPT ![k] = nextGlobal]
  /\ fromGlobal' = [fromGlobal EXCEPT ![nextGlobal] = k]

(* The bearer a forEach over S visits next: registration order. *)
IsNext(b, S) ==
  LET Position(c) == CHOOSE i \in DOMAIN bearers : bearers[i] = c
  IN  b \in S /\ \A c \in S : Position(b) <= Position(c)

Init ==
  /\ bearers = <<>> /\ attached = {}
  /\ disabledNames = {} /\ stoppedBearers = {} /\ started = FALSE /\ quiet = {}
  /\ nextGlobal = BaseLinkId
  /\ toGlobal = [k \in Link |-> None]
  /\ fromGlobal = [g \in Global |-> None]
  /\ driven = [b \in Bearer |-> "never"]
  /\ pc = [t \in Controller |-> "idle"]
  /\ name = [t \in Controller |-> None]
  /\ todo = [t \in Controller |-> {}]
  /\ cur = [t \in Controller |-> None]
  /\ orphans = [t \in Controller |-> {}]
  /\ route = [t \in Controller |-> None]
  /\ open = {}
  /\ callback = [k \in Link |-> "none"]
  /\ held = [k \in Link |-> None]
  /\ table = {} /\ upped = {} /\ downed = {}

-----------------------------------------------------------------------------
(* register(): the lane is attached first, the lists grow under the lock. *)

RegisterAttach(t, b) ==
  /\ pc[t] = "idle" /\ b \notin attached
  /\ attached' = attached \cup {b}
  /\ pc' = [pc EXCEPT ![t] = "register"]
  /\ cur' = [cur EXCEPT ![t] = b]
  /\ UNCHANGED <<bearers, enablement, links, driven, name, todo, orphans, route,
                 reports, consumer>>

RegisterAdd(t) ==
  /\ pc[t] = "register"
  /\ bearers' = Append(bearers, cur[t])
  /\ pc' = [pc EXCEPT ![t] = "idle"]
  /\ cur' = [cur EXCEPT ![t] = None]
  /\ UNCHANGED <<attached, enablement, links, driven, name, todo, orphans, route,
                 reports, consumer>>

-----------------------------------------------------------------------------
(* setEnabled(n, false). *)

Disable(t, n) ==
  /\ pc[t] = "idle" /\ n \notin disabledNames
  /\ disabledNames' = disabledNames \cup {n}
  /\ pc' = [pc EXCEPT ![t] = "disable"]
  /\ name' = [name EXCEPT ![t] = n]
  /\ todo' = [todo EXCEPT ![t] = Matches(n)]
  /\ UNCHANGED <<registry, stoppedBearers, started, quiet, links, driven,
                 cur, orphans, route, reports, consumer>>

(* Idempotent: a name already disabled returns at once, even while the     *)
(* call that disabled it is still at work.                                 *)
DisableAgain(t, n) ==
  /\ pc[t] = "idle" /\ n \in disabledNames
  /\ quiet' = quiet \cup {n}
  /\ UNCHANGED <<registry, disabledNames, stoppedBearers, started, links, driven,
                 control, reports, consumer>>

(* doStop marks the bearer under the lock, then calls it. *)
DisableMark(t, b) ==
  /\ pc[t] = "disable" /\ IsNext(b, todo[t])
  /\ stoppedBearers' = stoppedBearers \cup {b}
  /\ pc' = [pc EXCEPT ![t] = "disableCall"]
  /\ todo' = [todo EXCEPT ![t] = @ \ {b}]
  /\ cur' = [cur EXCEPT ![t] = b]
  /\ UNCHANGED <<registry, disabledNames, started, quiet, links, driven,
                 name, orphans, route, reports, consumer>>

DisableCall(t) ==
  /\ pc[t] = "disableCall"
  /\ driven' = [driven EXCEPT ![cur[t]] = "stop"]
  /\ pc' = [pc EXCEPT ![t] = "teardown"]
  /\ UNCHANGED <<registry, enablement, links, name, todo, cur, orphans, route,
                 reports, consumer>>

TearDown(t) ==
  /\ pc[t] = "teardown"
  /\ Forget({cur[t]} \X Local)
  /\ orphans' = [orphans EXCEPT ![t] = LinksOf(cur[t])]
  /\ cur' = [cur EXCEPT ![t] = None]
  /\ pc' = [pc EXCEPT ![t] = "notify"]
  /\ UNCHANGED <<registry, enablement, nextGlobal, driven, name, todo, route,
                 reports, consumer>>

(* The sink learns of the orphans in ascending order. *)
NotifyDown(t, g) ==
  /\ pc[t] = "notify" /\ g \in orphans[t]
  /\ \A h \in orphans[t] : g <= h
  /\ orphans' = [orphans EXCEPT ![t] = @ \ {g}]
  /\ table' = table \ {g}
  /\ downed' = downed \cup {g}
  /\ UNCHANGED <<registry, enablement, links, driven, pc, name, todo, cur, route,
                 reports, upped>>

NotifyDone(t) ==
  /\ pc[t] = "notify" /\ orphans[t] = {}
  /\ pc' = [pc EXCEPT ![t] = "disable"]
  /\ UNCHANGED <<registry, enablement, links, driven, name, todo, cur, orphans, route,
                 reports, consumer>>

DisableReturn(t) ==
  /\ pc[t] = "disable" /\ todo[t] = {}
  /\ quiet' = quiet \cup ({name[t]} \cap disabledNames)
  /\ pc' = [pc EXCEPT ![t] = "idle"]
  /\ name' = [name EXCEPT ![t] = None]
  /\ UNCHANGED <<registry, disabledNames, stoppedBearers, started, links, driven,
                 todo, cur, orphans, route, reports, consumer>>

-----------------------------------------------------------------------------
(* setEnabled(n, true) and start() end in the same loop of doStart. *)

Enable(t, n) ==
  /\ pc[t] = "idle" /\ n \in disabledNames
  /\ disabledNames' = disabledNames \ {n}
  /\ quiet' = quiet \ {n}
  /\ pc' = [pc EXCEPT ![t] = "start"]
  /\ todo' = [todo EXCEPT ![t] = IF started THEN Matches(n) ELSE {}]
  /\ UNCHANGED <<registry, stoppedBearers, started, links, driven, name, cur,
                 orphans, route, reports, consumer>>

Start(t) ==
  /\ pc[t] = "idle"
  /\ started' = TRUE
  /\ pc' = [pc EXCEPT ![t] = "start"]
  /\ todo' = [todo EXCEPT ![t] = Live]
  /\ UNCHANGED <<registry, disabledNames, stoppedBearers, quiet, links, driven, name,
                 cur, orphans, route, reports, consumer>>

StartMark(t, b) ==
  /\ pc[t] = "start" /\ IsNext(b, todo[t])
  /\ stoppedBearers' = stoppedBearers \ {b}
  /\ pc' = [pc EXCEPT ![t] = "startCall"]
  /\ todo' = [todo EXCEPT ![t] = @ \ {b}]
  /\ cur' = [cur EXCEPT ![t] = b]
  /\ UNCHANGED <<registry, disabledNames, started, quiet, links, driven,
                 name, orphans, route, reports, consumer>>

StartCall(t) ==
  /\ pc[t] = "startCall"
  /\ driven' = [driven EXCEPT ![cur[t]] = "start"]
  /\ pc' = [pc EXCEPT ![t] = "start"]
  /\ cur' = [cur EXCEPT ![t] = None]
  /\ UNCHANGED <<registry, enablement, links, name, todo, orphans, route,
                 reports, consumer>>

-----------------------------------------------------------------------------
(* stop(): two critical sections, then doStop on every registered bearer. *)

Stop(t) ==
  /\ pc[t] = "idle"
  /\ started' = FALSE
  /\ pc' = [pc EXCEPT ![t] = "snapshot"]
  /\ UNCHANGED <<registry, disabledNames, stoppedBearers, quiet, links, driven,
                 name, todo, cur, orphans, route, reports, consumer>>

StopSnapshot(t) ==
  /\ pc[t] = "snapshot"
  /\ pc' = [pc EXCEPT ![t] = "stop"]
  /\ todo' = [todo EXCEPT ![t] = Registered]
  /\ UNCHANGED <<registry, enablement, links, driven, name, cur, orphans, route,
                 reports, consumer>>

StopMark(t, b) ==
  /\ pc[t] = "stop" /\ IsNext(b, todo[t])
  /\ stoppedBearers' = stoppedBearers \cup {b}
  /\ pc' = [pc EXCEPT ![t] = "stopCall"]
  /\ todo' = [todo EXCEPT ![t] = @ \ {b}]
  /\ cur' = [cur EXCEPT ![t] = b]
  /\ UNCHANGED <<registry, disabledNames, started, quiet, links, driven,
                 name, orphans, route, reports, consumer>>

StopCall(t) ==
  /\ pc[t] = "stopCall"
  /\ driven' = [driven EXCEPT ![cur[t]] = "stop"]
  /\ pc' = [pc EXCEPT ![t] = "stop"]
  /\ cur' = [cur EXCEPT ![t] = None]
  /\ UNCHANGED <<registry, enablement, links, name, todo, orphans, route,
                 reports, consumer>>

LoopReturn(t) ==
  /\ pc[t] \in {"start", "stop"} /\ todo[t] = {}
  /\ pc' = [pc EXCEPT ![t] = "idle"]
  /\ UNCHANGED <<registry, enablement, links, driven, name, todo, cur, orphans, route,
                 reports, consumer>>

-----------------------------------------------------------------------------
(* send(): the consumer sends on a link it holds; a link with no route is  *)
(* dropped, and the route is used after the lock is released.              *)

Send(t, g) ==
  /\ pc[t] = "idle" /\ g \in table /\ fromGlobal[g] # None
  /\ pc' = [pc EXCEPT ![t] = "send"]
  /\ route' = [route EXCEPT ![t] = fromGlobal[g]]
  /\ UNCHANGED <<registry, enablement, links, driven, name, todo, cur, orphans,
                 reports, consumer>>

SendCall(t) ==
  /\ pc[t] = "send"
  /\ pc' = [pc EXCEPT ![t] = "idle"]
  /\ route' = [route EXCEPT ![t] = None]
  /\ UNCHANGED <<registry, enablement, links, driven, name, todo, cur, orphans,
                 reports, consumer>>

-----------------------------------------------------------------------------
(* The lane: what a bearer reports, at any time after it is registered and *)
(* whether or not the manager has started or stopped it.                   *)

MayReport(k) ==
  /\ callback[k] = "none"
  /\ k[1] \in (IF "early" \in Liberties THEN attached ELSE Registered)
MayAnnounce(k) ==
  /\ MayReport(k)
  /\ k \notin open \/ "reannounce" \in Liberties

Up(k) ==
  /\ MayAnnounce(k) /\ AcceptsLinks(k[1])
  /\ nextGlobal \in Global
  /\ Mint(k)
  /\ open' = open \cup {k}
  /\ callback' = [callback EXCEPT ![k] = "up"]
  /\ held' = [held EXCEPT ![k] = nextGlobal]
  /\ UNCHANGED <<registry, enablement, driven, control, consumer>>

UpRefused(k) ==
  /\ MayAnnounce(k) /\ ~AcceptsLinks(k[1])
  /\ open' = open \cup {k}
  /\ UNCHANGED <<registry, enablement, links, driven, control, callback, held, consumer>>

Bytes(k) ==
  /\ MayReport(k) /\ k \in open /\ toGlobal[k] # None
  /\ callback' = [callback EXCEPT ![k] = "bytes"]
  /\ held' = [held EXCEPT ![k] = toGlobal[k]]
  /\ UNCHANGED <<registry, enablement, links, driven, control, open, consumer>>

Down(k) ==
  /\ MayReport(k) /\ k \in open
  /\ open' = open \ {k}
  /\ Forget({k})
  /\ IF toGlobal[k] = None
     THEN UNCHANGED <<callback, held>>
     ELSE /\ callback' = [callback EXCEPT ![k] = "down"]
          /\ held' = [held EXCEPT ![k] = toGlobal[k]]
  /\ UNCHANGED <<registry, enablement, nextGlobal, driven, control, consumer>>

(* The call into the sink that ends each callback. *)
EndCallback(k) ==
  /\ callback' = [callback EXCEPT ![k] = "none"]
  /\ held' = [held EXCEPT ![k] = None]
  /\ UNCHANGED <<registry, enablement, links, driven, control, open>>

SinkUp(k) ==
  /\ callback[k] = "up"
  /\ table' = table \cup {held[k]}
  /\ upped' = upped \cup {held[k]}
  /\ UNCHANGED downed
  /\ EndCallback(k)

SinkBytes(k) ==
  /\ callback[k] = "bytes"
  /\ UNCHANGED consumer
  /\ EndCallback(k)

SinkDown(k) ==
  /\ callback[k] = "down"
  /\ table' = table \ {held[k]}
  /\ downed' = downed \cup {held[k]}
  /\ UNCHANGED upped
  /\ EndCallback(k)

-----------------------------------------------------------------------------
(* A host thread opens a call when it likes; once inside, it goes on. *)
Open(t) ==
  \/ \E b \in Bearer : RegisterAttach(t, b)
  \/ \E n \in Name : Disable(t, n) \/ DisableAgain(t, n) \/ Enable(t, n)
  \/ Start(t) \/ Stop(t)
  \/ \E g \in Global : Send(t, g)

Proceed(t) ==
  \/ RegisterAdd(t) \/ DisableCall(t) \/ TearDown(t) \/ NotifyDone(t) \/ DisableReturn(t)
  \/ StartCall(t) \/ StopSnapshot(t) \/ StopCall(t) \/ LoopReturn(t) \/ SendCall(t)
  \/ \E b \in Bearer : DisableMark(t, b) \/ StartMark(t, b) \/ StopMark(t, b)
  \/ \E g \in Global : NotifyDown(t, g)

Report(k) == Up(k) \/ UpRefused(k) \/ Bytes(k) \/ Down(k)
Sink(k) == SinkUp(k) \/ SinkBytes(k) \/ SinkDown(k)

Next ==
  \/ \E t \in Controller : Open(t) \/ Proceed(t)
  \/ \E k \in Link : Report(k) \/ Sink(k)

Spec == Init /\ [][Next]_vars

(* Calls into bearers and the sink return, so a call under way goes on;    *)
(* nothing obliges a host to open a call or a bearer to report.            *)
Fairness ==
  /\ \A t \in Controller : WF_vars(Proceed(t))
  /\ \A k \in Link : WF_vars(Sink(k))
FairSpec == Spec /\ Fairness
-----------------------------------------------------------------------------
(* Properties *)

PC == {"idle", "register", "disable", "disableCall", "teardown", "notify",
       "start", "startCall", "snapshot", "stop", "stopCall", "send"}

RegistryOK ==
  /\ bearers \in Seq(Bearer) /\ attached \subseteq Bearer
  /\ disabledNames \subseteq Name /\ quiet \subseteq Name
  /\ stoppedBearers \subseteq Bearer /\ started \in BOOLEAN
  /\ driven \in [Bearer -> {"never", "start", "stop"}]
LinksOK ==
  /\ nextGlobal \in Nat /\ BaseLinkId <= nextGlobal /\ nextGlobal <= BaseLinkId + MaxLinks
  /\ toGlobal \in [Link -> Global \cup {None}]
  /\ fromGlobal \in [Global -> Link \cup {None}]
ControlOK ==
  /\ pc \in [Controller -> PC]
  /\ name \in [Controller -> Name \cup {None}]
  /\ todo \in [Controller -> SUBSET Bearer]
  /\ cur \in [Controller -> Bearer \cup {None}]
  /\ orphans \in [Controller -> SUBSET Global]
  /\ route \in [Controller -> Link \cup {None}]
ReportsOK ==
  /\ open \subseteq Link
  /\ callback \in [Link -> {"none", "up", "bytes", "down"}]
  /\ held \in [Link -> Global \cup {None}]
  /\ table \subseteq Global /\ upped \subseteq Global /\ downed \subseteq Global

(* Every variable has its type: ids in the minted range, at most one       *)
(* bearer, route or callback in each hand.                                 *)
TypeOK == RegistryOK /\ LinksOK /\ ControlOK /\ ReportsOK

(* A local id that maps to a global id is what that id routes back to, so  *)
(* send() on the id a bearer's bytes arrived under returns to that bearer  *)
(* and that link.                                                          *)
RoutesAgree == \A k \in Link : toGlobal[k] # None => fromGlobal[toGlobal[k]] = k

(* Conversely no id routes to a link that has forgotten it: closing the    *)
(* link, or its bearer, removes every route to it.  Only for bearers that  *)
(* do not announce a link twice.                                           *)
NoStaleRoute == \A g \in Global : fromGlobal[g] # None => toGlobal[fromGlobal[g]] = g

(* activeTransports() counts these; bearerStates() reports the name off.   *)
ActiveLinks(n) == {g \in Global : fromGlobal[g] # None /\ NameOf[fromGlobal[g][1]] = n}

(* Host thread t is disabling a transport and has yet to tear down b. *)
WillTearDown(t, b) ==
  /\ pc[t] \in {"disable", "disableCall", "teardown", "notify"}
  /\ b \in todo[t] \cup {cur[t]}

(* activeTransports() and bearerStates() do not disagree: a link of a      *)
(* disabled transport has a route only while the setEnabled(false) that    *)
(* disabled it has yet to tear its bearer down.                            *)
DisabledIsDark ==
  \A n \in disabledNames : \A g \in ActiveLinks(n) :
    \E t \in Controller : WillTearDown(t, fromGlobal[g][1])

(* Who is about to deliver linkDown(g). *)
Closers(g) ==
  {t \in Controller : g \in orphans[t]}
    \cup {k \in Link : callback[k] = "down" /\ held[k] = g}

(* Every minted id is in exactly one place: routed, in the hands of        *)
(* exactly one thread about to deliver its linkDown, or closed.  A bearer  *)
(* reporting linkDown while the host disables its transport neither loses  *)
(* the linkDown nor doubles it.                                            *)
OnePlace ==
  \A g \in Global :
    Cardinality(Closers(g))
      + (IF fromGlobal[g] # None THEN 1 ELSE 0) + (IF g \in downed THEN 1 ELSE 0)
    = (IF g < nextGlobal THEN 1 ELSE 0)

(* The consumer's link table follows the routes: a routed link it does not *)
(* hold is about to be announced, and a link it holds without a route is   *)
(* about to be closed, or has had its linkDown overtake its linkUp.        *)
ConsumerTracks ==
  \A g \in Global :
    /\ fromGlobal[g] # None /\ g \notin table =>
         callback[fromGlobal[g]] = "up" /\ held[fromGlobal[g]] = g
    /\ fromGlobal[g] = None /\ g \in table => Closers(g) # {} \/ g \in downed

(* A host of one thread, between calls: the manager's books say what its   *)
(* bearers were last told.  A bearer last told to start is enabled and the *)
(* manager started; one of an enabled transport is stopped only while the  *)
(* manager is; so no setting reverts over a stop/start cycle and no        *)
(* re-enabled transport stays muted.                                       *)
Settled ==
  (\A t \in Controller : pc[t] = "idle") =>
    \A b \in Registered :
      /\ b \in stoppedBearers <=> driven[b] = "stop"
      /\ driven[b] = "start" => b \in Live /\ started
      /\ driven[b] = "stop" => b \notin Live \/ ~started

(* Disabling a transport goes on to remove every route over it, unless it  *)
(* is enabled again first, however its bearers race the tear-down.         *)
DisableDarkens ==
  \A n \in Name : n \in disabledNames ~> (n \notin disabledNames \/ ActiveLinks(n) = {})

StageOf(g) ==
  IF g < nextGlobal
  THEN IF fromGlobal[g] # None THEN "routed" ELSE IF g \in downed THEN "closed" ELSE "closing"
  ELSE "unused"

Ledger == INSTANCE LinkLedger WITH
  stage <- [g \in Global |-> StageOf(g)], announced <- upped

(* The manager implements the ledger of ids: each minted once, announced   *)
(* once, and closed once after its route is gone; nothing is forgotten.    *)
LedgerSpec == Ledger!Spec

(* Bearers.kt:86-89 of setEnabled(false): the moment it returns, no bearer *)
(* under this name can surface a new link to the consumer.                 *)
NoLinkUpAfterDisable == [][\A k \in Link : SinkUp(k) => NameOf[k[1]] \notin quiet]_vars

(* Bearers.kt:141: a disabled transport must stay down across a stop/start *)
(* cycle.  Between calls, none was last told to start.                     *)
DisabledStaysDown ==
  (\A t \in Controller : pc[t] = "idle") =>
    \A b \in Registered : NameOf[b] \in disabledNames => driven[b] # "start"
=============================================================================
