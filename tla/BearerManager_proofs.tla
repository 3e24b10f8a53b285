------------------------ MODULE BearerManager_proofs ------------------------
(* Theorems about BearerManager for every set of bearers, names, host      *)
(* threads and links, and every bound on the ids minted.                   *)
EXTENDS BearerManager, FiniteSetTheorems, TLAPS

(* A call that acts on a bearer has one in hand, and between two bearers   *)
(* it has none; a callback under way carries a global id.                  *)
BearerInHand ==
  \A t \in Controller :
    IF pc[t] \in {"register", "disableCall", "teardown", "startCall", "stopCall"}
    THEN cur[t] \in Bearer
    ELSE cur[t] = None
IdInHand == \A k \in Link : callback[k] # "none" => held[k] \in Global

LEMMA RegistryStep == TypeOK /\ BearerInHand /\ [Next]_vars => RegistryOK'
<1> SUFFICES ASSUME TypeOK, BearerInHand, [Next]_vars PROVE RegistryOK'
  OBVIOUS
<1> USE DEF TypeOK, RegistryOK, registry, enablement, Name
<1>1. ASSUME NEW t \in Controller, Open(t) PROVE RegistryOK'
  BY <1>1 DEF Open, RegisterAttach, Disable, DisableAgain, Enable, Start, Stop, Send
<1>2. ASSUME NEW t \in Controller, Proceed(t) PROVE RegistryOK'
  <2>1. CASE RegisterAdd(t)
    BY <2>1 DEF RegisterAdd, BearerInHand
  <2>2. CASE DisableCall(t) \/ StartCall(t) \/ StopCall(t)
    BY <2>2 DEF DisableCall, StartCall, StopCall, BearerInHand
  <2>3. CASE \E b \in Bearer : DisableMark(t, b) \/ StartMark(t, b) \/ StopMark(t, b)
    BY <2>3 DEF DisableMark, StartMark, StopMark
  <2>4. CASE \/ TearDown(t) \/ NotifyDone(t) \/ DisableReturn(t) \/ StopSnapshot(t)
             \/ LoopReturn(t) \/ SendCall(t) \/ \E g \in Global : NotifyDown(t, g)
    BY <2>4 DEF TearDown, NotifyDone, DisableReturn, StopSnapshot, LoopReturn, SendCall,
                NotifyDown
  <2>5. QED
    BY <1>2, <2>1, <2>2, <2>3, <2>4 DEF Proceed
<1>3. ASSUME NEW k \in Link, Report(k) \/ Sink(k) PROVE RegistryOK'
  BY <1>3 DEF Report, Sink, Up, UpRefused, Bytes, Down, SinkUp, SinkBytes, SinkDown,
              EndCallback
<1>4. CASE UNCHANGED vars
  BY <1>4 DEF vars
<1>5. QED
  BY <1>1, <1>2, <1>3, <1>4 DEF Next

(* Only three critical sections write the maps. *)
LEMMA LinkWriters ==
  ASSUME [Next]_vars
  PROVE  \/ \E t \in Controller : TearDown(t)
         \/ \E k \in Link : Up(k) \/ Down(k)
         \/ UNCHANGED links
<1>1. ASSUME NEW t \in Controller, Open(t) PROVE UNCHANGED links
  BY <1>1 DEF links, Open, RegisterAttach, Disable, DisableAgain, Enable, Start, Stop, Send
<1>2. ASSUME NEW t \in Controller, Proceed(t) PROVE TearDown(t) \/ UNCHANGED links
  BY <1>2 DEF links, Proceed, RegisterAdd, DisableCall, NotifyDone, DisableReturn, StartCall,
      StopSnapshot, StopCall, LoopReturn, SendCall, DisableMark, StartMark, StopMark, NotifyDown
<1>3. ASSUME NEW k \in Link, Report(k) \/ Sink(k) PROVE Up(k) \/ Down(k) \/ UNCHANGED links
  BY <1>3 DEF links, Report, Sink, UpRefused, Bytes, SinkUp, SinkBytes, SinkDown, EndCallback
<1>4. CASE UNCHANGED vars
  BY <1>4 DEF vars, links
<1>5. QED
  BY <1>1, <1>2, <1>3, <1>4 DEF Next

LEMMA LinksStep == TypeOK /\ [Next]_vars => LinksOK'
<1> SUFFICES ASSUME TypeOK, [Next]_vars PROVE LinksOK'
  OBVIOUS
<1> USE DEF TypeOK, LinksOK, links
<1>1. ASSUME NEW t \in Controller, TearDown(t) PROVE LinksOK'
  BY <1>1 DEF TearDown, Forget
<1>2. ASSUME NEW k \in Link, Up(k) PROVE LinksOK'
  BY <1>2, BoundsAssumption DEF Up, Mint, Global
<1>3. ASSUME NEW k \in Link, Down(k) PROVE LinksOK'
  BY <1>3 DEF Down, Forget
<1>4. CASE UNCHANGED links
  BY <1>4
<1>5. QED
  BY <1>1, <1>2, <1>3, <1>4, LinkWriters

LEMMA ControlStep ==
  TypeOK /\ BearerInHand /\ [Next]_vars => ControlOK' /\ BearerInHand'
<1> SUFFICES ASSUME TypeOK, BearerInHand, [Next]_vars PROVE ControlOK' /\ BearerInHand'
  OBVIOUS
<1> USE NoneAssumption DEF TypeOK, ControlOK, BearerInHand, PC, control
<1>1. ASSUME NEW t \in Controller, Open(t) PROVE ControlOK' /\ BearerInHand'
  <2>1. CASE \E b \in Bearer : RegisterAttach(t, b)
    BY <2>1 DEF RegisterAttach
  <2>2. CASE \E n \in Name : Disable(t, n) \/ DisableAgain(t, n) \/ Enable(t, n)
    BY <2>2 DEF Disable, DisableAgain, Enable, Matches, Registered, RegistryOK
  <2>3. CASE Start(t) \/ Stop(t)
    BY <2>3 DEF Start, Stop, Live, Registered, RegistryOK
  <2>4. CASE \E g \in Global : Send(t, g)
    BY <2>4 DEF Send, LinksOK
  <2>5. QED
    BY <1>1, <2>1, <2>2, <2>3, <2>4 DEF Open
<1>2. ASSUME NEW t \in Controller, Proceed(t) PROVE ControlOK' /\ BearerInHand'
  <2>1. CASE RegisterAdd(t) \/ NotifyDone(t) \/ DisableReturn(t) \/ LoopReturn(t)
    <3>1. ControlOK'
      BY <2>1 DEF RegisterAdd, NotifyDone, DisableReturn, LoopReturn
    <3>2. BearerInHand'
      BY <2>1 DEF RegisterAdd, NotifyDone, DisableReturn, LoopReturn
    <3>3. QED
      BY <3>1, <3>2
  <2>2. CASE DisableCall(t) \/ StartCall(t) \/ StopCall(t) \/ SendCall(t)
    <3>1. ControlOK'
      BY <2>2 DEF DisableCall, StartCall, StopCall, SendCall
    <3>2. BearerInHand'
      BY <2>2 DEF DisableCall, StartCall, StopCall, SendCall
    <3>3. QED
      BY <3>1, <3>2
  <2>3. CASE \E b \in Bearer : DisableMark(t, b) \/ StartMark(t, b) \/ StopMark(t, b)
    BY <2>3 DEF DisableMark, StartMark, StopMark
  <2>4. CASE TearDown(t)
    <3>1. cur[t] \in Bearer
      BY <2>4 DEF TearDown
    <3>2. \A l \in Local : toGlobal[<<cur[t], l>>] \in Global \cup {None}
      BY <3>1 DEF Link, LinksOK
    <3>3. LinksOf(cur[t]) \subseteq Global
      BY <3>2 DEF LinksOf
    <3>4. QED
      BY <2>4, <3>3 DEF TearDown
  <2>5. CASE \E g \in Global : NotifyDown(t, g)
    BY <2>5 DEF NotifyDown
  <2>6. CASE StopSnapshot(t)
    BY <2>6 DEF StopSnapshot, Registered, RegistryOK
  <2>7. QED
    BY <1>2, <2>1, <2>2, <2>3, <2>4, <2>5, <2>6 DEF Proceed
<1>3. ASSUME NEW k \in Link, Report(k) \/ Sink(k) PROVE ControlOK' /\ BearerInHand'
  BY <1>3 DEF Report, Sink, Up, UpRefused, Bytes, Down, SinkUp, SinkBytes, SinkDown,
              EndCallback
<1>4. CASE UNCHANGED vars
  BY <1>4 DEF vars
<1>5. QED
  BY <1>1, <1>2, <1>3, <1>4 DEF Next

LEMMA ReportsStep ==
  TypeOK /\ IdInHand /\ [Next]_vars => ReportsOK' /\ IdInHand'
<1> SUFFICES ASSUME TypeOK, IdInHand, [Next]_vars PROVE ReportsOK' /\ IdInHand'
  OBVIOUS
<1> USE DEF TypeOK, ReportsOK, IdInHand, reports, consumer
<1>1. ASSUME NEW k \in Link, Report(k) PROVE ReportsOK' /\ IdInHand'
  BY <1>1 DEF Report, Up, UpRefused, Bytes, Down, LinksOK
<1>2. ASSUME NEW k \in Link, Sink(k) PROVE ReportsOK' /\ IdInHand'
  BY <1>2 DEF Sink, SinkUp, SinkBytes, SinkDown, EndCallback
<1>3. ASSUME NEW t \in Controller, NEW g \in Global, NotifyDown(t, g)
      PROVE ReportsOK' /\ IdInHand'
  BY <1>3 DEF NotifyDown
<1>4. CASE UNCHANGED <<reports, consumer>>
  BY <1>4
<1>5. ASSUME NEW t \in Controller, Open(t) PROVE UNCHANGED <<reports, consumer>>
  BY <1>5 DEF Open, RegisterAttach, Disable, DisableAgain, Enable, Start, Stop, Send
<1>6. ASSUME NEW t \in Controller, Proceed(t)
      PROVE (\E g \in Global : NotifyDown(t, g)) \/ UNCHANGED <<reports, consumer>>
  BY <1>6 DEF Proceed, RegisterAdd, DisableCall, TearDown, NotifyDone, DisableReturn,
      StartCall, StopSnapshot, StopCall, LoopReturn, SendCall, DisableMark, StartMark, StopMark
<1>7. CASE UNCHANGED vars
  BY <1>7 DEF vars
<1>8. QED
  BY <1>1, <1>2, <1>3, <1>4, <1>5, <1>6, <1>7 DEF Next

Typed == TypeOK /\ BearerInHand /\ IdInHand

(* Every variable of every reachable state has its type, and no call or    *)
(* callback of the manager acts on a bearer or id it does not hold.        *)
LEMMA TypedAlways == Spec => []Typed
<1>1. Init => Typed
  <2> SUFFICES ASSUME Init PROVE Typed
    OBVIOUS
  <2> USE DEF Init
  <2>1. RegistryOK
    <3>1. bearers \in Seq(Bearer)
      OBVIOUS
    <3>2. QED
      BY <3>1 DEF RegistryOK
  <2>2. LinksOK
    BY BoundsAssumption DEF LinksOK
  <2>3. ControlOK
    BY DEF ControlOK, PC
  <2>4. ReportsOK
    BY DEF ReportsOK
  <2>5. BearerInHand /\ IdInHand
    BY DEF BearerInHand, IdInHand
  <2>6. QED
    BY <2>1, <2>2, <2>3, <2>4, <2>5 DEF Typed, TypeOK
<1>2. Typed /\ [Next]_vars => Typed'
  BY RegistryStep, LinksStep, ControlStep, ReportsStep DEF Typed, TypeOK
<1>3. QED
  BY <1>1, <1>2, PTL DEF Spec

(* Every variable of the manager has its type in every reachable state.    *)
THEOREM TypeCorrect == Spec => []TypeOK
BY TypedAlways, PTL DEF Typed

-----------------------------------------------------------------------------
(* The two maps. *)

RoutesMinted == \A g \in Global : fromGlobal[g] # None => g < nextGlobal

LEMMA ForgetAgrees ==
  ASSUME LinksOK, RoutesAgree, RoutesMinted, NEW K \in SUBSET Link, Forget(K),
         UNCHANGED nextGlobal
  PROVE  RoutesAgree' /\ RoutesMinted'
BY NoneAssumption DEF LinksOK, RoutesAgree, RoutesMinted, Forget

(* Whatever bearers report and hosts call, in any interleaving, and even   *)
(* of bearers that break the contract, a mapped local id and its global id *)
(* name each other: send() never reaches another link than the one the id  *)
(* was minted for.                                                         *)
THEOREM RoutesCorrect == Spec => [](RoutesAgree /\ RoutesMinted)
<1>1. Init => RoutesAgree /\ RoutesMinted
  BY DEF Init, RoutesAgree, RoutesMinted
<1>2. ASSUME Typed, RoutesAgree, RoutesMinted, [Next]_vars
      PROVE  RoutesAgree' /\ RoutesMinted'
  <2> USE <1>2 DEF Typed, TypeOK
  <2>1. ASSUME NEW t \in Controller, TearDown(t) PROVE RoutesAgree' /\ RoutesMinted'
    <3>1. cur[t] \in Bearer
      BY <2>1 DEF TearDown, BearerInHand
    <3>2. QED
      BY <2>1, <3>1, ForgetAgrees DEF TearDown, Link
  <2>2. ASSUME NEW k \in Link, Up(k) PROVE RoutesAgree' /\ RoutesMinted'
    BY <2>2, BoundsAssumption, NoneAssumption
    DEF Up, Mint, LinksOK, RoutesAgree, RoutesMinted, Global
  <2>3. ASSUME NEW k \in Link, Down(k) PROVE RoutesAgree' /\ RoutesMinted'
    BY <2>3, ForgetAgrees DEF Down
  <2>4. CASE UNCHANGED links
    BY <2>4 DEF links, RoutesAgree, RoutesMinted
  <2>5. QED
    BY <2>1, <2>2, <2>3, <2>4, LinkWriters
<1>3. QED
  BY <1>1, <1>2, TypedAlways, PTL DEF Spec

(* Host threads do not touch what bearers report. *)
LEMMA ControllersReport ==
  ASSUME NEW t \in Controller, Proceed(t)
  PROVE  UNCHANGED reports
BY DEF Proceed, RegisterAdd, DisableCall, TearDown, NotifyDone, DisableReturn, StartCall,
      StopSnapshot, StopCall, LoopReturn, SendCall, DisableMark, StartMark, StopMark, NotifyDown

(* A bearer that closes a link before announcing it again has a route only *)
(* for a link it believes open. *)
RoutedIsOpen == \A k \in Link : toGlobal[k] # None => k \in open

LEMMA OpenWriters ==
  ASSUME [Next]_vars
  PROVE  \/ \E k \in Link : Up(k) \/ Down(k)
         \/ \E k \in Link : UpRefused(k) /\ open' = open \cup {k}
         \/ UNCHANGED open
<1>1. ASSUME NEW t \in Controller, Open(t) PROVE UNCHANGED open
  BY <1>1 DEF reports, Open, RegisterAttach, Disable, DisableAgain, Enable, Start, Stop, Send
<1>2. ASSUME NEW t \in Controller, Proceed(t) PROVE UNCHANGED open
  BY <1>2, ControllersReport DEF reports
<1>3. ASSUME NEW k \in Link, Bytes(k) \/ Sink(k) PROVE UNCHANGED open
  BY <1>3 DEF Bytes, Sink, SinkUp, SinkBytes, SinkDown, EndCallback
<1>4. ASSUME NEW k \in Link, UpRefused(k) PROVE open' = open \cup {k}
  BY <1>4 DEF UpRefused
<1>5. CASE UNCHANGED vars
  BY <1>5 DEF vars, reports
<1>6. QED
  BY <1>1, <1>2, <1>3, <1>4, <1>5 DEF Next, Report

(* Of bearers that never announce an open link again, no route survives    *)
(* the link: every route leads to a link that knows its global id.         *)
THEOREM NoStaleRoutes ==
  ASSUME "reannounce" \notin Liberties
  PROVE  Spec => [](NoStaleRoute /\ RoutedIsOpen)
<1>1. Init => NoStaleRoute /\ RoutedIsOpen
  BY DEF Init, NoStaleRoute, RoutedIsOpen
<1>2. ASSUME Typed, RoutesAgree, RoutesMinted, NoStaleRoute, RoutedIsOpen, [Next]_vars
      PROVE  NoStaleRoute' /\ RoutedIsOpen'
  <2> USE <1>2 DEF Typed, TypeOK
  <2>1. ASSUME NEW t \in Controller, TearDown(t) PROVE NoStaleRoute' /\ RoutedIsOpen'
    <3>1. UNCHANGED open /\ Forget({cur[t]} \X Local)
      BY <2>1 DEF TearDown, reports
    <3>2. QED
      BY <3>1, NoneAssumption DEF Forget, LinksOK, NoStaleRoute, RoutedIsOpen
  <2>2. ASSUME NEW k \in Link, Up(k) PROVE NoStaleRoute' /\ RoutedIsOpen'
    <3>1. k \notin open /\ toGlobal[k] = None
      BY <2>2 DEF Up, MayAnnounce, RoutedIsOpen
    <3>2. QED
      BY <2>2, <3>1, NoneAssumption
      DEF Up, Mint, LinksOK, NoStaleRoute, RoutesMinted, RoutedIsOpen
  <2>3. ASSUME NEW k \in Link, Down(k) PROVE NoStaleRoute' /\ RoutedIsOpen'
    BY <2>3, NoneAssumption DEF Down, Forget, LinksOK, NoStaleRoute, RoutedIsOpen
  <2>4. CASE UNCHANGED links
    BY <2>4, OpenWriters, <2>2, <2>3 DEF links, NoStaleRoute, RoutedIsOpen
  <2>5. QED
    BY <2>1, <2>2, <2>3, <2>4, LinkWriters
<1>3. QED
  BY <1>1, <1>2, TypedAlways, RoutesCorrect, PTL DEF Spec
-----------------------------------------------------------------------------
(* Disabling. *)

(* The obligation to tear a bearer down is discharged by doing so only. *)
LEMMA ObligationStays ==
  ASSUME Typed, [Next]_vars, NEW t \in Controller, NEW b \in Bearer, WillTearDown(t, b)
  PROVE  WillTearDown(t, b)' \/ (TearDown(t) /\ b = cur[t])
<1> USE NoneAssumption DEF WillTearDown, Typed, TypeOK, ControlOK, BearerInHand
<1>1. ASSUME NEW s \in Controller, Open(s) PROVE WillTearDown(t, b)'
  BY <1>1 DEF Open, RegisterAttach, Disable, DisableAgain, Enable, Start, Stop, Send, control
<1>2. ASSUME NEW s \in Controller, s # t, Proceed(s) PROVE WillTearDown(t, b)'
  BY <1>2 DEF Proceed, RegisterAdd, DisableCall, TearDown, NotifyDone, DisableReturn,
      StartCall, StopSnapshot, StopCall, LoopReturn, SendCall, DisableMark, StartMark,
      StopMark, NotifyDown
<1>3. ASSUME Proceed(t) PROVE WillTearDown(t, b)' \/ (TearDown(t) /\ b = cur[t])
  <2>1. CASE \E c \in Bearer : DisableMark(t, c)
    BY <2>1 DEF DisableMark
  <2>2. CASE TearDown(t)
    BY <2>2 DEF TearDown
  <2>3. CASE DisableCall(t) \/ NotifyDone(t) \/ DisableReturn(t)
             \/ \E g \in Global : NotifyDown(t, g)
    BY <2>3 DEF DisableCall, NotifyDone, DisableReturn, NotifyDown
  <2>4. QED
    BY <1>3, <2>1, <2>2, <2>3
    DEF Proceed, RegisterAdd, StartCall, StopSnapshot, StopCall, LoopReturn, SendCall,
        StartMark, StopMark
<1>4. ASSUME NEW k \in Link, Report(k) \/ Sink(k) PROVE WillTearDown(t, b)'
  BY <1>4 DEF Report, Sink, Up, UpRefused, Bytes, Down, SinkUp, SinkBytes, SinkDown,
      EndCallback, control
<1>5. CASE UNCHANGED vars
  BY <1>5 DEF vars, control
<1>6. QED
  BY <1>1, <1>2, <1>3, <1>4, <1>5 DEF Next

LEMMA NameWriters ==
  ASSUME [Next]_vars, NEW n, n \in disabledNames'
  PROVE  n \in disabledNames \/ \E t \in Controller : Disable(t, n)
<1>1. ASSUME NEW t \in Controller, Open(t) PROVE n \in disabledNames \/ Disable(t, n)
  <2>1. ASSUME NEW m \in Name, Disable(t, m) PROVE n \in disabledNames \/ Disable(t, n)
    BY <2>1 DEF Disable
  <2>2. QED
    BY <1>1, <2>1 DEF Open, RegisterAttach, DisableAgain, Enable, Start, Stop, Send, enablement
<1>2. ASSUME NEW t \in Controller, Proceed(t) PROVE n \in disabledNames
  BY <1>2 DEF enablement, Proceed, RegisterAdd, DisableCall, TearDown, NotifyDone,
      DisableReturn, StartCall, StopSnapshot, StopCall, LoopReturn, SendCall, DisableMark,
      StartMark, StopMark, NotifyDown
<1>3. ASSUME NEW k \in Link, Report(k) \/ Sink(k) PROVE n \in disabledNames
  BY <1>3 DEF enablement, Report, Sink, Up, UpRefused, Bytes, Down, SinkUp, SinkBytes,
      SinkDown, EndCallback
<1>4. CASE UNCHANGED vars
  BY <1>4 DEF vars, enablement
<1>5. QED
  BY <1>1, <1>2, <1>3, <1>4 DEF Next

(* The registry only grows. *)
LEMMA RegistryGrows ==
  ASSUME Typed, [Next]_vars
  PROVE  Registered \subseteq Registered'
<1>1. ASSUME NEW t \in Controller, RegisterAdd(t) PROVE Registered \subseteq Registered'
  BY <1>1 DEF RegisterAdd, Registered, Typed, TypeOK, RegistryOK, BearerInHand
<1>2. CASE UNCHANGED bearers
  BY <1>2 DEF Registered
<1>3. ASSUME NEW t \in Controller, Open(t) PROVE UNCHANGED bearers
  BY <1>3 DEF registry, Open, RegisterAttach, Disable, DisableAgain, Enable, Start, Stop, Send
<1>4. ASSUME NEW t \in Controller, Proceed(t) PROVE RegisterAdd(t) \/ UNCHANGED bearers
  BY <1>4 DEF registry, Proceed, DisableCall, TearDown, NotifyDone, DisableReturn, StartCall,
      StopSnapshot, StopCall, LoopReturn, SendCall, DisableMark, StartMark, StopMark, NotifyDown
<1>5. ASSUME NEW k \in Link, Report(k) \/ Sink(k) PROVE UNCHANGED bearers
  BY <1>5 DEF registry, Report, Sink, Up, UpRefused, Bytes, Down, SinkUp, SinkBytes, SinkDown,
      EndCallback
<1>6. CASE UNCHANGED vars
  BY <1>2, <1>6 DEF vars, registry
<1>7. QED
  BY <1>1, <1>2, <1>3, <1>4, <1>5, <1>6 DEF Next

RoutedIsRegistered == \A g \in Global : fromGlobal[g] # None => fromGlobal[g][1] \in Registered

(* Bearers that report only once register() has returned have every route  *)
(* within reach of setEnabled. *)
LEMMA RoutedRegistered ==
  ASSUME "early" \notin Liberties
  PROVE  Spec => []RoutedIsRegistered
<1>1. Init => RoutedIsRegistered
  BY DEF Init, RoutedIsRegistered
<1>2. ASSUME Typed, RoutedIsRegistered, [Next]_vars PROVE RoutedIsRegistered'
  <2> USE <1>2, RegistryGrows DEF Typed, TypeOK, LinksOK, RoutedIsRegistered
  <2>1. ASSUME NEW t \in Controller, TearDown(t) PROVE RoutedIsRegistered'
    BY <2>1 DEF TearDown, Forget
  <2>2. ASSUME NEW k \in Link, Up(k) PROVE RoutedIsRegistered'
    BY <2>2 DEF Up, Mint, MayAnnounce, MayReport
  <2>3. ASSUME NEW k \in Link, Down(k) PROVE RoutedIsRegistered'
    BY <2>3 DEF Down, Forget
  <2>4. CASE UNCHANGED links
    BY <2>4 DEF links
  <2>5. QED
    BY <2>1, <2>2, <2>3, <2>4, LinkWriters
<1>3. QED
  BY <1>1, <1>2, TypedAlways, PTL DEF Spec

(* A bearer that reports before it is registered is in the hands of the    *)
(* thread that registers it.                                               *)
Known(b) ==
  b \in Registered \/ \E t \in Controller : pc[t] = "register" /\ cur[t] = b
AttachedIsKnown == \A b \in attached : Known(b)
RoutedIsKnown == \A g \in Global : fromGlobal[g] # None => Known(fromGlobal[g][1])

LEMMA KnownStays ==
  ASSUME Typed, [Next]_vars, NEW b \in Bearer, Known(b)
  PROVE  Known(b)'
<1> USE DEF Typed, TypeOK, RegistryOK, ControlOK
<1>1. CASE b \in Registered
  BY <1>1, RegistryGrows DEF Known
<1>2. ASSUME NEW t \in Controller, pc[t] = "register", cur[t] = b
      PROVE  b \in Registered' \/ (pc'[t] = "register" /\ cur'[t] = b)
  <2>1. ASSUME NEW s \in Controller, Open(s) PROVE pc'[t] = "register" /\ cur'[t] = b
    BY <1>2, <2>1
    DEF Open, RegisterAttach, Disable, DisableAgain, Enable, Start, Stop, Send, control
  <2>2. CASE RegisterAdd(t)
    BY <1>2, <2>2 DEF RegisterAdd, Registered
  <2>3. ASSUME NEW s \in Controller, Proceed(s), ~(s = t /\ RegisterAdd(t))
        PROVE  pc'[t] = "register" /\ cur'[t] = b
    BY <1>2, <2>3
    DEF Proceed, RegisterAdd, DisableCall, TearDown, NotifyDone, DisableReturn, StartCall,
        StopSnapshot, StopCall, LoopReturn, SendCall, DisableMark, StartMark, StopMark, NotifyDown
  <2>4. ASSUME NEW k \in Link, Report(k) \/ Sink(k) PROVE pc'[t] = "register" /\ cur'[t] = b
    BY <1>2, <2>4
    DEF control, Report, Sink, Up, UpRefused, Bytes, Down, SinkUp, SinkBytes, SinkDown,
        EndCallback
  <2>5. CASE UNCHANGED vars
    BY <1>2, <2>5 DEF vars, control
  <2>6. QED
    BY <2>1, <2>2, <2>3, <2>4, <2>5 DEF Next
<1>3. QED
  BY <1>1, <1>2 DEF Known

LEMMA AttachedWriter ==
  ASSUME [Next]_vars
  PROVE  \/ UNCHANGED attached
         \/ \E t \in Controller, b \in Bearer : RegisterAttach(t, b)
<1>1. ASSUME NEW t \in Controller, Open(t)
      PROVE  UNCHANGED attached \/ \E b \in Bearer : RegisterAttach(t, b)
  BY <1>1 DEF Open, Disable, DisableAgain, Enable, Start, Stop, Send, registry
<1>2. ASSUME NEW t \in Controller, Proceed(t) PROVE UNCHANGED attached
  BY <1>2 DEF registry, Proceed, RegisterAdd, DisableCall, TearDown, NotifyDone, DisableReturn,
      StartCall, StopSnapshot, StopCall, LoopReturn, SendCall, DisableMark, StartMark, StopMark,
      NotifyDown
<1>3. ASSUME NEW k \in Link, Report(k) \/ Sink(k) PROVE UNCHANGED attached
  BY <1>3 DEF registry, Report, Sink, Up, UpRefused, Bytes, Down, SinkUp, SinkBytes, SinkDown,
      EndCallback
<1>4. CASE UNCHANGED vars
  BY <1>4 DEF vars, registry
<1>5. QED
  BY <1>1, <1>2, <1>3, <1>4 DEF Next

LEMMA AttachedStep ==
  ASSUME Typed, AttachedIsKnown, [Next]_vars
  PROVE  AttachedIsKnown'
<1> USE DEF Typed, TypeOK, RegistryOK, ControlOK
<1>1. ASSUME NEW b \in attached PROVE Known(b)'
  BY <1>1, KnownStays DEF AttachedIsKnown
<1>2. ASSUME NEW t \in Controller, NEW b \in Bearer, RegisterAttach(t, b)
      PROVE  attached' = attached \cup {b} /\ Known(b)'
  BY <1>2 DEF RegisterAttach, Known
<1>3. QED
  BY <1>1, <1>2, AttachedWriter DEF AttachedIsKnown

LEMMA RoutedKnown == Spec => []RoutedIsKnown
<1>1. Init => AttachedIsKnown /\ RoutedIsKnown
  BY DEF Init, AttachedIsKnown, RoutedIsKnown
<1>2. ASSUME Typed, AttachedIsKnown, RoutedIsKnown, [Next]_vars PROVE RoutedIsKnown'
  <2> SUFFICES ASSUME NEW g \in Global, fromGlobal'[g] # None
               PROVE  Known(fromGlobal[g][1])'
    BY DEF RoutedIsKnown
  <2> USE <1>2 DEF Typed, TypeOK, LinksOK, Link
  <2>1. PICK k \in Link : k = fromGlobal'[g] /\ k[1] \in Bearer
    <3>1. fromGlobal' \in [Global -> Link \cup {None}]
      BY LinksStep DEF LinksOK
    <3>2. QED
      BY <3>1
  <2>2. Known(k[1])
    <3>1. CASE fromGlobal[g] = k
      BY <2>1, <3>1 DEF RoutedIsKnown
    <3>2. ASSUME NEW j \in Link, Up(j), fromGlobal[g] # k PROVE Known(k[1])
      <4>1. k = j
        BY <2>1, <3>2 DEF Up, Mint
      <4>2. QED
        BY <3>2, <4>1 DEF Up, MayAnnounce, MayReport, AttachedIsKnown, Known
    <3>3. ASSUME NEW t \in Controller, TearDown(t) PROVE fromGlobal[g] = k
      BY <2>1, <3>3 DEF TearDown, Forget
    <3>4. ASSUME NEW j \in Link, Down(j) PROVE fromGlobal[g] = k
      BY <2>1, <3>4 DEF Down, Forget
    <3>5. QED
      BY <2>1, <3>1, <3>2, <3>3, <3>4, LinkWriters DEF links
  <2>3. Known(k[1])'
    BY <2>1, <2>2, KnownStays
  <2>4. QED
    BY <2>1, <2>3 DEF Known
<1>3. QED
  BY <1>1, <1>2, AttachedStep, TypedAlways, PTL DEF Spec

(* A disabled transport has no stale route as long as disabling finds      *)
(* every bearer that has one among the registered.                         *)
LEMMA DarkStep ==
  ASSUME Typed, NoStaleRoute, DisabledIsDark, [Next]_vars,
         \A t \in Controller, n \in disabledNames' : Disable(t, n) => RoutedIsRegistered
  PROVE  DisabledIsDark'
<1> SUFFICES ASSUME NEW n \in disabledNames', NEW g \in ActiveLinks(n)'
             PROVE  \E t \in Controller : WillTearDown(t, fromGlobal[g][1])'
  BY DEF DisabledIsDark
<1> USE DEF ActiveLinks
<1>1. g \in Global /\ fromGlobal'[g] # None /\ NameOf[fromGlobal'[g][1]] = n
  OBVIOUS
<1>2. fromGlobal[g] = fromGlobal'[g]
      \/ \E k \in Link : Up(k) /\ g = nextGlobal /\ fromGlobal'[g] = k
  <2>1. ASSUME NEW t \in Controller, TearDown(t) PROVE fromGlobal[g] = fromGlobal'[g]
    BY <1>1, <2>1 DEF TearDown, Forget
  <2>2. ASSUME NEW k \in Link, Down(k) PROVE fromGlobal[g] = fromGlobal'[g]
    BY <1>1, <2>2 DEF Down, Forget
  <2>3. ASSUME NEW k \in Link, Up(k)
        PROVE  fromGlobal[g] = fromGlobal'[g] \/ (g = nextGlobal /\ fromGlobal'[g] = k)
    BY <1>1, <2>3 DEF Up, Mint, Typed, TypeOK, LinksOK
  <2>4. QED
    BY <2>1, <2>2, <2>3, LinkWriters DEF links
<1>3. fromGlobal[g] = fromGlobal'[g]
  BY <1>1, <1>2 DEF Up, AcceptsLinks, enablement
<1>4. fromGlobal[g] \in Link /\ fromGlobal[g][1] \in Bearer
  BY <1>1, <1>3, NoneAssumption DEF Typed, TypeOK, LinksOK, Link
<1>5. CASE n \in disabledNames
  <2>1. PICK t \in Controller : WillTearDown(t, fromGlobal[g][1])
    BY <1>1, <1>3, <1>5 DEF DisabledIsDark
  <2>2. ~(TearDown(t) /\ fromGlobal[g][1] = cur[t])
    <3> SUFFICES ASSUME TearDown(t), fromGlobal[g][1] = cur[t] PROVE FALSE
      OBVIOUS
    <3>1. fromGlobal[g] \in {cur[t]} \X Local
      BY <1>4 DEF Link
    <3>2. toGlobal[fromGlobal[g]] = g
      BY <1>1, <1>3 DEF NoStaleRoute
    <3>3. QED
      BY <1>1, <3>1, <3>2 DEF TearDown, Forget
  <2>3. WillTearDown(t, fromGlobal[g][1])'
    <3> DEFINE b == fromGlobal[g][1]
    <3>2. b \in Bearer /\ WillTearDown(t, b) /\ ~(TearDown(t) /\ b = cur[t])
      BY <1>4, <2>1, <2>2
    <3>3. b = fromGlobal'[g][1]
      BY <1>3
    <3> HIDE DEF b
    <3>4. b \in todo'[t] \cup {cur'[t]}
          /\ pc'[t] \in {"disable", "disableCall", "teardown", "notify"}
      BY <3>2, ObligationStays DEF WillTearDown
    <3>5. QED
      BY <3>3, <3>4 DEF WillTearDown
  <2>4. QED
    BY <2>3
<1>6. CASE \E t \in Controller : Disable(t, n)
  <2>1. PICK t \in Controller : Disable(t, n)
    BY <1>6
  <2>2. RoutedIsRegistered
    BY <2>1
  <2>3. fromGlobal[g][1] \in Matches(n)
    BY <1>1, <1>3, <2>2 DEF Matches, RoutedIsRegistered
  <2>4. QED
    BY <1>3, <2>1, <2>3 DEF Disable, WillTearDown, Typed, TypeOK, ControlOK
<1>7. QED
  BY <1>5, <1>6, NameWriters

(* A disabled transport has a route only while a host thread is still on   *)
(* its way to tear it down, whatever other threads enable, disable, start  *)
(* or stop meanwhile, and whatever its bearers report.                     *)
THEOREM DisabledDark ==
  ASSUME Liberties = {}
  PROVE  Spec => []DisabledIsDark
<1>1. Init => DisabledIsDark
  BY DEF Init, DisabledIsDark
<1>2. Typed /\ NoStaleRoute /\ RoutedIsRegistered /\ DisabledIsDark /\ [Next]_vars
        => DisabledIsDark'
  BY DarkStep
<1>3. Spec => [](NoStaleRoute /\ RoutedIsOpen)
  BY NoStaleRoutes
<1>4. Spec => []RoutedIsRegistered
  BY RoutedRegistered
<1>5. QED
  BY <1>1, <1>2, <1>3, <1>4, TypedAlways, PTL DEF Spec

(* With one host thread that holds also for bearers that report while they *)
(* are being registered (register() hands out the sink first): no call can *)
(* disable the transport before the bearer is in the list.                 *)
THEOREM OneHostDark ==
  ASSUME NEW CONSTANT t, Controller = {t}, "reannounce" \notin Liberties
  PROVE  Spec => []DisabledIsDark
<1>1. Init => DisabledIsDark
  BY DEF Init, DisabledIsDark
<1>2. Typed /\ NoStaleRoute /\ RoutedIsKnown /\ DisabledIsDark /\ [Next]_vars
        => DisabledIsDark'
  <2> SUFFICES ASSUME Typed, NoStaleRoute, RoutedIsKnown, DisabledIsDark, [Next]_vars
               PROVE  DisabledIsDark'
    OBVIOUS
  <2>1. ASSUME NEW s \in Controller, NEW n \in disabledNames', Disable(s, n)
        PROVE  RoutedIsRegistered
    BY <2>1 DEF Disable, RoutedIsKnown, Known, RoutedIsRegistered
  <2> QED
    BY <2>1, DarkStep
<1>3. Spec => [](NoStaleRoute /\ RoutedIsOpen)
  BY NoStaleRoutes
<1>4. QED
  BY <1>1, <1>2, <1>3, RoutedKnown, TypedAlways, PTL DEF Spec
-----------------------------------------------------------------------------
(* The ledger of ids. *)

(* A linkDown on its way is for an id whose route is gone and that has not *)
(* been closed, and no two are for the same id; nor are two linkUps.       *)
Closing(g) == g < nextGlobal /\ fromGlobal[g] = None /\ g \notin downed
OrphanDowns ==
  /\ \A t \in Controller : \A g \in orphans[t] : Closing(g)
  /\ \A s, t \in Controller : s # t => orphans[s] \cap orphans[t] = {}
ReportedDowns ==
  /\ \A k \in Link : callback[k] = "down" => Closing(held[k])
  /\ \A k, m \in Link :
       callback[k] = "down" /\ callback[m] = "down" /\ k # m => held[k] # held[m]
  /\ \A k \in Link, t \in Controller : callback[k] = "down" => held[k] \notin orphans[t]
ReportedUps ==
  /\ \A k \in Link : callback[k] = "up" => held[k] < nextGlobal /\ held[k] \notin upped
  /\ \A k, m \in Link :
       callback[k] = "up" /\ callback[m] = "up" /\ k # m => held[k] # held[m]
Past ==
  /\ \A g \in downed : g < nextGlobal /\ fromGlobal[g] = None
  /\ \A g \in upped : g < nextGlobal
HandsDisjoint == OrphanDowns /\ ReportedDowns /\ ReportedUps /\ Past

(* The steps that leave the ids' ledger and the hands on it alone. *)
ledgerVars == <<links, orphans, callback, held, consumer>>
LEMMA LedgerWriters ==
  ASSUME [Next]_vars
  PROVE  \/ \E t \in Controller : TearDown(t) \/ \E g \in Global : NotifyDown(t, g)
         \/ \E k \in Link : Up(k) \/ Bytes(k) \/ Down(k) \/ Sink(k)
         \/ UNCHANGED ledgerVars
BY DEF Next, vars, ledgerVars, control, reports, consumer, Open, Proceed, Report,
      RegisterAttach, Disable, DisableAgain, Enable, Start, Stop, Send, RegisterAdd,
      DisableCall, NotifyDone, DisableReturn, StartCall, StopSnapshot, StopCall,
      LoopReturn, SendCall, DisableMark, StartMark, StopMark, UpRefused

(* Tearing a bearer down retires the routes of its links and no other. *)
LEMMA TornDown ==
  ASSUME Typed, RoutesAgree, RoutesMinted, NEW t \in Controller, TearDown(t)
  PROVE  /\ \A g \in LinksOf(cur[t]) : /\ g \in Global /\ g < nextGlobal
                                       /\ fromGlobal[g] # None /\ fromGlobal'[g] = None
         /\ \A g \in Global \ LinksOf(cur[t]) : fromGlobal'[g] = fromGlobal[g]
<1> USE NoneAssumption DEF TearDown, Typed, TypeOK
<1>1. cur[t] \in Bearer
  BY DEF BearerInHand
<1>2. ASSUME NEW g \in LinksOf(cur[t])
      PROVE  g \in Global /\ g < nextGlobal /\ fromGlobal[g] # None /\ fromGlobal'[g] = None
  <2>1. PICK l \in Local : g = toGlobal[<<cur[t], l>>] /\ g # None
    BY <1>2 DEF LinksOf
  <2>2. <<cur[t], l>> \in Link /\ <<cur[t], l>> \in {cur[t]} \X Local
    BY <1>1 DEF Link
  <2>3. g \in Global
    BY <2>1, <2>2 DEF LinksOK
  <2>4. fromGlobal[g] = <<cur[t], l>> /\ g < nextGlobal
    BY <2>1, <2>2, <2>3 DEF RoutesAgree, RoutesMinted
  <2>5. fromGlobal'[g] = None
    BY <2>1, <2>2, <2>3 DEF Forget
  <2>6. QED
    BY <2>2, <2>3, <2>4, <2>5
<1>3. ASSUME NEW g \in Global \ LinksOf(cur[t]) PROVE fromGlobal'[g] = fromGlobal[g]
  <2>1. ~ \E k \in {cur[t]} \X Local : toGlobal[k] = g
    BY <1>3 DEF LinksOf
  <2>2. QED
    BY <1>3, <2>1 DEF Forget
<1>4. QED
  BY <1>2, <1>3

LEMMA HandsStep ==
  ASSUME Typed, RoutesAgree, RoutesMinted, HandsDisjoint, [Next]_vars
  PROVE  HandsDisjoint'
<1> USE NoneAssumption DEF HandsDisjoint, Typed, TypeOK, Closing, control, reports, consumer
<1>1. ASSUME NEW t \in Controller, TearDown(t) PROVE HandsDisjoint'
  <2> USE <1>1 DEF TearDown
  <2>2. \A g \in LinksOf(cur[t]) : /\ g \in Global /\ g < nextGlobal
                                   /\ fromGlobal[g] # None /\ fromGlobal'[g] = None
    BY TornDown
  <2>3. \A g \in Global : fromGlobal[g] = None => fromGlobal'[g] = None
    BY DEF Forget
  <2>4. OrphanDowns'
    <3>1. \A s \in Controller : \A g \in orphans[s] : g \in Global /\ Closing(g)'
      BY <2>3 DEF OrphanDowns, ControlOK
    <3>2. \A g \in LinksOf(cur[t]) : Closing(g)'
      BY <2>2 DEF Past
    <3>3. \A s \in Controller : orphans[s] \cap LinksOf(cur[t]) = {}
      BY <2>2 DEF OrphanDowns
    <3>4. \A s \in Controller :
            orphans'[s] = IF s = t THEN LinksOf(cur[t]) ELSE orphans[s]
      BY DEF ControlOK
    <3>5. QED
      BY <3>1, <3>2, <3>3, <3>4 DEF OrphanDowns
  <2>5. ReportedDowns'
    BY <2>2, <2>3 DEF ReportedDowns, IdInHand, ControlOK
  <2>6. ReportedUps' /\ Past'
    BY <2>3 DEF ReportedUps, Past, ReportsOK
  <2>7. QED
    BY <2>4, <2>5, <2>6
<1>2. ASSUME NEW t \in Controller, NEW g \in Global, NotifyDown(t, g) PROVE HandsDisjoint'
  <2> USE <1>2 DEF NotifyDown, links
  <2>1. OrphanDowns'
    BY DEF OrphanDowns, ControlOK
  <2>2. ReportedDowns' /\ ReportedUps' /\ Past'
    BY DEF OrphanDowns, ReportedDowns, ReportedUps, Past, ControlOK
  <2>3. QED
    BY <2>1, <2>2
<1>3. ASSUME NEW k \in Link, Up(k) PROVE HandsDisjoint'
  <2> USE <1>3 DEF Up, Mint, MayAnnounce, MayReport
  <2>1. /\ nextGlobal' = nextGlobal + 1 /\ nextGlobal \in Nat
        /\ \A g \in Global : g # nextGlobal => fromGlobal'[g] = fromGlobal[g]
        /\ \A g \in Global : g \in Int
    BY BoundsAssumption DEF LinksOK, Global
  <2>2. \A g \in Global : Closing(g) => Closing(g)'
    <3> SUFFICES ASSUME NEW g \in Global, Closing(g) PROVE Closing(g)'
      OBVIOUS
    <3>1. g \in Int /\ g < nextGlobal
      BY <2>1
    <3>2. g # nextGlobal /\ g < nextGlobal + 1
      BY <2>1, <3>1
    <3>3. QED
      BY <2>1, <3>2
  <2>3. OrphanDowns'
    BY <2>2 DEF OrphanDowns, ControlOK
  <2>4. ReportedDowns'
    BY <2>2 DEF ReportedDowns, IdInHand, ReportsOK
  <2>5. ReportedUps'
    <3>1. \A m \in Link : m # k /\ callback[m] = "up" =>
            held[m] \in Int /\ held[m] < nextGlobal /\ held[m] # nextGlobal
      <4> SUFFICES ASSUME NEW m \in Link, callback[m] = "up"
                   PROVE held[m] \in Int /\ held[m] < nextGlobal /\ held[m] # nextGlobal
        OBVIOUS
      <4>1. held[m] \in Int /\ held[m] < nextGlobal
        BY <2>1 DEF ReportedUps, IdInHand
      <4>2. QED
        BY <2>1, <4>1
    <3>2. nextGlobal \notin upped /\ nextGlobal < nextGlobal'
      BY <2>1 DEF Past
    <3>3. \A m \in Link : callback'[m] = "up" => held'[m] < nextGlobal' /\ held'[m] \notin upped'
      <4> SUFFICES ASSUME NEW m \in Link, callback'[m] = "up"
                   PROVE  held'[m] < nextGlobal' /\ held'[m] \notin upped'
        OBVIOUS
      <4>1. CASE m = k
        BY <3>2, <4>1 DEF ReportsOK
      <4>2. CASE m # k
        <5>1. callback[m] = "up" /\ held'[m] = held[m]
          BY <4>2 DEF ReportsOK
        <5>2. held[m] < nextGlobal + 1
          BY <2>1, <3>1, <4>2, <5>1
        <5>3. QED
          BY <2>1, <5>1, <5>2 DEF ReportedUps
      <4>3. QED
        BY <4>1, <4>2
    <3>4. QED
      BY <3>1, <3>3 DEF ReportedUps, ReportsOK
  <2>6. Past'
    BY <2>1 DEF Past, ReportsOK
  <2>7. QED
    BY <2>3, <2>4, <2>5, <2>6
<1>4. ASSUME NEW k \in Link, Down(k) PROVE HandsDisjoint'
  <2> USE <1>4 DEF Down, MayReport
  <2>1. \A g \in Global : fromGlobal[g] = None => fromGlobal'[g] = None
    BY DEF Forget
  <2>2. OrphanDowns' /\ Past'
    BY <2>1 DEF OrphanDowns, Past, ControlOK, ReportsOK
  <2>3. ReportedUps'
    BY <2>1 DEF ReportedUps, ReportsOK
  <2>4. ReportedDowns'
    <3>1. CASE toGlobal[k] = None
      BY <2>1, <3>1 DEF ReportedDowns, IdInHand
    <3>2. CASE toGlobal[k] # None
      <4>1. PICK g \in Global : g = toGlobal[k]
        BY <3>2 DEF LinksOK
      <4>2. fromGlobal[g] = k /\ g < nextGlobal /\ fromGlobal'[g] = None
        BY <3>2, <4>1 DEF RoutesAgree, RoutesMinted, Forget
      <4>3. Closing(g)' /\ ~Closing(g)
        BY <4>2 DEF Past
      <4>4. \A m \in Link : m # k /\ callback[m] = "down" => held[m] # g /\ Closing(held[m])'
        <5> SUFFICES ASSUME NEW m \in Link, m # k, callback[m] = "down"
                     PROVE  held[m] # g /\ Closing(held[m])'
          OBVIOUS
        <5>1. held[m] \in Global /\ Closing(held[m])
          BY DEF ReportedDowns, IdInHand
        <5>2. held[m] # g
          BY <4>3, <5>1
        <5>3. held'[m] = held[m]
          BY <3>2, <4>1 DEF ReportsOK
        <5>4. QED
          BY <2>1, <5>1, <5>2, <5>3
      <4>5. \A t \in Controller : g \notin orphans[t]
        BY <4>3 DEF OrphanDowns
      <4>6. callback' = [callback EXCEPT ![k] = "down"] /\ held' = [held EXCEPT ![k] = g]
        BY <3>2, <4>1
      <4>7. QED
        BY <4>3, <4>4, <4>5, <4>6 DEF ReportedDowns, ReportsOK
    <3>3. QED
      BY <3>1, <3>2
  <2>5. QED
    BY <2>2, <2>3, <2>4
<1>5. ASSUME NEW k \in Link, Bytes(k) \/ Sink(k) PROVE HandsDisjoint'
  <2> USE <1>5 DEF Bytes, MayReport, Sink, SinkUp, SinkBytes, SinkDown, EndCallback, links
  <2>1. OrphanDowns'
    BY DEF OrphanDowns, ReportedDowns
  <2>2. ReportedDowns'
    BY DEF ReportedDowns, ReportsOK
  <2>3. ReportedUps'
    BY DEF ReportedUps, ReportsOK
  <2>4. Past'
    BY DEF Past, ReportedDowns, ReportedUps
  <2>5. QED
    BY <2>1, <2>2, <2>3, <2>4
<1>6. CASE UNCHANGED ledgerVars
  BY <1>6 DEF ledgerVars, links, consumer, OrphanDowns, ReportedDowns, ReportedUps, Past
<1>7. QED
  BY <1>1, <1>2, <1>3, <1>4, <1>5, <1>6, LedgerWriters

LEMMA HandsCorrect == Spec => []HandsDisjoint
<1>1. Init => HandsDisjoint
  BY DEF Init, HandsDisjoint, OrphanDowns, ReportedDowns, ReportedUps, Past
<1>2. QED
  BY <1>1, HandsStep, TypedAlways, RoutesCorrect, PTL DEF Spec

(* Reading the ledger off the manager's state. *)
LEMMA Stages ==
  ASSUME Typed, NEW g \in Global
  PROVE  /\ StageOf(g) = "unused" <=> ~(g < nextGlobal)
         /\ StageOf(g) = "routed" <=> g < nextGlobal /\ fromGlobal[g] # None
         /\ StageOf(g) = "closing" <=> Closing(g)
         /\ StageOf(g) \in Ledger!Stage
BY BoundsAssumption DEF StageOf, Closing, Typed, TypeOK, LinksOK, Global, Ledger!Stage

LEMMA SameStage ==
  ASSUME NEW g \in Global, UNCHANGED nextGlobal, fromGlobal'[g] = fromGlobal[g],
         g \in downed' <=> g \in downed
  PROVE  StageOf(g)' = StageOf(g)
BY DEF StageOf

(* The manager implements the safety part of its abstract specification,   *)
(* the ledger: each of its steps mints, announces, retires or closes ids   *)
(* as the ledger allows, or leaves them alone.  Ids are never reused and   *)
(* no linkUp or linkDown reaches the consumer twice.                       *)
THEOREM ImplementsLedger == Spec => Ledger!Safety
<1> DEFINE Inv == Typed /\ RoutesAgree /\ RoutesMinted /\ HandsDisjoint
<1>1. Init => Ledger!Init
  BY BoundsAssumption DEF Init, Ledger!Init, StageOf, Global
<1>2. Inv /\ [Next]_vars => [Ledger!Next]_Ledger!vars
  <2> SUFFICES ASSUME Inv, [Next]_vars
               PROVE  Ledger!Next \/ UNCHANGED Ledger!vars
    OBVIOUS
  <2>1. ASSUME \A g \in Global : StageOf(g)' = StageOf(g), upped' = upped
        PROVE  UNCHANGED Ledger!vars
    BY <2>1 DEF Ledger!vars
  <2>2. ASSUME NEW S \in SUBSET Global, \A g \in S : StageOf(g) = "routed", upped' = upped,
               \A g \in Global : StageOf(g)' = IF g \in S THEN "closing" ELSE StageOf(g)
        PROVE  Ledger!Next
    BY <2>2 DEF Ledger!Next, Ledger!Retire
  <2>3. ASSUME NEW g \in Global, StageOf(g) = "closing", upped' = upped,
               \A h \in Global : StageOf(h)' = IF h = g THEN "closed" ELSE StageOf(h)
        PROVE  Ledger!Next
    BY <2>3 DEF Ledger!Next, Ledger!Close
  <2>4. ASSUME NEW g \in Global, StageOf(g) # "unused", g \notin upped,
               upped' = upped \cup {g}, \A h \in Global : StageOf(h)' = StageOf(h)
        PROVE  Ledger!Next
    BY <2>4 DEF Ledger!Next, Ledger!Announce
  <2>5. ASSUME NEW g \in Global, StageOf(g) = "unused", upped' = upped,
               \A h \in Global : h < g => StageOf(h) # "unused",
               \A h \in Global : StageOf(h)' = IF h = g THEN "routed" ELSE StageOf(h)
        PROVE  Ledger!Next
    BY <2>5 DEF Ledger!Next, Ledger!Mint
  <2> HIDE DEF Inv
  <2>6. ASSUME NEW t \in Controller, TearDown(t) PROVE Ledger!Next
    <3>1. UNCHANGED <<nextGlobal, upped, downed>>
      BY <2>6 DEF TearDown, consumer
    <3>2. ASSUME NEW g \in LinksOf(cur[t])
          PROVE  g \in Global /\ StageOf(g) = "routed" /\ StageOf(g)' = "closing"
      <4>1. g \in Global /\ g < nextGlobal /\ fromGlobal[g] # None /\ fromGlobal'[g] = None
        BY <2>6, TornDown DEF Inv
      <4>2. g \notin downed
        BY <4>1 DEF Inv, HandsDisjoint, Past
      <4>3. QED
        BY <3>1, <4>1, <4>2 DEF StageOf
    <3>3. \A g \in Global \ LinksOf(cur[t]) : StageOf(g)' = StageOf(g)
      BY <2>6, <3>1, TornDown, SameStage DEF Inv
    <3>4. LinksOf(cur[t]) \in SUBSET Global
      BY <3>2
    <3>5. \A g \in Global :
            StageOf(g)' = IF g \in LinksOf(cur[t]) THEN "closing" ELSE StageOf(g)
      BY <3>2, <3>3
    <3>6. QED
      BY <2>2, <3>1, <3>2, <3>4, <3>5
  <2>7. ASSUME NEW t \in Controller, NEW g \in Global, NotifyDown(t, g) PROVE Ledger!Next
    <3>1. UNCHANGED <<nextGlobal, fromGlobal, upped>> /\ downed' = downed \cup {g}
      BY <2>7 DEF NotifyDown, links
    <3>2. Closing(g)
      BY <2>7 DEF NotifyDown, Inv, HandsDisjoint, OrphanDowns
    <3>3. QED
      BY <2>3, <3>1, <3>2 DEF StageOf, Closing
  <2>8. ASSUME NEW k \in Link, Down(k) PROVE Ledger!Next \/ UNCHANGED Ledger!vars
    <3>1. UNCHANGED <<nextGlobal, upped, downed>> /\ Forget({k})
      BY <2>8 DEF Down, consumer
    <3>2. CASE toGlobal[k] = None
      <4>1. \A g \in Global : fromGlobal'[g] = fromGlobal[g]
        BY <3>1, <3>2, NoneAssumption DEF Forget
      <4>2. QED
        BY <2>1, <3>1, <4>1, SameStage
    <3>3. CASE toGlobal[k] # None
      <4>1. PICK g \in Global : g = toGlobal[k]
        BY <3>3 DEF Inv, Typed, TypeOK, LinksOK
      <4>2. fromGlobal[g] # None /\ g < nextGlobal /\ fromGlobal'[g] = None
        BY <3>1, <3>3, <4>1, NoneAssumption DEF Inv, RoutesAgree, RoutesMinted, Forget
      <4>3. StageOf(g) = "routed" /\ StageOf(g)' = "closing"
        BY <3>1, <4>2 DEF StageOf, Inv, HandsDisjoint, Past
      <4>4. \A h \in Global : h # g => StageOf(h)' = StageOf(h)
        BY <3>1, <4>1, SameStage DEF Forget
      <4>5. \A h \in Global : StageOf(h)' = IF h \in {g} THEN "closing" ELSE StageOf(h)
        BY <4>3, <4>4
      <4>6. {g} \in SUBSET Global /\ \A h \in {g} : StageOf(h) = "routed"
        BY <4>3
      <4>7. QED
        BY <2>2, <3>1, <4>5, <4>6
    <3>4. QED
      BY <3>2, <3>3
  <2>9. ASSUME NEW k \in Link, Up(k) PROVE Ledger!Next
    <3>1. PICK g \in Global : g = nextGlobal
      BY <2>9 DEF Up
    <3>2. /\ nextGlobal' = g + 1 /\ fromGlobal' = [fromGlobal EXCEPT ![g] = k]
          /\ UNCHANGED <<upped, downed>>
      BY <2>9, <3>1 DEF Up, Mint, consumer
    <3>3. StageOf(g) = "unused" /\ \A h \in Global : h < g => StageOf(h) # "unused"
      BY <3>1, Stages DEF Inv, Global
    <3>4. g < nextGlobal' /\ fromGlobal'[g] = k /\ k # None
      BY <3>1, <3>2, NoneAssumption DEF Inv, Typed, TypeOK, LinksOK
    <3>5. StageOf(g)' = "routed"
      BY <3>4 DEF StageOf
    <3>6. ASSUME NEW h \in Global, h # g PROVE StageOf(h)' = StageOf(h)
      <4>1. h < nextGlobal' <=> h < nextGlobal
        BY <3>1, <3>2, <3>6, BoundsAssumption DEF Global
      <4>2. fromGlobal'[h] = fromGlobal[h]
        BY <3>2, <3>6 DEF Inv, Typed, TypeOK, LinksOK
      <4>3. QED
        BY <3>2, <4>1, <4>2 DEF StageOf
    <3>7. QED
      BY <2>5, <3>2, <3>3, <3>5, <3>6
  <2>10. ASSUME NEW k \in Link, SinkUp(k) PROVE Ledger!Next
    <3>1. PICK g \in Global : g = held[k]
      BY <2>10 DEF SinkUp, Inv, Typed, IdInHand
    <3>2. g < nextGlobal /\ g \notin upped
      BY <2>10, <3>1 DEF SinkUp, Inv, HandsDisjoint, ReportedUps
    <3>3. upped' = upped \cup {g} /\ UNCHANGED <<nextGlobal, fromGlobal, downed>>
      BY <2>10, <3>1 DEF SinkUp, EndCallback, links
    <3>4. QED
      BY <2>4, <3>2, <3>3, Stages, SameStage DEF Inv
  <2>11. ASSUME NEW k \in Link, SinkDown(k) PROVE Ledger!Next
    <3>1. PICK g \in Global : g = held[k]
      BY <2>11 DEF SinkDown, Inv, Typed, IdInHand
    <3>2. Closing(g)
      BY <2>11, <3>1 DEF SinkDown, Inv, HandsDisjoint, ReportedDowns
    <3>3. downed' = downed \cup {g} /\ UNCHANGED <<nextGlobal, fromGlobal, upped>>
      BY <2>11, <3>1 DEF SinkDown, EndCallback, links
    <3>4. QED
      BY <2>3, <3>2, <3>3 DEF StageOf, Closing
  <2>12. ASSUME NEW k \in Link, Bytes(k) \/ SinkBytes(k) PROVE UNCHANGED Ledger!vars
    BY <2>1, <2>12, SameStage DEF Bytes, SinkBytes, EndCallback, links, consumer
  <2>13. CASE UNCHANGED ledgerVars
    BY <2>1, <2>13, SameStage DEF ledgerVars, links, consumer
  <2>14. QED
    BY <2>6, <2>7, <2>8, <2>9, <2>10, <2>11, <2>12, <2>13, LedgerWriters DEF Sink
<1>3. QED
  BY <1>1, <1>2, TypedAlways, RoutesCorrect, HandsCorrect, PTL DEF Spec, Ledger!Safety
-----------------------------------------------------------------------------
(* Nothing is lost. *)

(* A host thread with linkDowns to deliver is delivering them. *)
OrphansAtNotify == \A t \in Controller : orphans[t] # {} => pc[t] = "notify"

LEMMA OrphansStep ==
  ASSUME Typed, OrphansAtNotify, [Next]_vars
  PROVE  OrphansAtNotify'
<1> USE DEF Typed, TypeOK, ControlOK, OrphansAtNotify
<1>1. ASSUME NEW t \in Controller, Open(t) PROVE OrphansAtNotify'
  BY <1>1 DEF Open, RegisterAttach, Disable, DisableAgain, Enable, Start, Stop, Send, control
<1>2. ASSUME NEW t \in Controller, Proceed(t) PROVE OrphansAtNotify'
  <2>1. CASE TearDown(t) \/ NotifyDone(t) \/ \E g \in Global : NotifyDown(t, g)
    BY <2>1 DEF TearDown, NotifyDone, NotifyDown
  <2>2. CASE UNCHANGED orphans /\ pc[t] # "notify" /\ \E c \in PC : pc' = [pc EXCEPT ![t] = c]
    BY <2>2
  <2>3. QED
    BY <1>2, <2>1, <2>2
    DEF PC, Proceed, RegisterAdd, DisableCall, DisableReturn, StartCall, StopSnapshot, StopCall,
        LoopReturn, SendCall, DisableMark, StartMark, StopMark
<1>3. ASSUME NEW k \in Link, Report(k) \/ Sink(k) PROVE OrphansAtNotify'
  BY <1>3 DEF Report, Sink, Up, UpRefused, Bytes, Down, SinkUp, SinkBytes, SinkDown,
      EndCallback, control
<1>4. CASE UNCHANGED vars
  BY <1>4 DEF vars, control
<1>5. QED
  BY <1>1, <1>2, <1>3, <1>4 DEF Next

(* An id whose route is gone is closed or about to be, by somebody. *)
NoneLost == \A g \in Global : Closing(g) => Closers(g) # {}

(* Closers, one kind at a time. *)
LEMMA ClosersAre ==
  ASSUME NEW g \in Global
  PROVE  Closers(g) # {} <=> \/ \E t \in Controller : g \in orphans[t]
                            \/ \E k \in Link : callback[k] = "down" /\ held[k] = g
BY DEF Closers

LEMMA NoneLostStep ==
  ASSUME Typed, RoutesAgree, RoutesMinted, HandsDisjoint, OrphansAtNotify, NoneLost, [Next]_vars
  PROVE  NoneLost'
<1> SUFFICES ASSUME NEW g \in Global, Closing(g)'
             PROVE  \/ \E t \in Controller : g \in orphans'[t]
                    \/ \E k \in Link : callback'[k] = "down" /\ held'[k] = g
  BY DEF NoneLost, Closers
<1> USE DEF Typed, TypeOK
<1>1. Closing(g) => \/ \E t \in Controller : g \in orphans[t]
                    \/ \E k \in Link : callback[k] = "down" /\ held[k] = g
  BY ClosersAre DEF NoneLost
<1>2. CASE \E t \in Controller : TearDown(t)
  <2>1. PICK t \in Controller : TearDown(t)
    BY <1>2
  <2>2. UNCHANGED <<nextGlobal, downed, callback, held>>
        /\ orphans' = [orphans EXCEPT ![t] = LinksOf(cur[t])] /\ orphans[t] = {}
    BY <2>1 DEF TearDown, reports, consumer, OrphansAtNotify
  <2>3. CASE g \in LinksOf(cur[t])
    BY <2>2, <2>3 DEF ControlOK
  <2>4. CASE g \notin LinksOf(cur[t])
    <3>1. Closing(g)
      BY <2>1, <2>2, <2>4, TornDown DEF Closing
    <3>2. QED
      BY <1>1, <2>2, <3>1 DEF ControlOK
  <2>5. QED
    BY <2>3, <2>4
<1>3. CASE \E t \in Controller : \E h \in Global : NotifyDown(t, h)
  <2>1. PICK t \in Controller, h \in Global : NotifyDown(t, h)
    BY <1>3
  <2>2. /\ UNCHANGED <<nextGlobal, fromGlobal, callback, held>> /\ downed' = downed \cup {h}
        /\ orphans' = [orphans EXCEPT ![t] = @ \ {h}]
    BY <2>1 DEF NotifyDown, links, reports
  <2>3. Closing(g) /\ g # h
    BY <2>2 DEF Closing
  <2>4. QED
    BY <1>1, <2>2, <2>3 DEF ControlOK
<1>4. CASE \E k \in Link : Up(k)
  <2>1. PICK k \in Link : Up(k)
    BY <1>4
  <2>2. /\ nextGlobal' = nextGlobal + 1 /\ fromGlobal' = [fromGlobal EXCEPT ![nextGlobal] = k]
        /\ nextGlobal \in Global /\ UNCHANGED <<orphans, downed>>
        /\ callback[k] = "none" /\ callback' = [callback EXCEPT ![k] = "up"]
        /\ held' = [held EXCEPT ![k] = nextGlobal]
    BY <2>1 DEF Up, Mint, MayAnnounce, MayReport, control, consumer
  <2>3. g # nextGlobal
    BY <2>2, NoneAssumption DEF Closing, LinksOK
  <2>4. g \in Int /\ nextGlobal \in Int
    BY BoundsAssumption DEF LinksOK, Global
  <2>5. Closing(g)
    BY <2>2, <2>3, <2>4 DEF Closing, LinksOK
  <2>6. QED
    BY <1>1, <2>2, <2>5 DEF ReportsOK
<1>5. CASE \E k \in Link : Down(k)
  <2>1. PICK k \in Link : Down(k)
    BY <1>5
  <2>2. UNCHANGED <<nextGlobal, orphans, downed>> /\ Forget({k}) /\ callback[k] = "none"
    BY <2>1 DEF Down, MayReport, control, consumer
  <2>3. CASE toGlobal[k] = g
    <3>1. callback' = [callback EXCEPT ![k] = "down"] /\ held' = [held EXCEPT ![k] = g]
      BY <2>1, <2>3, NoneAssumption DEF Down
    <3>2. QED
      BY <3>1 DEF ReportsOK
  <2>4. CASE toGlobal[k] # g
    <3>1. Closing(g)
      BY <2>2, <2>4 DEF Closing, Forget
    <3>2. \A m \in Link : callback[m] = "down" => callback'[m] = "down" /\ held'[m] = held[m]
      BY <2>1, <2>2 DEF Down, ReportsOK
    <3>3. QED
      BY <1>1, <2>2, <3>1, <3>2
  <2>5. QED
    BY <2>3, <2>4
<1>6. CASE \E k \in Link : Bytes(k) \/ Sink(k)
  <2>1. PICK k \in Link : Bytes(k) \/ Sink(k)
    BY <1>6
  <2>2. UNCHANGED <<nextGlobal, fromGlobal, orphans>> /\ downed \subseteq downed'
    BY <2>1 DEF Bytes, Sink, SinkUp, SinkBytes, SinkDown, EndCallback, links, control, consumer
  <2>3. Closing(g)
    BY <2>2 DEF Closing
  <2>4. \A m \in Link : callback[m] = "down" /\ held[m] = g =>
          callback'[m] = "down" /\ held'[m] = g
    <3>1. CASE Bytes(k)
      BY <3>1 DEF Bytes, MayReport, ReportsOK
    <3>2. CASE Sink(k)
      <4>1. callback' = [callback EXCEPT ![k] = "none"] /\ held' = [held EXCEPT ![k] = None]
        BY <3>2 DEF Sink, SinkUp, SinkBytes, SinkDown, EndCallback
      <4>2. ~(callback[k] = "down" /\ held[k] = g)
        BY <3>2 DEF Sink, SinkUp, SinkBytes, SinkDown, Closing
      <4>3. QED
        BY <4>1, <4>2 DEF ReportsOK
    <3>3. QED
      BY <2>1, <3>1, <3>2
  <2>5. QED
    BY <1>1, <2>2, <2>3, <2>4
<1>7. CASE UNCHANGED ledgerVars
  BY <1>1, <1>7 DEF ledgerVars, links, consumer, Closing
<1>8. QED
  BY <1>2, <1>3, <1>4, <1>5, <1>6, <1>7, LedgerWriters

LEMMA NoneLostAlways == Spec => [](OrphansAtNotify /\ NoneLost)
<1>1. Init => OrphansAtNotify /\ NoneLost
  BY BoundsAssumption DEF Init, OrphansAtNotify, NoneLost, Closing, Global
<1>2. QED
  BY <1>1, OrphansStep, NoneLostStep, TypedAlways, RoutesCorrect, HandsCorrect, PTL DEF Spec

(* Whoever is about to deliver an id's linkDown is the only one. *)
LEMMA OneCloser ==
  ASSUME Typed, HandsDisjoint, NEW g \in Global
  PROVE  /\ Closers(g) # {} <=> Cardinality(Closers(g)) = 1
         /\ Closers(g) = {} <=> Cardinality(Closers(g)) = 0
         /\ Closers(g) # {} => Closing(g)
<1> USE DEF HandsDisjoint, OrphanDowns, ReportedDowns
<1>1. \A x, y \in Closers(g) : x = y
  BY DEF Closers
<1>2. CASE Closers(g) = {}
  BY <1>2, FS_EmptySet
<1>3. CASE Closers(g) # {}
  <2>1. PICK x \in Closers(g) : Closers(g) = {x}
    BY <1>1, <1>3
  <2>2. Cardinality({x}) = 1
    BY FS_Singleton
  <2>3. Closing(g)
    BY <2>1 DEF Closers
  <2>4. QED
    BY <1>3, <2>1, <2>2, <2>3
<1>4. QED
  BY <1>2, <1>3

(* Every id the manager minted is in exactly one place: routed, on its way *)
(* to the consumer as one linkDown, or closed.  Whoever removes a route    *)
(* under the lock delivers its linkDown, and nobody else does, however     *)
(* tear-downs and the bearers' own reports interleave.                     *)
THEOREM OnePlaceAlways == Spec => []OnePlace
<1>1. ASSUME Typed, RoutesMinted, HandsDisjoint, NoneLost PROVE OnePlace
  <2> SUFFICES ASSUME NEW g \in Global
               PROVE  Cardinality(Closers(g)) + (IF fromGlobal[g] # None THEN 1 ELSE 0)
                        + (IF g \in downed THEN 1 ELSE 0)
                      = (IF g < nextGlobal THEN 1 ELSE 0)
    BY DEF OnePlace
  <2>1. CASE Closing(g)
    <3>1. Cardinality(Closers(g)) = 1
      BY <1>1, <2>1, OneCloser DEF NoneLost
    <3>2. QED
      BY <2>1, <3>1 DEF Closing
  <2>2. CASE ~Closing(g)
    <3>1. Cardinality(Closers(g)) = 0
      BY <1>1, <2>2, OneCloser
    <3>2. fromGlobal[g] # None \/ g \in downed <=> g < nextGlobal
      BY <1>1, <2>2 DEF Closing, RoutesMinted, HandsDisjoint, Past
    <3>3. ~(fromGlobal[g] # None /\ g \in downed)
      BY <1>1 DEF HandsDisjoint, Past
    <3>4. QED
      BY <3>1, <3>2, <3>3
  <2>3. QED
    BY <2>1, <2>2
<1>2. QED
  BY <1>1, TypedAlways, RoutesCorrect, HandsCorrect, NoneLostAlways, PTL

(* The consumer's table: it holds announced links only, and a routed one it *)
(* does not hold is in the hands of the callback that announces it.         *)
TableAnnounced == table \subseteq upped
RoutedAnnounced ==
  \A g \in Global : fromGlobal[g] # None /\ g \notin table =>
    callback[fromGlobal[g]] = "up" /\ held[fromGlobal[g]] = g

LEMMA TableStep ==
  ASSUME Typed, RoutesMinted, HandsDisjoint, TableAnnounced, RoutedAnnounced, [Next]_vars
  PROVE  TableAnnounced' /\ RoutedAnnounced'
<1> USE NoneAssumption DEF Typed, TypeOK, TableAnnounced, RoutedAnnounced
<1>1. ASSUME NEW t \in Controller, TearDown(t) PROVE TableAnnounced' /\ RoutedAnnounced'
  BY <1>1 DEF TearDown, Forget, reports, consumer
<1>2. ASSUME NEW t \in Controller, NEW g \in Global, NotifyDown(t, g)
      PROVE  TableAnnounced' /\ RoutedAnnounced'
  <2>1. fromGlobal[g] = None
    BY <1>2 DEF NotifyDown, HandsDisjoint, OrphanDowns, Closing
  <2>2. QED
    BY <1>2, <2>1 DEF NotifyDown, links, reports
<1>3. ASSUME NEW k \in Link, Up(k) PROVE TableAnnounced' /\ RoutedAnnounced'
  <2>1. \A g \in Global : fromGlobal[g] = k => g \in table
    BY <1>3 DEF Up, MayAnnounce, MayReport
  <2>2. QED
    BY <1>3, <2>1 DEF Up, Mint, consumer, LinksOK, ReportsOK
<1>4. ASSUME NEW k \in Link, Down(k) PROVE TableAnnounced' /\ RoutedAnnounced'
  <2>1. \A g \in Global : fromGlobal[g] = k => g \in table
    BY <1>4 DEF Down, MayReport
  <2>2. UNCHANGED <<table, upped>> /\ Forget({k})
        /\ \A m \in Link : m # k => callback'[m] = callback[m] /\ held'[m] = held[m]
    BY <1>4 DEF Down, consumer, ReportsOK
  <2>3. QED
    BY <2>1, <2>2 DEF Forget, LinksOK
<1>5. ASSUME NEW k \in Link, Bytes(k) PROVE TableAnnounced' /\ RoutedAnnounced'
  BY <1>5 DEF Bytes, MayReport, links, consumer, LinksOK, ReportsOK
<1>6. ASSUME NEW k \in Link, Sink(k) PROVE TableAnnounced' /\ RoutedAnnounced'
  <2>1. CASE SinkUp(k) \/ SinkBytes(k)
    BY <2>1 DEF SinkUp, SinkBytes, EndCallback, links, consumer, LinksOK, ReportsOK
  <2>2. CASE SinkDown(k)
    <3>1. held[k] \in Global /\ fromGlobal[held[k]] = None
      BY <2>2 DEF SinkDown, HandsDisjoint, ReportedDowns, Closing, IdInHand
    <3>2. QED
      BY <2>2, <3>1 DEF SinkDown, EndCallback, links, LinksOK, ReportsOK
  <2>3. QED
    BY <1>6, <2>1, <2>2 DEF Sink
<1>7. CASE UNCHANGED ledgerVars
  BY <1>7 DEF ledgerVars, links, consumer
<1>8. QED
  BY <1>1, <1>2, <1>3, <1>4, <1>5, <1>6, <1>7, LedgerWriters

(* The consumer's link table differs from the manager's routes only by the *)
(* linkUps and linkDowns on their way, and by links whose linkDown has     *)
(* overtaken their linkUp.                                                 *)
THEOREM ConsumerTracksAlways == Spec => []ConsumerTracks
<1>1. Init => TableAnnounced /\ RoutedAnnounced
  BY DEF Init, TableAnnounced, RoutedAnnounced
<1>2. Spec => [](TableAnnounced /\ RoutedAnnounced)
  BY <1>1, TableStep, TypedAlways, RoutesCorrect, HandsCorrect, PTL DEF Spec
<1>3. ASSUME HandsDisjoint, NoneLost, TableAnnounced, RoutedAnnounced PROVE ConsumerTracks
  <2> SUFFICES ASSUME NEW g \in Global, fromGlobal[g] = None, g \in table
               PROVE  Closers(g) # {} \/ g \in downed
    BY <1>3 DEF ConsumerTracks, RoutedAnnounced
  <2>1. g < nextGlobal
    BY <1>3 DEF TableAnnounced, HandsDisjoint, Past
  <2>2. QED
    BY <1>3, <2>1 DEF NoneLost, Closing
<1>4. QED
  BY <1>2, <1>3, HandsCorrect, NoneLostAlways, PTL
-----------------------------------------------------------------------------
(* A host of one thread. *)

Stopping == {"disableCall", "stopCall"}
Disabling == {"disable", "disableCall", "teardown", "notify"}

(* The bearers host thread t has yet to finish with. *)
InWork(t) == todo[t] \cup ({cur[t]} \ {None})

(* A bearer that was called or marked is registered, and so is every one   *)
(* a loop over bearers has left.                                           *)
VisitsRegistered(t) ==
  /\ \A b \in Bearer : driven[b] # "never" \/ b \in stoppedBearers => b \in Registered
  /\ pc[t] \in Disabling \cup {"start", "startCall", "stop", "stopCall"} =>
       InWork(t) \subseteq Registered

(* The mark precedes the call, and nothing comes between but the call.     *)
MarkedFirst(t) ==
  /\ \A b \in Bearer : (b \in stoppedBearers <=> driven[b] = "stop")
                       \/ (pc[t] \in Stopping \cup {"startCall"} /\ b = cur[t])
  /\ pc[t] \in Stopping => cur[t] \in stoppedBearers
  /\ pc[t] = "startCall" => cur[t] \notin stoppedBearers
  /\ pc[t] = "teardown" => driven[cur[t]] = "stop"

(* What a call has already written is what it is about to bring about.     *)
Purpose(t) ==
  /\ pc[t] \in Disabling =>
       name[t] \in disabledNames /\ \A b \in InWork(t) : NameOf[b] = name[t]
  /\ pc[t] \in {"start", "startCall"} =>
       \A b \in InWork(t) : started /\ NameOf[b] \notin disabledNames
  /\ pc[t] \in {"snapshot", "stop", "stopCall"} => ~started

(* A bearer told otherwise than the settings say is still to be visited.   *)
Pending(t) ==
  /\ \A b \in Bearer : driven[b] = "start" =>
       \/ started /\ NameOf[b] \notin disabledNames
       \/ pc[t] = "snapshot"
       \/ pc[t] \in Disabling \cup {"stop", "stopCall"} /\ b \in InWork(t)
  /\ \A b \in Bearer : driven[b] = "stop" =>
       \/ ~started \/ NameOf[b] \in disabledNames
       \/ pc[t] \in {"start", "startCall"} /\ b \in InWork(t)

Books(t) == VisitsRegistered(t) /\ MarkedFirst(t) /\ Purpose(t) /\ Pending(t)

LEMMA BooksInit ==
  ASSUME Init, NEW t \in Controller
  PROVE  Books(t)
BY DEF Init, Books, VisitsRegistered, MarkedFirst, Purpose, Pending, Stopping, Disabling

(* What links do is none of the books' business. *)
LEMMA BooksKept ==
  ASSUME NEW t \in Controller, Books(t), UNCHANGED <<registry, enablement, driven, control>>
  PROVE  Books(t)'
BY DEF Books, VisitsRegistered, MarkedFirst, Purpose, Pending, InWork, Stopping, Disabling,
       Registered, registry, enablement, control

(* Each step of the only host thread keeps its books. *)
LEMMA BooksStep ==
  ASSUME NEW t \in Controller, Controller = {t}, Typed, Books(t), [Next]_vars
  PROVE  Books(t)'
<1> USE NoneAssumption
    DEF Books, VisitsRegistered, MarkedFirst, Purpose, Pending, InWork, Stopping, Disabling
<1> USE DEF Typed, TypeOK, RegistryOK, ControlOK, BearerInHand
<1>1. Registered \subseteq Registered' /\ Registered \subseteq Bearer
  BY RegistryGrows DEF Registered
<1>2. ASSUME Open(t) PROVE Books(t)'
  <2>1. CASE \E b \in Bearer : RegisterAttach(t, b)
    BY <1>1, <2>1 DEF RegisterAttach, enablement
  <2>2. CASE \E n \in Name : Disable(t, n)
    BY <1>1, <2>2 DEF Disable, Matches
  <2>3. CASE \E n \in Name : DisableAgain(t, n)
    BY <1>1, <2>3 DEF DisableAgain, control
  <2>4. CASE \E n \in Name : Enable(t, n)
    BY <1>1, <2>4 DEF Enable, Matches
  <2>5. CASE Start(t)
    BY <1>1, <2>5 DEF Start, Live
  <2>6. CASE Stop(t)
    BY <1>1, <2>6 DEF Stop
  <2>7. CASE \E g \in Global : Send(t, g)
    BY <1>1, <2>7 DEF Send, enablement
  <2>8. QED
    BY <1>2, <2>1, <2>2, <2>3, <2>4, <2>5, <2>6, <2>7 DEF Open
<1>3. ASSUME Proceed(t) PROVE Books(t)'
  <2>1. CASE RegisterAdd(t)
    BY <1>1, <2>1 DEF RegisterAdd, enablement
  <2>2. CASE DisableCall(t)
    BY <1>1, <2>2 DEF DisableCall, enablement
  <2>3. CASE TearDown(t)
    BY <1>1, <2>3 DEF TearDown, enablement
  <2>4. CASE NotifyDone(t) \/ \E g \in Global : NotifyDown(t, g)
    BY <1>1, <2>4 DEF NotifyDone, NotifyDown, enablement
  <2>5. CASE DisableReturn(t)
    BY <1>1, <2>5 DEF DisableReturn
  <2>6. CASE StartCall(t)
    BY <1>1, <2>6 DEF StartCall, enablement
  <2>7. CASE StopSnapshot(t)
    BY <1>1, <2>7 DEF StopSnapshot, enablement
  <2>8. CASE StopCall(t)
    BY <1>1, <2>8 DEF StopCall, enablement
  <2>9. CASE LoopReturn(t) \/ SendCall(t)
    BY <1>1, <2>9 DEF LoopReturn, SendCall, enablement
  <2>10. ASSUME NEW b \in Bearer, DisableMark(t, b) PROVE Books(t)'
    BY <1>1, <2>10 DEF DisableMark, IsNext
  <2>11. ASSUME NEW b \in Bearer, StartMark(t, b) PROVE Books(t)'
    BY <1>1, <2>11 DEF StartMark, IsNext
  <2>12. ASSUME NEW b \in Bearer, StopMark(t, b) PROVE Books(t)'
    BY <1>1, <2>12 DEF StopMark, IsNext
  <2>13. QED
    BY <1>3, <2>1, <2>2, <2>3, <2>4, <2>5, <2>6, <2>7, <2>8, <2>9, <2>10, <2>11, <2>12
    DEF Proceed
<1>4. ASSUME NEW k \in Link, Report(k) \/ Sink(k)
      PROVE  UNCHANGED <<registry, enablement, driven, control>>
  BY <1>4 DEF Report, Sink, Up, UpRefused, Bytes, Down, SinkUp, SinkBytes, SinkDown, EndCallback
<1>5. UNCHANGED vars => UNCHANGED <<registry, enablement, driven, control>>
  BY DEF vars
<1>6. QED
  BY <1>2, <1>3, <1>4, <1>5, BooksKept DEF Next

(* With one host thread, the books between calls say what the bearers were *)
(* last told: no bearer of an enabled transport stays muted, no disabled   *)
(* one is left started, whatever sequence of calls came before and however *)
(* the bearers' reports interleave with them.                              *)
THEOREM SettledAlways ==
  ASSUME NEW CONSTANT t, Controller = {t}
  PROVE  Spec => []Settled
<1>1. Init => Books(t)
  BY BooksInit
<1>2. Typed /\ Books(t) /\ [Next]_vars => Books(t)'
  BY BooksStep
<1>3. ASSUME Typed, Books(t) PROVE Settled
  <2> SUFFICES ASSUME pc[t] = "idle", NEW b \in Registered
               PROVE  /\ b \in stoppedBearers <=> driven[b] = "stop"
                      /\ driven[b] = "start" => b \in Live /\ started
                      /\ driven[b] = "stop" => b \notin Live \/ ~started
    BY DEF Settled
  <2>1. b \in Bearer
    BY <1>3 DEF Registered, Typed, TypeOK, RegistryOK
  <2>2. QED
    BY <1>3, <2>1 DEF Books, MarkedFirst, Pending, Live, Stopping, Disabling
<1>4. QED
  BY <1>1, <1>2, <1>3, TypedAlways, PTL DEF Spec

(* So the promise of Bearers.kt:141 that the race of start() with a second  *)
(* thread's setEnabled(false) breaks is kept for a host of one thread.      *)
COROLLARY OneHostStaysDown ==
  ASSUME NEW CONSTANT t, Controller = {t}
  PROVE  Spec => []DisabledStaysDown
<1>1. Settled => DisabledStaysDown
  BY DEF Settled, DisabledStaysDown, Live
<1>2. QED
  BY <1>1, SettledAlways, PTL
=============================================================================
