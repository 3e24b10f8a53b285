---------------------------- MODULE NativeHandle ----------------------------
(***************************************************************************)
(* NativeHandleLifecycle and the HopNode calls that go through it          *)
(* (src/main/kotlin/sh/hop/Hop.kt).                                        *)
(*                                                                         *)
(* Each node owns one native handle behind one fair reentrant lock.  A     *)
(* thread is a stack of calls: the host calls into a node from the bottom, *)
(* and a synchronous callback of the native call on top calls a node again *)
(* (drainOutgoing's sink, the inbox and service sinks).  The host's own    *)
(* close(), HopNode.free() and the Cleaner's run() are all close().        *)
(***************************************************************************)
EXTENDS Integers, Sequences

CONSTANTS
  Node,      \* handles
  Thread,    \* host threads and the Cleaner's
  Reach,     \* <<t, n, m>>: on thread t a callback of n may call or close m
  MaxDepth,  \* bound: how deep calls nest on one thread
  None       \* no thread

ASSUME ReachAssumption == Reach \subseteq Thread \X Node \X Node
ASSUME DepthAssumption == MaxDepth \in Nat
ASSUME NoThreadAssumption == None \notin Thread

VARIABLES
  owner, holds, queue,           \* the lock: holder, hold count, waiters in order
  pointer, closed, activeCalls,  \* the lifecycle's fields; pointer: is it non-null
  frees,                         \* history: how often the native handle was freed
  stack                          \* each thread's calls, innermost last

lock == <<owner, holds, queue>>
handle == <<pointer, closed, activeCalls, frees>>
vars == <<lock, handle, stack>>

Init ==
  /\ owner = [n \in Node |-> None]
  /\ holds = [n \in Node |-> 0]
  /\ queue = [n \in Node |-> <<>>]
  /\ pointer = [n \in Node |-> TRUE]
  /\ closed = [n \in Node |-> FALSE]
  /\ activeCalls = [n \in Node |-> 0]
  /\ frees = [n \in Node |-> 0]
  /\ stack = [t \in Thread |-> <<>>]

(* A call on the stack: its node, what it is, and, once its block runs,    *)
(* its rank among the calls then active on the node (0 while it waits).    *)
Frame(n, op, rank) == [node |-> n, op |-> op, rank |-> rank]
Idle(t) == stack[t] = <<>>
Top(t) == stack[t][Len(stack[t])]
Below(t) == SubSeq(stack[t], 1, Len(stack[t]) - 1)
InNative(t) == ~Idle(t) /\ Top(t).rank > 0
Waiting(t, op) == ~Idle(t) /\ Top(t).rank = 0 /\ Top(t).op = op

-----------------------------------------------------------------------------
(* The lock, java.util.concurrent's ReentrantLock(fair = true). *)

Enqueue(t, n) ==
  queue' = IF owner[n] = t THEN queue ELSE [queue EXCEPT ![n] = Append(@, t)]

Barges(t, n) == owner[n] \in {t, None}  \* mutant: an unfair lock
MayLock(t, n) ==
  owner[n] = t \/ (owner[n] = None /\ queue[n] # <<>> /\ Head(queue[n]) = t)

Dequeue(t, n) ==
  queue' = IF owner[n] = t THEN queue ELSE [queue EXCEPT ![n] = Tail(@)]

Lock(t, n) ==
  /\ MayLock(t, n)
  /\ Dequeue(t, n)
  /\ owner' = [owner EXCEPT ![n] = t]
  /\ holds' = [holds EXCEPT ![n] = @ + 1]

UnlockWhole(n) ==  \* mutant: gives the lock up one hold too early
  /\ holds' = [holds EXCEPT ![n] = @ - 1]
  /\ owner' = [owner EXCEPT ![n] = None]
  /\ UNCHANGED queue
Unlock(n) ==
  /\ holds' = [holds EXCEPT ![n] = @ - 1]
  /\ owner' = IF holds[n] = 1 THEN [owner EXCEPT ![n] = None] ELSE owner
  /\ UNCHANGED queue

-----------------------------------------------------------------------------
(* freeLocked: null the pointer, then free; nothing if it is null. *)
FreeLocked(n) ==
  /\ pointer' = [pointer EXCEPT ![n] = FALSE]
  /\ frees' = [frees EXCEPT ![n] = IF pointer[n] THEN @ + 1 ELSE @]

(* A node method or close() is called and asks for the node's lock.        *)
Call(t, n, op) ==
  /\ Len(stack[t]) < MaxDepth
  /\ stack' = [stack EXCEPT ![t] = Append(@, Frame(n, op, 0))]
  /\ Enqueue(t, n)
  /\ UNCHANGED <<owner, holds, handle>>

HostCall(t, n, op) == Idle(t) /\ Call(t, n, op)
Callback(t, n, op) == InNative(t) /\ <<t, Top(t).node, n>> \in Reach /\ Call(t, n, op)

(* call(): with the lock held, on a live handle, the block runs. *)
NotYetNull(n) == pointer[n]  \* mutant: call() no longer looks at closed
Usable(n) == ~closed[n] /\ pointer[n]

Enter(t) ==
  /\ Waiting(t, "call")
  /\ LET n == Top(t).node IN
       /\ Usable(n)
       /\ Lock(t, n)
       /\ activeCalls' = [activeCalls EXCEPT ![n] = @ + 1]
       /\ stack' = [stack EXCEPT ![t] = Append(Below(t), Frame(n, "call", activeCalls[n] + 1))]
  /\ UNCHANGED <<pointer, closed, frees>>

(* call() on a closed handle throws, before it counts itself. *)
RefuseInTry(t) ==  \* mutant: the check moved into the try
  /\ Waiting(t, "call")
  /\ LET n == Top(t).node IN
       /\ ~Usable(n)
       /\ MayLock(t, n) /\ Dequeue(t, n)
       /\ activeCalls' = [activeCalls EXCEPT ![n] = @ - 1]
  /\ stack' = [stack EXCEPT ![t] = Below(t)]
  /\ UNCHANGED <<owner, holds, pointer, closed, frees>>
Refuse(t) ==
  /\ Waiting(t, "call")
  /\ LET n == Top(t).node IN
       /\ ~Usable(n)
       /\ MayLock(t, n) /\ Dequeue(t, n)
  /\ stack' = [stack EXCEPT ![t] = Below(t)]
  /\ UNCHANGED <<owner, holds, handle>>

(* The block returns or throws: the finally clause counts the call out and *)
(* frees a handle closed meanwhile. *)
NeverLast(n) == FALSE                                     \* mutant
LastBeforeCounting(n) == closed[n] /\ activeCalls[n] = 0  \* mutant
LastOut(n) == closed[n] /\ activeCalls[n] = 1

Return(t) ==
  /\ InNative(t)
  /\ LET n == Top(t).node IN
       /\ activeCalls' = [activeCalls EXCEPT ![n] = @ - 1]
       /\ IF LastOut(n) THEN FreeLocked(n) ELSE UNCHANGED <<pointer, frees>>
       /\ Unlock(n)
  /\ stack' = [stack EXCEPT ![t] = Below(t)]
  /\ UNCHANGED closed

(* close(): idempotent; frees at once when no call is active, which is to  *)
(* say unless the closing thread is itself in a callback of this node.     *)
CloseFreesNow(n) == ~closed[n]  \* mutant
CloseFrees(n) == ~closed[n] /\ activeCalls[n] = 0

CloseKeepsLock(t) ==  \* mutant: a second close returns without unlocking
  /\ Waiting(t, "close")
  /\ LET n == Top(t).node IN
       /\ MayLock(t, n) /\ Dequeue(t, n)
       /\ closed' = [closed EXCEPT ![n] = TRUE]
       /\ IF CloseFrees(n) THEN FreeLocked(n) ELSE UNCHANGED <<pointer, frees>>
       /\ owner' = IF closed[n] THEN [owner EXCEPT ![n] = t] ELSE owner
  /\ stack' = [stack EXCEPT ![t] = Below(t)]
  /\ UNCHANGED <<holds, activeCalls>>
Close(t) ==
  /\ Waiting(t, "close")
  /\ LET n == Top(t).node IN
       /\ MayLock(t, n) /\ Dequeue(t, n)
       /\ closed' = [closed EXCEPT ![n] = TRUE]
       /\ IF CloseFrees(n) THEN FreeLocked(n) ELSE UNCHANGED <<pointer, frees>>
  /\ stack' = [stack EXCEPT ![t] = Below(t)]
  /\ UNCHANGED <<owner, holds, activeCalls>>

-----------------------------------------------------------------------------
Op == {"call", "close"}
Step(t) == Enter(t) \/ Refuse(t) \/ Return(t) \/ Close(t)

Next == \E t \in Thread :
  \/ Step(t)
  \/ \E n \in Node, op \in Op : HostCall(t, n, op) \/ Callback(t, n, op)

Spec == Init /\ [][Next]_vars

(* A thread whose turn it is takes the lock; a native call, at whichever   *)
(* depth, makes finitely many callbacks (one per queued packet or message) *)
(* and then returns.                                                       *)
Fairness == \A t \in Thread :
  /\ WF_vars(Enter(t)) /\ WF_vars(Refuse(t)) /\ WF_vars(Close(t))
  /\ \A d \in 1 .. MaxDepth : SF_vars(Len(stack[t]) = d /\ Return(t))
FairSpec == Spec /\ Fairness

-----------------------------------------------------------------------------
(* Properties *)

FrameSet == [node : Node, op : Op, rank : Nat]

(* Every variable has its type. *)
TypeOK ==
  /\ owner \in [Node -> Thread \cup {None}]
  /\ holds \in [Node -> Nat]
  /\ queue \in [Node -> Seq(Thread)]
  /\ pointer \in [Node -> BOOLEAN] /\ closed \in [Node -> BOOLEAN]
  /\ activeCalls \in [Node -> Nat] /\ frees \in [Node -> Nat]
  /\ stack \in [Thread -> Seq(FrameSet)]

(* The native calls a thread is inside of, on node n. *)
Inside(t, n) == {i \in DOMAIN stack[t] : stack[t][i].node = n /\ stack[t][i].rank > 0}

(* hop.h:118-123: a handle is freed at most once, never while a call on it *)
(* is active on any thread, and no call enters it afterwards.              *)
NoUseAfterFree ==
  \A n \in Node :
    /\ frees[n] <= 1
    /\ frees[n] = 1 => \A t \in Thread : Inside(t, n) = {}

(* One thread at a time is inside a node, however its callbacks reenter.   *)
ExclusiveUse ==
  \A n \in Node : \A s, t \in Thread : Inside(s, n) # {} /\ Inside(t, n) # {} => s = t

(* A handle that is closed and not in use has been freed: neither order of *)
(* a close and the return of the last call leaks it.                       *)
ClosedIsFreed ==
  \A n \in Node : closed[n] /\ (\A t \in Thread : Inside(t, n) = {}) => frees[n] = 1

(* A callback that closes its node ends the use of it: from the close on   *)
(* calls only come to an end, nested ones included.                        *)
ClosedOnlyDrains ==
  [][\A n \in Node : closed[n] => activeCalls'[n] <= activeCalls[n]]_vars

(* No threads wait for each other's locks in a ring while callbacks cross  *)
(* between nodes on one thread only, as those of a LoopbackBearer pair do  *)
(* in Smoke.kt.  Others may call and close any node, but from a callback   *)
(* only its own: to close another one there is to wait with a lock held.   *)
WaitsFor(s, t) ==
  ~Idle(s) /\ Top(s).rank = 0 /\ s # t /\ owner[Top(s).node] = t
NoCircularWait ==
  \A S \in (SUBSET Thread) \ {{}} : \E s \in S : \A t \in S : ~WaitsFor(s, t)

(* Every call into a node gets its turn, throws or returns: a close waits  *)
(* for the calls before it and no longer.                                  *)
CallsEnd == \A t \in Thread : (~Idle(t)) ~> Idle(t)

(* A closed handle is eventually freed. *)
CloseLeadsToFree == \A n \in Node : closed[n] ~> frees[n] = 1
=============================================================================
