------------------------ MODULE NativeHandle_proofs ------------------------
(***************************************************************************)
(* Proofs about NativeHandle for any nodes, threads, callback reach and    *)
(* nesting depth.  The invariant ties the threads' stacks to the counters  *)
(* of the lifecycle: the calls inside a node are its owner's, and ranked   *)
(* 1 .. activeCalls from the bottom of that thread's stack up.             *)
(***************************************************************************)
EXTENDS NativeHandle, SequenceTheorems, TLAPS

LockOK ==
  /\ owner \in [Node -> Thread \cup {None}]
  /\ holds \in [Node -> Nat]
  /\ queue \in [Node -> Seq(Thread)]
HandleOK ==
  /\ pointer \in [Node -> BOOLEAN] /\ closed \in [Node -> BOOLEAN]
  /\ activeCalls \in [Node -> Nat] /\ frees \in [Node -> Nat]
StackOK == stack \in [Thread -> Seq(FrameSet)]

(* Only the innermost call of a thread can be waiting. *)
TopWaits == \A t \in Thread : \A i \in DOMAIN stack[t] :
  i < Len(stack[t]) => stack[t][i].rank > 0

(* A call inside a node is its owner's, and one of those counted. *)
InsideOwned == \A t \in Thread : \A i \in DOMAIN stack[t] :
  stack[t][i].rank > 0 =>
    /\ owner[stack[t][i].node] = t
    /\ stack[t][i].rank <= activeCalls[stack[t][i].node]

(* Ranks on one node grow towards the top. *)
RanksGrow == \A t \in Thread : \A i, j \in DOMAIN stack[t] :
  i < j /\ stack[t][i].node = stack[t][j].node /\ stack[t][i].rank > 0 /\ stack[t][j].rank > 0
    => stack[t][i].rank < stack[t][j].rank

(* Every call counted is on the owner's stack. *)
RanksFilled == \A n \in Node : \A k \in 1 .. activeCalls[n] :
  \E i \in DOMAIN stack[owner[n]] : stack[owner[n]][i].node = n /\ stack[owner[n]][i].rank = k

(* The lock is held once per active call. *)
LockCounts == \A n \in Node :
  /\ holds[n] = activeCalls[n]
  /\ owner[n] = None <=> activeCalls[n] = 0

(* Freed is null is closed with no call active. *)
FreedOnce == \A n \in Node :
  /\ frees[n] = IF pointer[n] THEN 0 ELSE 1
  /\ ~pointer[n] <=> closed[n] /\ activeCalls[n] = 0

HInv ==
  /\ LockOK /\ HandleOK /\ StackOK
  /\ TopWaits /\ InsideOwned /\ RanksGrow /\ RanksFilled
  /\ LockCounts /\ FreedOnce

-----------------------------------------------------------------------------
(* Sequence facts: what pushing, popping and replacing a top frame leave. *)

LEMMA PushFacts ==
  ASSUME NEW s \in Seq(FrameSet), NEW f \in FrameSet
  PROVE  /\ Append(s, f) \in Seq(FrameSet)
         /\ Len(Append(s, f)) = Len(s) + 1
         /\ DOMAIN Append(s, f) = 1 .. Len(s) + 1
         /\ \A i \in 1 .. Len(s) : Append(s, f)[i] = s[i]
         /\ Append(s, f)[Len(s) + 1] = f
OBVIOUS

LEMMA PopFacts ==
  ASSUME NEW s \in Seq(FrameSet), s # <<>>
  PROVE  LET r == SubSeq(s, 1, Len(s) - 1) IN
         /\ r \in Seq(FrameSet)
         /\ Len(r) = Len(s) - 1
         /\ DOMAIN r = 1 .. Len(s) - 1
         /\ \A i \in 1 .. Len(s) - 1 : r[i] = s[i]
<1>1. Len(s) \in Nat \ {0} /\ \A i \in 1 .. Len(s) : s[i] \in FrameSet
  OBVIOUS
<1>2. Len(s) - 1 \in Int /\ \A i \in 1 .. Len(s) - 1 : s[i] \in FrameSet
  BY <1>1
<1> DEFINE r == SubSeq(s, 1, Len(s) - 1)
<1>3. /\ r \in Seq(FrameSet)
      /\ Len(r) = IF 1 <= Len(s) - 1 THEN (Len(s) - 1) - 1 + 1 ELSE 0
      /\ \A i \in 1 .. (Len(s) - 1) - 1 + 1 : r[i] = s[1 + i - 1]
  BY <1>2, SubSeqProperties
<1> HIDE DEF r
<1>4. Len(r) = Len(s) - 1
  <2>1. \A k \in Nat \ {0} : (IF 1 <= k - 1 THEN (k - 1) - 1 + 1 ELSE 0) = k - 1
    OBVIOUS
  <2>2. Len(s) \in Nat \ {0}
    BY <1>1
  <2>3. Len(r) = IF 1 <= Len(s) - 1 THEN (Len(s) - 1) - 1 + 1 ELSE 0
    BY <1>3
  <2> QED
    BY <2>1, <2>2, <2>3
<1>5. \A i \in 1 .. Len(s) - 1 : r[i] = s[i]
  <2> TAKE i \in 1 .. Len(s) - 1
  <2>1. i \in 1 .. (Len(s) - 1) - 1 + 1 /\ 1 + i - 1 = i
    BY <1>1
  <2> QED
    BY <2>1, <1>3
<1>6. DOMAIN r = 1 .. Len(s) - 1
  BY <1>3, <1>4
<1> QED
  BY <1>3, <1>4, <1>5, <1>6 DEF r

(* A thread with a call on its stack has a top frame, and what is below.   *)
LEMMA StackFacts ==
  ASSUME StackOK, NEW t \in Thread, ~Idle(t)
  PROVE  /\ Len(stack[t]) \in Nat \ {0}
         /\ Top(t) \in FrameSet /\ Top(t).node \in Node /\ Top(t).rank \in Nat
         /\ Len(stack[t]) \in DOMAIN stack[t]
         /\ Below(t) \in Seq(FrameSet)
         /\ Len(Below(t)) = Len(stack[t]) - 1
         /\ DOMAIN Below(t) = 1 .. Len(stack[t]) - 1
         /\ \A i \in 1 .. Len(stack[t]) - 1 : Below(t)[i] = stack[t][i]
<1>1. stack[t] \in Seq(FrameSet) /\ stack[t] # <<>>
  BY DEF StackOK, Idle
<1>2. Len(stack[t]) \in Nat \ {0} /\ Top(t) \in FrameSet /\ Len(stack[t]) \in DOMAIN stack[t]
  BY <1>1 DEF Top
<1>3. Top(t).node \in Node /\ Top(t).rank \in Nat
  BY <1>2 DEF FrameSet
<1> QED
  BY <1>1, <1>2, <1>3, PopFacts DEF Below

-----------------------------------------------------------------------------
(* What the three kinds of step do to the stacks. *)

Others(t) == \A u \in Thread \ {t} : stack'[u] = stack[u]
Prefix(t, k) == \A i \in 1 .. k : stack'[t][i] = stack[t][i]

LEMMA PushStep ==
  ASSUME StackOK, NEW t \in Thread, NEW n \in Node, NEW op \in Op,
         stack' = [stack EXCEPT ![t] = Append(@, Frame(n, op, 0))]
  PROVE  /\ StackOK' /\ Others(t)
         /\ Len(stack[t]) \in Nat /\ DOMAIN stack[t] = 1 .. Len(stack[t])
         /\ Len(stack'[t]) = Len(stack[t]) + 1
         /\ DOMAIN stack'[t] = 1 .. Len(stack[t]) + 1
         /\ Prefix(t, Len(stack[t]))
         /\ stack'[t][Len(stack[t]) + 1] = Frame(n, op, 0)
         /\ stack'[t][Len(stack[t]) + 1].rank = 0
<1>1. stack[t] \in Seq(FrameSet) /\ stack'[t] = Append(stack[t], Frame(n, op, 0))
  BY DEF StackOK
<1>2. Frame(n, op, 0) \in FrameSet /\ Frame(n, op, 0).rank = 0
  BY DEF Frame, FrameSet
<1>3. stack'[t] \in Seq(FrameSet)
  BY <1>1, <1>2, PushFacts
<1>4. StackOK' /\ Others(t)
  BY <1>3 DEF StackOK, Others
<1>5. Len(stack[t]) \in Nat /\ DOMAIN stack[t] = 1 .. Len(stack[t])
  BY <1>1
<1> QED
  BY <1>1, <1>2, <1>4, <1>5, PushFacts DEF Prefix

LEMMA PopStep ==
  ASSUME StackOK, NEW t \in Thread, ~Idle(t), stack' = [stack EXCEPT ![t] = Below(t)]
  PROVE  /\ StackOK' /\ Others(t)
         /\ Len(stack[t]) \in Nat \ {0} /\ DOMAIN stack[t] = 1 .. Len(stack[t])
         /\ Len(stack'[t]) = Len(stack[t]) - 1
         /\ DOMAIN stack'[t] = 1 .. Len(stack[t]) - 1
         /\ Prefix(t, Len(stack[t]) - 1)
<1>1. stack[t] \in Seq(FrameSet) /\ stack'[t] = Below(t)
  BY DEF StackOK
<1>2. StackOK' /\ Others(t)
  BY <1>1, StackFacts DEF StackOK, Others
<1> QED
  BY <1>1, <1>2, StackFacts DEF Prefix

LEMMA ReplaceStep ==
  ASSUME StackOK, NEW t \in Thread, ~Idle(t), NEW f \in FrameSet,
         stack' = [stack EXCEPT ![t] = Append(Below(t), f)]
  PROVE  /\ StackOK' /\ Others(t)
         /\ Len(stack[t]) \in Nat \ {0} /\ DOMAIN stack[t] = 1 .. Len(stack[t])
         /\ Len(stack'[t]) = Len(stack[t])
         /\ DOMAIN stack'[t] = 1 .. Len(stack[t])
         /\ Prefix(t, Len(stack[t]) - 1)
         /\ stack'[t][Len(stack[t])] = f
<1>1. stack[t] \in Seq(FrameSet) /\ stack'[t] = Append(Below(t), f)
  BY DEF StackOK
<1> DEFINE b == Below(t)
<1>2. /\ Len(stack[t]) \in Nat \ {0} /\ b \in Seq(FrameSet)
      /\ Len(b) = Len(stack[t]) - 1
      /\ \A i \in 1 .. Len(stack[t]) - 1 : b[i] = stack[t][i]
  BY StackFacts
<1> HIDE DEF b
<1>3. /\ Append(b, f) \in Seq(FrameSet)
      /\ Len(Append(b, f)) = Len(b) + 1
      /\ DOMAIN Append(b, f) = 1 .. Len(b) + 1
      /\ \A i \in 1 .. Len(b) : Append(b, f)[i] = b[i]
      /\ Append(b, f)[Len(b) + 1] = f
  BY <1>2, PushFacts
<1>4. stack'[t] = Append(b, f)
  BY <1>1 DEF b
<1>5. Len(b) + 1 = Len(stack[t])
  BY <1>2
<1>6. StackOK' /\ Others(t)
  BY <1>3, <1>4 DEF StackOK, Others, b
<1> QED
  BY <1>1, <1>2, <1>3, <1>4, <1>5, <1>6 DEF Prefix

-----------------------------------------------------------------------------
Ranked == TopWaits /\ InsideOwned /\ RanksGrow /\ RanksFilled

(* An active call's lock has a holder. *)
LEMMA HeldWhenActive ==
  ASSUME LockOK, LockCounts, NEW n \in Node, activeCalls[n] # 0
  PROVE  owner[n] \in Thread
BY DEF LockOK, LockCounts

(* A thread that calls a node waits on top of calls that are all inside.   *)
LEMMA CallRanks ==
  ASSUME HInv, NEW t \in Thread, NEW n \in Node, NEW op \in Op, Call(t, n, op),
         Idle(t) \/ InNative(t)
  PROVE  StackOK' /\ Ranked'
<1>1. /\ StackOK' /\ Others(t)
      /\ Len(stack[t]) \in Nat /\ DOMAIN stack[t] = 1 .. Len(stack[t])
      /\ Len(stack'[t]) = Len(stack[t]) + 1
      /\ DOMAIN stack'[t] = 1 .. Len(stack[t]) + 1
      /\ Prefix(t, Len(stack[t]))
      /\ stack'[t][Len(stack[t]) + 1].rank = 0
  BY PushStep DEF HInv, Call
<1>2. UNCHANGED <<owner, activeCalls>>
  BY DEF Call, handle
<1>3. \A i \in DOMAIN stack[t] : stack[t][i].rank > 0
  <2>1. CASE Idle(t)
    BY <2>1, <1>1 DEF Idle
  <2>2. CASE InNative(t)
    BY <2>2, <1>1 DEF InNative, Top, HInv, TopWaits
  <2> QED
    BY <2>1, <2>2
<1>4. TopWaits'
  <2> SUFFICES ASSUME NEW u \in Thread, NEW i \in DOMAIN stack'[u], i < Len(stack'[u])
               PROVE  stack'[u][i].rank > 0
    BY DEF TopWaits
  <2>1. CASE u = t
    BY <2>1, <1>1, <1>3 DEF Prefix
  <2>2. CASE u # t
    BY <2>2, <1>1 DEF Others, HInv, TopWaits
  <2> QED
    BY <2>1, <2>2
<1>5. InsideOwned'
  <2> SUFFICES ASSUME NEW u \in Thread, NEW i \in DOMAIN stack'[u], stack'[u][i].rank > 0
               PROVE  /\ owner[stack'[u][i].node] = u
                      /\ stack'[u][i].rank <= activeCalls[stack'[u][i].node]
    BY <1>2 DEF InsideOwned
  <2>1. i \in DOMAIN stack[u] /\ stack'[u][i] = stack[u][i]
    BY <1>1 DEF Others, Prefix
  <2> QED
    BY <2>1 DEF HInv, InsideOwned
<1>6. RanksGrow'
  <2> SUFFICES ASSUME NEW u \in Thread, NEW i \in DOMAIN stack'[u], NEW j \in DOMAIN stack'[u],
                      i < j, stack'[u][i].node = stack'[u][j].node,
                      stack'[u][i].rank > 0, stack'[u][j].rank > 0
               PROVE  stack'[u][i].rank < stack'[u][j].rank
    BY DEF RanksGrow
  <2>1. /\ i \in DOMAIN stack[u] /\ stack'[u][i] = stack[u][i]
        /\ j \in DOMAIN stack[u] /\ stack'[u][j] = stack[u][j]
    <3>1. CASE u = t
      <4>1. ASSUME NEW k \in DOMAIN stack'[t], stack'[t][k].rank > 0
            PROVE  k \in DOMAIN stack[t] /\ stack'[t][k] = stack[t][k]
        BY <4>1, <1>1 DEF Prefix
      <4> QED
        BY <3>1, <4>1
    <3>2. CASE u # t
      BY <3>2, <1>1 DEF Others
    <3> QED
      BY <3>1, <3>2
  <2> QED
    BY <2>1 DEF HInv, RanksGrow
<1>7. RanksFilled'
  <2> SUFFICES ASSUME NEW m \in Node, NEW k \in 1 .. activeCalls[m]
               PROVE  \E i \in DOMAIN stack'[owner[m]] :
                         stack'[owner[m]][i].node = m /\ stack'[owner[m]][i].rank = k
    BY <1>2 DEF RanksFilled
  <2>1. owner[m] \in Thread
    BY HeldWhenActive DEF HInv, HandleOK
  <2>2. PICK i \in DOMAIN stack[owner[m]] :
          stack[owner[m]][i].node = m /\ stack[owner[m]][i].rank = k
    BY DEF HInv, RanksFilled
  <2>3. i \in DOMAIN stack'[owner[m]] /\ stack'[owner[m]][i] = stack[owner[m]][i]
    BY <2>1, <1>1 DEF Others, Prefix
  <2> QED
    BY <2>2, <2>3
<1> QED
  BY <1>1, <1>4, <1>5, <1>6, <1>7 DEF Ranked

(* Giving up a call that only waited changes no call inside. *)
LEMMA WaiterLeaves ==
  ASSUME HInv, NEW t \in Thread, ~Idle(t), Top(t).rank = 0,
         stack' = [stack EXCEPT ![t] = Below(t)], UNCHANGED <<owner, activeCalls>>
  PROVE  StackOK' /\ Ranked'
<1>1. /\ StackOK' /\ Others(t)
      /\ Len(stack[t]) \in Nat \ {0} /\ DOMAIN stack[t] = 1 .. Len(stack[t])
      /\ Len(stack'[t]) = Len(stack[t]) - 1
      /\ DOMAIN stack'[t] = 1 .. Len(stack[t]) - 1
      /\ Prefix(t, Len(stack[t]) - 1)
  BY PopStep DEF HInv
<1>2. ASSUME NEW u \in Thread, NEW i \in DOMAIN stack'[u]
      PROVE  i \in DOMAIN stack[u] /\ stack'[u][i] = stack[u][i]
  BY <1>1, <1>2 DEF Others, Prefix
<1>3. ASSUME NEW u \in Thread, NEW i \in DOMAIN stack[u], stack[u][i].rank > 0
      PROVE  i \in DOMAIN stack'[u] /\ stack'[u][i] = stack[u][i]
  BY <1>1, <1>3 DEF Others, Prefix, Top
<1>4. TopWaits'
  <2> SUFFICES ASSUME NEW u \in Thread, NEW i \in DOMAIN stack'[u], i < Len(stack'[u])
               PROVE  stack'[u][i].rank > 0
    BY DEF TopWaits
  <2>1. i < Len(stack[u])
    BY <1>1 DEF Others
  <2> QED
    BY <2>1, <1>2 DEF HInv, TopWaits
<1>5. InsideOwned'
  BY <1>2 DEF HInv, InsideOwned
<1>6. RanksGrow'
  BY <1>2 DEF HInv, RanksGrow
<1>7. RanksFilled'
  <2> SUFFICES ASSUME NEW m \in Node, NEW k \in 1 .. activeCalls[m]
               PROVE  \E i \in DOMAIN stack'[owner[m]] :
                         stack'[owner[m]][i].node = m /\ stack'[owner[m]][i].rank = k
    BY DEF RanksFilled
  <2>1. owner[m] \in Thread
    BY HeldWhenActive DEF HInv, HandleOK
  <2>2. PICK i \in DOMAIN stack[owner[m]] :
          stack[owner[m]][i].node = m /\ stack[owner[m]][i].rank = k
    BY DEF HInv, RanksFilled
  <2> QED
    BY <2>1, <2>2, <1>3
<1> QED
  BY <1>1, <1>4, <1>5, <1>6, <1>7 DEF Ranked

(* A call that enters takes the lock and the next rank. *)
LEMMA EnterRanks ==
  ASSUME HInv, NEW t \in Thread, Enter(t)
  PROVE  StackOK' /\ Ranked'
<1> DEFINE n == Top(t).node
           k == activeCalls[n] + 1
<1>1. ~Idle(t) /\ Top(t).rank = 0 /\ n \in Node
  BY StackFacts DEF Enter, Waiting, HInv
<1>2. /\ stack' = [stack EXCEPT ![t] = Append(Below(t), Frame(n, "call", k))]
      /\ activeCalls' = [activeCalls EXCEPT ![n] = @ + 1]
      /\ owner[n] \in {t, None}
      /\ owner' = [owner EXCEPT ![n] = t]
  BY DEF Enter, Lock, MayLock
<1>3. activeCalls \in [Node -> Nat] /\ k \in Nat /\ k > 0 /\ owner \in [Node -> Thread \cup {None}]
  BY <1>1 DEF HInv, HandleOK, LockOK
<1>4. Frame(n, "call", k) \in FrameSet
  BY <1>1, <1>3 DEF Frame, FrameSet, Op
<1> DEFINE f == Frame(n, "call", k)
           last == Len(stack[t])
<1>5. /\ StackOK' /\ Others(t)
      /\ last \in Nat \ {0} /\ DOMAIN stack[t] = 1 .. last
      /\ Len(stack'[t]) = last
      /\ DOMAIN stack'[t] = 1 .. last
      /\ Prefix(t, last - 1)
      /\ stack'[t][last] = f
  BY <1>1, <1>2, <1>4, ReplaceStep DEF HInv
<1>6. f.node = n /\ f.rank = k /\ stack[t][last].rank = 0
  BY <1>1 DEF Frame, Top
<1>7. activeCalls'[n] = k /\ owner'[n] = t
  BY <1>1, <1>2, <1>3
<1>8. \A m \in Node \ {n} : activeCalls'[m] = activeCalls[m] /\ owner'[m] = owner[m]
  BY <1>2, <1>3
<1> HIDE DEF n, k, f, last
<1>9. ASSUME NEW u \in Thread, NEW i \in DOMAIN stack'[u], u # t \/ i # last
      PROVE  i \in DOMAIN stack[u] /\ stack'[u][i] = stack[u][i]
  BY <1>5, <1>9 DEF Others, Prefix
<1>10. ASSUME NEW u \in Thread, NEW i \in DOMAIN stack[u], stack[u][i].rank > 0
       PROVE  i \in DOMAIN stack'[u] /\ stack'[u][i] = stack[u][i]
  BY <1>5, <1>6, <1>10 DEF Others, Prefix
<1>11. TopWaits'
  <2> SUFFICES ASSUME NEW u \in Thread, NEW i \in DOMAIN stack'[u], i < Len(stack'[u])
               PROVE  stack'[u][i].rank > 0
    BY DEF TopWaits
  <2>1. i < Len(stack[u]) /\ (u # t \/ i # last)
    BY <1>5 DEF Others, last
  <2> QED
    BY <2>1, <1>9 DEF HInv, TopWaits
(* frames that were inside are still the owner's; n's were t's, if any *)
<1>12. ASSUME NEW u \in Thread, NEW i \in DOMAIN stack[u], stack[u][i].rank > 0
       PROVE  /\ stack[u][i].node \in Node /\ stack[u][i].rank \in Nat
              /\ owner'[stack[u][i].node] = u
              /\ stack[u][i].rank <= activeCalls[stack[u][i].node]
  <2>1. stack[u][i] \in FrameSet
    BY DEF HInv, StackOK
  <2>2. owner[stack[u][i].node] = u /\ stack[u][i].rank <= activeCalls[stack[u][i].node]
    BY <1>12 DEF HInv, InsideOwned
  <2>3. u # None
    BY NoThreadAssumption
  <2>4. stack[u][i].node \in Node /\ stack[u][i].rank \in Nat
    BY <2>1 DEF FrameSet
  <2> QED
    BY <1>2, <1>7, <1>8, <2>2, <2>3, <2>4 DEF n
<1>13. InsideOwned'
  <2> SUFFICES ASSUME NEW u \in Thread, NEW i \in DOMAIN stack'[u], stack'[u][i].rank > 0
               PROVE  /\ owner'[stack'[u][i].node] = u
                      /\ stack'[u][i].rank <= activeCalls'[stack'[u][i].node]
    BY DEF InsideOwned
  <2>1. CASE u = t /\ i = last
    BY <2>1, <1>3, <1>5, <1>6, <1>7
  <2>2. CASE u # t \/ i # last
    <3>1. i \in DOMAIN stack[u] /\ stack'[u][i] = stack[u][i]
      BY <2>2, <1>9
    <3> DEFINE m == stack[u][i].node
    <3>2. m \in Node /\ owner'[m] = u /\ stack[u][i].rank \in Nat /\ stack[u][i].rank <= activeCalls[m]
      BY <3>1, <1>12
    <3>3. activeCalls[m] \in Nat /\ activeCalls'[m] \in Nat /\ activeCalls[m] <= activeCalls'[m]
      BY <3>2, <1>3, <1>7, <1>8 DEF k, n
    <3> QED
      BY <3>1, <3>2, <3>3
  <2> QED
    BY <2>1, <2>2
<1>14. RanksGrow'
  <2> SUFFICES ASSUME NEW u \in Thread, NEW i \in DOMAIN stack'[u], NEW j \in DOMAIN stack'[u],
                      i < j, stack'[u][i].node = stack'[u][j].node,
                      stack'[u][i].rank > 0, stack'[u][j].rank > 0
               PROVE  stack'[u][i].rank < stack'[u][j].rank
    BY DEF RanksGrow
  <2>1. u # t \/ i # last
    BY <1>5
  <2>2. i \in DOMAIN stack[u] /\ stack'[u][i] = stack[u][i]
    BY <2>1, <1>9
  <2>3. CASE u = t /\ j = last
    BY <2>2, <2>3, <1>3, <1>5, <1>6, <1>12 DEF k
  <2>4. CASE u # t \/ j # last
    <3>1. j \in DOMAIN stack[u] /\ stack'[u][j] = stack[u][j]
      BY <2>4, <1>9
    <3> QED
      BY <2>2, <3>1 DEF HInv, RanksGrow
  <2> QED
    BY <2>3, <2>4
<1>15. RanksFilled'
  <2> SUFFICES ASSUME NEW m \in Node, NEW r \in 1 .. activeCalls'[m]
               PROVE  \E i \in DOMAIN stack'[owner'[m]] :
                         stack'[owner'[m]][i].node = m /\ stack'[owner'[m]][i].rank = r
    BY DEF RanksFilled
  <2>1. CASE m = n /\ r = k
    BY <2>1, <1>5, <1>6, <1>7
  <2>2. CASE m # n \/ r # k
    <3>1. r \in 1 .. activeCalls[m] /\ activeCalls[m] # 0
      BY <2>2, <1>3, <1>7, <1>8 DEF k
    <3>2. owner[m] \in Thread
      BY <3>1, HeldWhenActive DEF HInv
    <3>3. owner'[m] = owner[m]
      BY <3>2, <1>2, <1>7, <1>8, NoThreadAssumption
    <3>4. PICK i \in DOMAIN stack[owner[m]] :
            stack[owner[m]][i].node = m /\ stack[owner[m]][i].rank = r
      BY <3>1 DEF HInv, RanksFilled
    <3>5. i \in DOMAIN stack'[owner[m]] /\ stack'[owner[m]][i] = stack[owner[m]][i]
      BY <3>1, <3>2, <3>4, <1>10
    <3> QED
      BY <3>3, <3>4, <3>5
  <2> QED
    BY <2>1, <2>2
<1> QED
  BY <1>5, <1>11, <1>13, <1>14, <1>15 DEF Ranked

(* The call that returns has the highest rank of its node, so that those   *)
(* left are again ranked 1 .. activeCalls, and when it was the last, the   *)
(* lock it gives up guards nothing.                                        *)
LEMMA ReturnRanks ==
  ASSUME HInv, NEW t \in Thread, Return(t)
  PROVE  StackOK' /\ Ranked'
<1> DEFINE n == Top(t).node
           last == Len(stack[t])
<1>1. ~Idle(t) /\ Top(t).rank > 0 /\ n \in Node /\ Top(t).rank \in Nat
  BY StackFacts DEF Return, InNative, HInv
<1>2. /\ stack' = [stack EXCEPT ![t] = Below(t)]
      /\ activeCalls' = [activeCalls EXCEPT ![n] = @ - 1]
      /\ owner' = IF holds[n] = 1 THEN [owner EXCEPT ![n] = None] ELSE owner
  BY DEF Return, Unlock
<1>3. /\ activeCalls \in [Node -> Nat] /\ owner \in [Node -> Thread \cup {None}]
      /\ holds[n] = activeCalls[n]
  BY <1>1 DEF HInv, HandleOK, LockOK, LockCounts
<1>4. /\ StackOK' /\ Others(t)
      /\ last \in Nat \ {0} /\ DOMAIN stack[t] = 1 .. last
      /\ Len(stack'[t]) = last - 1
      /\ DOMAIN stack'[t] = 1 .. last - 1
      /\ Prefix(t, last - 1)
  BY <1>1, <1>2, PopStep DEF HInv
<1>5. last \in DOMAIN stack[t] /\ stack[t][last].node = n /\ stack[t][last].rank = Top(t).rank
  BY <1>4 DEF Top
<1>6. owner[n] = t /\ Top(t).rank <= activeCalls[n]
  BY <1>1, <1>5 DEF HInv, InsideOwned
<1>7. activeCalls'[n] = activeCalls[n] - 1 /\ owner'[n] = IF activeCalls[n] = 1 THEN None ELSE t
  BY <1>1, <1>2, <1>3, <1>6
<1>8. \A m \in Node \ {n} : activeCalls'[m] = activeCalls[m] /\ owner'[m] = owner[m]
  BY <1>2, <1>3
<1> HIDE DEF n, last
<1>9. ASSUME NEW u \in Thread, NEW i \in DOMAIN stack'[u]
      PROVE  i \in DOMAIN stack[u] /\ stack'[u][i] = stack[u][i] /\ (u # t \/ i < last)
  BY <1>4, <1>9 DEF Others, Prefix
<1>10. ASSUME NEW u \in Thread, NEW i \in DOMAIN stack[u], u # t \/ i # last
       PROVE  i \in DOMAIN stack'[u] /\ stack'[u][i] = stack[u][i]
  BY <1>4, <1>10 DEF Others, Prefix
<1>11. TopWaits'
  <2> SUFFICES ASSUME NEW u \in Thread, NEW i \in DOMAIN stack'[u], i < Len(stack'[u])
               PROVE  stack'[u][i].rank > 0
    BY DEF TopWaits
  <2>1. i < Len(stack[u])
    BY <1>4 DEF Others, last
  <2> QED
    BY <2>1, <1>9 DEF HInv, TopWaits
<1>12. InsideOwned'
  <2> SUFFICES ASSUME NEW u \in Thread, NEW i \in DOMAIN stack'[u], stack'[u][i].rank > 0
               PROVE  /\ owner'[stack'[u][i].node] = u
                      /\ stack'[u][i].rank <= activeCalls'[stack'[u][i].node]
    BY DEF InsideOwned
  <2>1. i \in DOMAIN stack[u] /\ stack'[u][i] = stack[u][i] /\ (u # t \/ i < last)
    BY <1>9
  <2> DEFINE m == stack[u][i].node
  <2>2. stack[u][i].rank \in Nat /\ m \in Node
    <3>1. stack[u][i] \in FrameSet
      BY <2>1 DEF HInv, StackOK
    <3> QED
      BY <3>1 DEF FrameSet
  <2>3. owner[m] = u /\ stack[u][i].rank <= activeCalls[m]
    BY <2>1 DEF HInv, InsideOwned
  <2> HIDE DEF m
  <2>4. CASE m # n
    BY <2>1, <2>2, <2>3, <2>4, <1>8 DEF m
  <2>5. CASE m = n
    <3>1. u = t /\ i < last
      BY <2>1, <2>3, <2>5, <1>6
    <3>2. stack[t][i].rank < Top(t).rank
      BY <3>1, <2>1, <2>5, <1>1, <1>5 DEF HInv, RanksGrow, m
    <3>3. stack[t][i].rank <= activeCalls[n] - 1 /\ activeCalls[n] # 1
      BY <3>1, <3>2, <2>1, <2>2, <1>1, <1>3, <1>6
    <3> QED
      BY <3>1, <3>3, <2>1, <2>5, <1>7 DEF m
  <2> QED
    BY <2>4, <2>5
<1>13. RanksGrow'
  BY <1>9 DEF HInv, RanksGrow
<1>14. RanksFilled'
  <2> SUFFICES ASSUME NEW m \in Node, NEW k \in 1 .. activeCalls'[m]
               PROVE  \E i \in DOMAIN stack'[owner'[m]] :
                         stack'[owner'[m]][i].node = m /\ stack'[owner'[m]][i].rank = k
    BY DEF RanksFilled
  <2>1. k \in 1 .. activeCalls[m] /\ activeCalls[m] # 0 /\ owner'[m] = owner[m]
    BY <1>3, <1>6, <1>7, <1>8
  <2>2. owner[m] \in Thread
    BY <2>1, HeldWhenActive DEF HInv
  <2>3. PICK i \in DOMAIN stack[owner[m]] :
          stack[owner[m]][i].node = m /\ stack[owner[m]][i].rank = k
    BY <2>1 DEF HInv, RanksFilled
  <2>4. CASE m # n
    <3>1. owner[m] # t \/ i # last
      BY <2>3, <2>4, <1>5
    <3> QED
      BY <3>1, <2>1, <2>2, <2>3, <1>10
  <2>5. CASE m = n
    (* the frame with rank activeCalls[n] can only be the top *)
    <3>1. PICK j \in DOMAIN stack[t] :
            stack[t][j].node = n /\ stack[t][j].rank = activeCalls[n]
      BY <1>1, <1>3, <1>6 DEF HInv, RanksFilled
    <3>2. ~(j < last)
      BY <3>1, <1>1, <1>3, <1>5, <1>6 DEF HInv, RanksGrow
    <3>3. stack[t][last].rank = activeCalls[n]
      BY <3>1, <3>2, <1>4
    <3>4. i # last
      BY <3>3, <2>3, <2>5, <1>3, <1>6, <1>7
    <3> QED
      BY <3>4, <2>1, <2>2, <2>3, <1>10
  <2> QED
    BY <2>4, <2>5
<1> QED
  BY <1>4, <1>11, <1>12, <1>13, <1>14 DEF Ranked

-----------------------------------------------------------------------------
(* The lock and the lifecycle's fields, action by action. *)

Counts == LockOK /\ HandleOK /\ LockCounts /\ FreedOnce

(* A thread taking its turn leaves a queue of threads. *)
LEMMA Queues ==
  ASSUME LockOK, NEW t \in Thread, NEW n \in Node,
         Enqueue(t, n) \/ (MayLock(t, n) /\ Dequeue(t, n)) \/ UNCHANGED queue
  PROVE  queue' \in [Node -> Seq(Thread)]
<1>1. queue \in [Node -> Seq(Thread)]
  BY DEF LockOK
<1>2. CASE Enqueue(t, n)
  BY <1>1, <1>2 DEF Enqueue
<1>3. CASE MayLock(t, n) /\ Dequeue(t, n)
  <2>1. owner[n] # t => Tail(queue[n]) \in Seq(Thread)
    BY <1>1, <1>3, HeadTailProperties DEF MayLock
  <2> QED
    BY <1>1, <1>3, <2>1 DEF Dequeue
<1> QED
  BY <1>1, <1>2, <1>3

LEMMA CallCounts ==
  ASSUME HInv, NEW t \in Thread, NEW n \in Node, NEW op \in Op, Call(t, n, op)
  PROVE  Counts'
<1>1. UNCHANGED <<owner, holds, pointer, closed, activeCalls, frees>> /\ Enqueue(t, n)
  BY DEF Call, handle
<1>2. LockOK'
  BY <1>1, Queues DEF HInv, LockOK
<1>3. HandleOK' /\ LockCounts' /\ FreedOnce'
  BY <1>1 DEF HInv, HandleOK, LockCounts, FreedOnce
<1> QED
  BY <1>2, <1>3 DEF Counts

LEMMA EnterCounts ==
  ASSUME HInv, NEW t \in Thread, Enter(t)
  PROVE  Counts'
<1> DEFINE n == Top(t).node
<1>1. n \in Node
  BY StackFacts DEF Enter, Waiting, HInv
<1>2. /\ pointer[n] /\ ~closed[n] /\ MayLock(t, n) /\ Dequeue(t, n)
      /\ owner' = [owner EXCEPT ![n] = t] /\ holds' = [holds EXCEPT ![n] = @ + 1]
      /\ activeCalls' = [activeCalls EXCEPT ![n] = @ + 1]
      /\ UNCHANGED <<pointer, closed, frees>>
  BY DEF Enter, Lock, Usable
<1> HIDE DEF n
<1>3. LockOK'
  BY <1>1, <1>2, Queues DEF HInv, LockOK
<1>4. HandleOK'
  BY <1>1, <1>2 DEF HInv, HandleOK
<1>5. LockCounts' /\ FreedOnce'
  <2> SUFFICES ASSUME NEW m \in Node
               PROVE  /\ holds'[m] = activeCalls'[m]
                      /\ owner'[m] = None <=> activeCalls'[m] = 0
                      /\ frees'[m] = IF pointer'[m] THEN 0 ELSE 1
                      /\ ~pointer'[m] <=> closed'[m] /\ activeCalls'[m] = 0
    BY DEF LockCounts, FreedOnce
  <2>1. /\ activeCalls[m] \in Nat /\ holds[m] = activeCalls[m]
        /\ owner[m] = None <=> activeCalls[m] = 0
        /\ frees[m] = IF pointer[m] THEN 0 ELSE 1
        /\ ~pointer[m] <=> closed[m] /\ activeCalls[m] = 0
    BY DEF HInv, HandleOK, LockCounts, FreedOnce
  <2>2. CASE m # n
    <3>1. activeCalls'[m] = activeCalls[m] /\ holds'[m] = holds[m] /\ owner'[m] = owner[m]
      BY <2>2, <1>1, <1>2 DEF HInv, HandleOK, LockOK
    <3> QED
      BY <3>1, <2>1, <1>2
  <2>3. CASE m = n
    <3>1. activeCalls'[m] = activeCalls[m] + 1 /\ holds'[m] = holds[m] + 1 /\ owner'[m] = t
      BY <2>3, <1>1, <1>2 DEF HInv, HandleOK, LockOK
    <3> QED
      BY <3>1, <2>1, <2>3, <1>2, NoThreadAssumption
  <2> QED
    BY <2>2, <2>3
<1> QED
  BY <1>3, <1>4, <1>5 DEF Counts

LEMMA RefuseCounts ==
  ASSUME HInv, NEW t \in Thread, Refuse(t)
  PROVE  Counts'
<1> DEFINE n == Top(t).node
<1>1. n \in Node
  BY StackFacts DEF Refuse, Waiting, HInv
<1>2. /\ MayLock(t, n) /\ Dequeue(t, n)
      /\ UNCHANGED <<owner, holds, pointer, closed, activeCalls, frees>>
  BY DEF Refuse, handle
<1> HIDE DEF n
<1>3. LockOK'
  BY <1>1, <1>2, Queues DEF HInv, LockOK
<1>4. HandleOK' /\ LockCounts' /\ FreedOnce'
  BY <1>2 DEF HInv, HandleOK, LockCounts, FreedOnce
<1> QED
  BY <1>3, <1>4 DEF Counts

(* FreeLocked keeps the types of what it writes. *)
LEMMA FreeTypes ==
  ASSUME HandleOK, NEW n \in Node, FreeLocked(n) \/ UNCHANGED <<pointer, frees>>
  PROVE  pointer' \in [Node -> BOOLEAN] /\ frees' \in [Node -> Nat]
<1>1. CASE FreeLocked(n)
  <2>1. (IF pointer[n] THEN frees[n] + 1 ELSE frees[n]) \in Nat
    BY DEF HandleOK
  <2> QED
    BY <1>1, <2>1 DEF HandleOK, FreeLocked
<1>2. CASE UNCHANGED <<pointer, frees>>
  BY <1>2 DEF HandleOK
<1> QED
  BY <1>1, <1>2

(* The last call out of a closed handle frees it; no other frees it.       *)
LEMMA ReturnCounts ==
  ASSUME HInv, NEW t \in Thread, Return(t)
  PROVE  Counts'
<1> DEFINE n == Top(t).node
<1>1. /\ n \in Node /\ owner[n] = t /\ activeCalls[n] \in Nat \ {0}
  <2>1. ~Idle(t) /\ Top(t).rank > 0
    BY DEF Return, InNative
  <2>2. n \in Node /\ Len(stack[t]) \in DOMAIN stack[t] /\ Top(t).rank \in Nat
    BY <2>1, StackFacts DEF HInv
  <2>3. owner[n] = t /\ Top(t).rank <= activeCalls[n]
    BY <2>1, <2>2 DEF HInv, InsideOwned, Top
  <2> QED
    BY <2>1, <2>2, <2>3 DEF HInv, HandleOK
<1>2. /\ activeCalls' = [activeCalls EXCEPT ![n] = @ - 1]
      /\ holds' = [holds EXCEPT ![n] = @ - 1]
      /\ owner' = IF holds[n] = 1 THEN [owner EXCEPT ![n] = None] ELSE owner
      /\ UNCHANGED <<closed, queue>>
  BY DEF Return, Unlock
<1>3. IF closed[n] /\ activeCalls[n] = 1
      THEN /\ pointer' = [pointer EXCEPT ![n] = FALSE]
           /\ frees' = [frees EXCEPT ![n] = IF pointer[n] THEN @ + 1 ELSE @]
      ELSE UNCHANGED <<pointer, frees>>
  BY DEF Return, LastOut, FreeLocked
<1> HIDE DEF n
<1>4. LockOK /\ HandleOK /\ LockCounts /\ FreedOnce
  BY DEF HInv
<1>5. LockOK'
  BY <1>1, <1>2, <1>4 DEF LockOK, LockCounts
<1>6. HandleOK'
  <2>1. activeCalls' \in [Node -> Nat] /\ closed' \in [Node -> BOOLEAN]
    BY <1>1, <1>2, <1>4 DEF HandleOK
  <2>2. FreeLocked(n) \/ UNCHANGED <<pointer, frees>>
    BY <1>3 DEF FreeLocked
  <2>3. pointer' \in [Node -> BOOLEAN] /\ frees' \in [Node -> Nat]
    BY <1>1, <1>4, <2>2, FreeTypes
  <2> QED
    BY <2>1, <2>3 DEF HandleOK
<1>7. LockCounts'
  <2> SUFFICES ASSUME NEW m \in Node
               PROVE  holds'[m] = activeCalls'[m] /\ (owner'[m] = None <=> activeCalls'[m] = 0)
    BY DEF LockCounts
  <2>1. activeCalls[m] \in Nat /\ holds[m] = activeCalls[m] /\ (owner[m] = None <=> activeCalls[m] = 0)
    BY <1>4 DEF HandleOK, LockCounts
  <2>2. CASE m # n
    BY <2>1, <2>2, <1>1, <1>2, <1>4 DEF HandleOK, LockOK
  <2>3. CASE m = n
    <3>1. activeCalls'[m] = activeCalls[m] - 1 /\ holds'[m] = holds[m] - 1
      BY <2>3, <1>1, <1>2, <1>4 DEF HandleOK, LockOK
    <3>2. owner'[m] = IF activeCalls[m] = 1 THEN None ELSE t
      BY <2>1, <2>3, <1>1, <1>2, <1>4 DEF LockOK
    <3> QED
      BY <3>1, <3>2, <2>1, <2>3, <1>1, NoThreadAssumption
  <2> QED
    BY <2>2, <2>3
<1>8. FreedOnce'
  <2> SUFFICES ASSUME NEW m \in Node
               PROVE  /\ frees'[m] = IF pointer'[m] THEN 0 ELSE 1
                      /\ ~pointer'[m] <=> closed'[m] /\ activeCalls'[m] = 0
    BY DEF FreedOnce
  <2>1. /\ activeCalls[m] \in Nat
        /\ frees[m] = IF pointer[m] THEN 0 ELSE 1
        /\ ~pointer[m] <=> closed[m] /\ activeCalls[m] = 0
    BY <1>4 DEF HandleOK, FreedOnce
  <2>2. CASE m # n
    <3>1. /\ activeCalls'[m] = activeCalls[m] /\ pointer'[m] = pointer[m]
          /\ frees'[m] = frees[m] /\ closed'[m] = closed[m]
      BY <2>2, <1>1, <1>2, <1>3, <1>4 DEF HandleOK
    <3> QED
      BY <3>1, <2>1
  <2>3. CASE m = n
    <3>1. activeCalls'[m] = activeCalls[m] - 1 /\ closed'[m] = closed[m] /\ pointer[m]
      BY <2>1, <2>3, <1>1, <1>2, <1>4 DEF HandleOK
    <3>2. CASE closed[n] /\ activeCalls[n] = 1
      <4>1. pointer'[m] = FALSE /\ frees'[m] = frees[m] + 1
        BY <3>1, <3>2, <2>3, <1>1, <1>3, <1>4 DEF HandleOK
      <4> QED
        BY <4>1, <3>1, <3>2, <2>1, <2>3
    <3>3. CASE ~(closed[n] /\ activeCalls[n] = 1)
      <4>1. pointer'[m] = pointer[m] /\ frees'[m] = frees[m]
        BY <3>3, <1>3
      <4> QED
        BY <4>1, <3>1, <3>3, <2>1, <2>3, <1>1
    <3> QED
      BY <3>2, <3>3
  <2> QED
    BY <2>2, <2>3
<1> QED
  BY <1>5, <1>6, <1>7, <1>8 DEF Counts

(* A close frees the handle itself only when no call is active. *)
LEMMA CloseCounts ==
  ASSUME HInv, NEW t \in Thread, Close(t)
  PROVE  Counts'
<1> DEFINE n == Top(t).node
<1>1. n \in Node
  BY StackFacts DEF Close, Waiting, HInv
<1>2. /\ MayLock(t, n) /\ Dequeue(t, n)
      /\ closed' = [closed EXCEPT ![n] = TRUE]
      /\ UNCHANGED <<owner, holds, activeCalls>>
  BY DEF Close
<1>3. IF ~closed[n] /\ activeCalls[n] = 0
      THEN /\ pointer' = [pointer EXCEPT ![n] = FALSE]
           /\ frees' = [frees EXCEPT ![n] = IF pointer[n] THEN @ + 1 ELSE @]
      ELSE UNCHANGED <<pointer, frees>>
  BY DEF Close, CloseFrees, FreeLocked
<1> HIDE DEF n
<1>4. LockOK /\ HandleOK /\ LockCounts /\ FreedOnce
  BY DEF HInv
<1>5. LockOK' /\ LockCounts'
  BY <1>1, <1>2, <1>4, Queues DEF LockOK, LockCounts
<1>6. HandleOK'
  <2>1. activeCalls' \in [Node -> Nat] /\ closed' \in [Node -> BOOLEAN]
    BY <1>1, <1>2, <1>4 DEF HandleOK
  <2>2. FreeLocked(n) \/ UNCHANGED <<pointer, frees>>
    BY <1>3 DEF FreeLocked
  <2>3. pointer' \in [Node -> BOOLEAN] /\ frees' \in [Node -> Nat]
    BY <1>1, <1>4, <2>2, FreeTypes
  <2> QED
    BY <2>1, <2>3 DEF HandleOK
<1>7. FreedOnce'
  <2> SUFFICES ASSUME NEW m \in Node
               PROVE  /\ frees'[m] = IF pointer'[m] THEN 0 ELSE 1
                      /\ ~pointer'[m] <=> closed'[m] /\ activeCalls'[m] = 0
    BY DEF FreedOnce
  <2>1. /\ frees[m] \in Nat /\ activeCalls'[m] = activeCalls[m]
        /\ frees[m] = IF pointer[m] THEN 0 ELSE 1
        /\ ~pointer[m] <=> closed[m] /\ activeCalls[m] = 0
    BY <1>2, <1>4 DEF HandleOK, FreedOnce
  <2>2. CASE m # n
    BY <2>1, <2>2, <1>1, <1>2, <1>3, <1>4 DEF HandleOK
  <2>3. CASE m = n
    <3>1. closed'[m] = TRUE
      BY <2>3, <1>1, <1>2, <1>4 DEF HandleOK
    <3>2. CASE ~closed[n] /\ activeCalls[n] = 0
      <4>1. pointer'[m] = FALSE /\ frees'[m] = IF pointer[m] THEN frees[m] + 1 ELSE frees[m]
        BY <3>2, <2>3, <1>1, <1>3, <1>4 DEF HandleOK
      <4> QED
        BY <4>1, <3>1, <3>2, <2>1, <2>3
    <3>3. CASE ~(~closed[n] /\ activeCalls[n] = 0)
      <4>1. pointer'[m] = pointer[m] /\ frees'[m] = frees[m]
        BY <3>3, <1>3
      <4> QED
        BY <4>1, <3>1, <3>3, <2>1, <2>3
    <3> QED
      BY <3>2, <3>3
  <2> QED
    BY <2>2, <2>3
<1> QED
  BY <1>5, <1>6, <1>7 DEF Counts

-----------------------------------------------------------------------------
LEMMA HandleStart == Init => HInv
<1> SUFFICES ASSUME Init PROVE HInv
  OBVIOUS
<1>1. \A t \in Thread : stack[t] = <<>> /\ DOMAIN stack[t] = {} /\ Len(stack[t]) = 0
  BY DEF Init
<1>2. LockOK /\ HandleOK
  BY DEF Init, LockOK, HandleOK
<1>3. StackOK
  BY DEF Init, StackOK
<1>4. TopWaits /\ InsideOwned /\ RanksGrow
  BY <1>1 DEF TopWaits, InsideOwned, RanksGrow
<1>5. RanksFilled /\ LockCounts /\ FreedOnce
  BY DEF Init, RanksFilled, LockCounts, FreedOnce
<1> QED
  BY <1>2, <1>3, <1>4, <1>5 DEF HInv

LEMMA HandleStep == HInv /\ [Next]_vars => HInv'
<1> SUFFICES ASSUME HInv, [Next]_vars PROVE HInv'
  OBVIOUS
<1>1. ASSUME NEW t \in Thread, NEW n \in Node, NEW op \in Op, HostCall(t, n, op) \/ Callback(t, n, op)
      PROVE  HInv'
  <2>1. Call(t, n, op) /\ (Idle(t) \/ InNative(t))
    BY <1>1 DEF HostCall, Callback
  <2>2. StackOK' /\ Ranked' /\ Counts'
    BY <2>1, CallRanks, CallCounts
  <2> QED
    BY <2>2 DEF HInv, Ranked, Counts
<1>2. ASSUME NEW t \in Thread, Enter(t)
      PROVE  HInv'
  BY <1>2, EnterRanks, EnterCounts DEF HInv, Ranked, Counts
<1>3. ASSUME NEW t \in Thread, Refuse(t)
      PROVE  HInv'
  <2>1. /\ ~Idle(t) /\ Top(t).rank = 0 /\ stack' = [stack EXCEPT ![t] = Below(t)]
        /\ UNCHANGED <<owner, activeCalls>>
    BY <1>3 DEF Refuse, Waiting, handle
  <2>2. StackOK' /\ Ranked' /\ Counts'
    BY <1>3, <2>1, WaiterLeaves, RefuseCounts
  <2> QED
    BY <2>2 DEF HInv, Ranked, Counts
<1>4. ASSUME NEW t \in Thread, Return(t)
      PROVE  HInv'
  BY <1>4, ReturnRanks, ReturnCounts DEF HInv, Ranked, Counts
<1>5. ASSUME NEW t \in Thread, Close(t)
      PROVE  HInv'
  <2>1. /\ ~Idle(t) /\ Top(t).rank = 0 /\ stack' = [stack EXCEPT ![t] = Below(t)]
        /\ UNCHANGED <<owner, activeCalls>>
    BY <1>5 DEF Close, Waiting
  <2>2. StackOK' /\ Ranked' /\ Counts'
    BY <1>5, <2>1, WaiterLeaves, CloseCounts
  <2> QED
    BY <2>2 DEF HInv, Ranked, Counts
<1>6. CASE UNCHANGED vars
  BY <1>6 DEF vars, lock, handle, HInv, LockOK, HandleOK, StackOK, TopWaits, InsideOwned,
              RanksGrow, RanksFilled, LockCounts, FreedOnce
<1> QED
  BY <1>1, <1>2, <1>3, <1>4, <1>5, <1>6 DEF Next, Step

(* HInv holds in every reachable state. *)
LEMMA HandleInvariant == Spec => []HInv
<1> QED
  BY HandleStart, HandleStep, PTL DEF Spec

(* Every variable keeps its type. *)
THEOREM HandleTypes == Spec => []TypeOK
<1>1. HInv => TypeOK
  BY DEF HInv, LockOK, HandleOK, StackOK, TypeOK
<1> QED
  BY <1>1, HandleInvariant, PTL

(* Of the frees: at most one, after the last call, and none enters later.  *)
THEOREM NeverUsedFreed == Spec => []NoUseAfterFree
<1>1. HInv => NoUseAfterFree
  <2> SUFFICES ASSUME HInv, NEW n \in Node
               PROVE  /\ frees[n] <= 1
                      /\ frees[n] = 1 => \A t \in Thread : Inside(t, n) = {}
    BY DEF NoUseAfterFree
  <2>1. frees[n] <= 1 /\ (frees[n] = 1 => activeCalls[n] = 0)
    BY DEF HInv, FreedOnce
  <2>2. ASSUME activeCalls[n] = 0, NEW t \in Thread, NEW i \in DOMAIN stack[t],
               stack[t][i].node = n, stack[t][i].rank > 0
        PROVE  FALSE
    <3>1. stack[t][i] \in FrameSet
      BY DEF HInv, StackOK
    <3>2. stack[t][i].rank \in Nat
      BY <3>1 DEF FrameSet
    <3> QED
      BY <2>2, <3>2 DEF HInv, InsideOwned
  <2> QED
    BY <2>1, <2>2 DEF Inside
<1> QED
  BY <1>1, HandleInvariant, PTL

(* The calls inside a node are all one thread's. *)
THEOREM OneThreadInside == Spec => []ExclusiveUse
<1>1. HInv => ExclusiveUse
  BY DEF HInv, InsideOwned, ExclusiveUse, Inside
<1> QED
  BY <1>1, HandleInvariant, PTL

(* A closed handle that no call uses has been freed. *)
THEOREM NoLeak == Spec => []ClosedIsFreed
<1>1. HInv => ClosedIsFreed
  <2> SUFFICES ASSUME HInv, NEW n \in Node, closed[n], \A t \in Thread : Inside(t, n) = {}
               PROVE  frees[n] = 1
    BY DEF ClosedIsFreed
  <2>1. activeCalls[n] \in Nat
    BY DEF HInv, HandleOK
  <2>2. CASE activeCalls[n] = 0
    BY <2>2 DEF HInv, FreedOnce
  <2>3. CASE activeCalls[n] # 0
    <3>1. owner[n] \in Thread
      BY <2>3, HeldWhenActive DEF HInv
    <3>2. PICK i \in DOMAIN stack[owner[n]] :
            stack[owner[n]][i].node = n /\ stack[owner[n]][i].rank = 1
      BY <2>1, <2>3 DEF HInv, RanksFilled
    <3>3. i \in Inside(owner[n], n)
      BY <3>2 DEF Inside
    <3> QED
      BY <3>1, <3>3
  <2> QED
    BY <2>2, <2>3
<1> QED
  BY <1>1, HandleInvariant, PTL

(* From a close on, calls on the handle only come to an end. *)
THEOREM ClosedDrains == Spec => ClosedOnlyDrains
<1>1. HInv /\ [Next]_vars => [\A n \in Node : closed[n] => activeCalls'[n] <= activeCalls[n]]_vars
  <2> SUFFICES ASSUME HInv, Next, NEW n \in Node, closed[n]
               PROVE  activeCalls'[n] <= activeCalls[n]
    OBVIOUS
  <2>1. activeCalls \in [Node -> Nat]
    BY DEF HInv, HandleOK
  <2>2. ASSUME UNCHANGED activeCalls
        PROVE  activeCalls'[n] <= activeCalls[n]
    BY <2>1, <2>2
  <2>3. ASSUME NEW t \in Thread, Enter(t)
        PROVE  activeCalls'[n] <= activeCalls[n]
    <3>1. Top(t).node # n /\ Top(t).node \in Node
      BY <2>3, StackFacts DEF Enter, Usable, Waiting, HInv
    <3> QED
      BY <2>1, <2>3, <3>1 DEF Enter
  <2>4. ASSUME NEW t \in Thread, Return(t)
        PROVE  activeCalls'[n] <= activeCalls[n]
    BY <2>1, <2>4 DEF Return
  <2> QED
    BY <2>2, <2>3, <2>4 DEF Next, Step, HostCall, Callback, Call, Refuse, Close, handle
<1> QED
  BY <1>1, HandleInvariant, PTL DEF Spec, ClosedOnlyDrains
-----------------------------------------------------------------------------
(* Waiting. *)

(* The threads whose callbacks lead from one node to another. *)
Crosses(t) == \E m, n \in Node : m # n /\ <<t, m, n>> \in Reach

(* All calls of any other thread, however nested, are on one node. *)
OneNodeEach == \A t \in Thread : ~Crosses(t) =>
  \A i, j \in DOMAIN stack[t] : stack[t][i].node = stack[t][j].node

LEMMA OneNodeStep == HInv /\ OneNodeEach /\ [Next]_vars => OneNodeEach'
<1> SUFFICES ASSUME HInv, OneNodeEach, [Next]_vars, NEW u \in Thread, ~Crosses(u)
             PROVE  \A i, j \in DOMAIN stack'[u] : stack'[u][i].node = stack'[u][j].node
  BY DEF OneNodeEach, Crosses
<1>1. StackOK /\ \A i, j \in DOMAIN stack[u] : stack[u][i].node = stack[u][j].node
  BY DEF HInv, OneNodeEach
<1>2. ASSUME NEW t \in Thread, NEW n \in Node, NEW op \in Op,
             HostCall(t, n, op) \/ Callback(t, n, op)
      PROVE  \A i, j \in DOMAIN stack'[u] : stack'[u][i].node = stack'[u][j].node
  <2>1. /\ Others(t) /\ Prefix(t, Len(stack[t]))
        /\ Len(stack[t]) \in Nat /\ DOMAIN stack[t] = 1 .. Len(stack[t])
        /\ DOMAIN stack'[t] = 1 .. Len(stack[t]) + 1
        /\ stack'[t][Len(stack[t]) + 1].node = n
    BY <1>1, <1>2, PushStep DEF HostCall, Callback, Call, Frame
  <2>2. CASE u = t
    <3>1. \A i \in DOMAIN stack[t] : stack[t][i].node = n
      <4>1. CASE HostCall(t, n, op)
        BY <2>1, <4>1 DEF HostCall, Idle
      <4>2. CASE Callback(t, n, op)
        <5>1. Len(stack[t]) \in DOMAIN stack[t] /\ Top(t).node \in Node
          BY <1>1, <4>2, StackFacts DEF Callback, InNative
        <5>2. Top(t).node = n
          BY <2>2, <4>2, <5>1 DEF Callback, Crosses
        <5> QED
          BY <1>1, <2>2, <5>1, <5>2 DEF Top
      <4> QED
        BY <1>2, <4>1, <4>2
    <3>2. \A i \in DOMAIN stack'[t] : stack'[t][i].node = n
      BY <2>1, <3>1 DEF Prefix
    <3> QED
      BY <2>2, <3>2
  <2>3. CASE u # t
    BY <1>1, <2>1, <2>3 DEF Others
  <2> QED
    BY <2>2, <2>3
<1>3. ASSUME NEW t \in Thread, Refuse(t) \/ Return(t) \/ Close(t)
      PROVE  \A i, j \in DOMAIN stack'[u] : stack'[u][i].node = stack'[u][j].node
  <2>1. ~Idle(t) /\ stack' = [stack EXCEPT ![t] = Below(t)]
    BY <1>3 DEF Refuse, Return, Close, Waiting, InNative
  <2>2. /\ Others(t) /\ Prefix(t, Len(stack[t]) - 1)
        /\ Len(stack[t]) \in Nat \ {0} /\ DOMAIN stack[t] = 1 .. Len(stack[t])
        /\ DOMAIN stack'[t] = 1 .. Len(stack[t]) - 1
    BY <1>1, <2>1, PopStep
  <2>3. ASSUME NEW i \in DOMAIN stack'[u]
        PROVE  i \in DOMAIN stack[u] /\ stack'[u][i] = stack[u][i]
    BY <2>2, <2>3 DEF Others, Prefix
  <2> QED
    BY <1>1, <2>3
<1>4. ASSUME NEW t \in Thread, Enter(t)
      PROVE  \A i, j \in DOMAIN stack'[u] : stack'[u][i].node = stack'[u][j].node
  <2> DEFINE f == Frame(Top(t).node, "call", activeCalls[Top(t).node] + 1)
  <2>1. ~Idle(t) /\ stack' = [stack EXCEPT ![t] = Append(Below(t), f)]
    BY <1>4 DEF Enter, Waiting
  <2>2. Len(stack[t]) \in DOMAIN stack[t] /\ Top(t).node \in Node
    BY <1>1, <2>1, StackFacts
  <2>3. f \in FrameSet /\ f.node = Top(t).node
    BY <2>2 DEF Frame, FrameSet, Op, HInv, HandleOK
  <2> HIDE DEF f
  <2>4. /\ Others(t) /\ Prefix(t, Len(stack[t]) - 1)
        /\ Len(stack[t]) \in Nat \ {0} /\ DOMAIN stack[t] = 1 .. Len(stack[t])
        /\ DOMAIN stack'[t] = 1 .. Len(stack[t])
        /\ stack'[t][Len(stack[t])] = f
    BY <1>1, <2>1, <2>3, ReplaceStep
  <2>5. ASSUME NEW i \in DOMAIN stack'[u]
        PROVE  i \in DOMAIN stack[u] /\ stack'[u][i].node = stack[u][i].node
    <3>1. CASE u = t /\ i = Len(stack[t])
      BY <2>2, <2>3, <2>4, <3>1 DEF Top
    <3>2. CASE ~(u = t /\ i = Len(stack[t]))
      BY <2>4, <2>5, <3>2 DEF Others, Prefix
    <3> QED
      BY <3>1, <3>2
  <2> QED
    BY <1>1, <2>5
<1>5. CASE UNCHANGED vars
  BY <1>1, <1>5 DEF vars
<1> QED
  BY <1>2, <1>3, <1>4, <1>5 DEF Next, Step

(* A thread that waits for one lock while it holds another's has crossed. *)
LEMMA HolderCrosses ==
  ASSUME HInv, OneNodeEach, NEW t \in Thread, ~Idle(t),
         NEW m \in Node, owner[m] = t, Top(t).node # m
  PROVE  Crosses(t)
<1>1. activeCalls[m] \in Nat \ {0}
  BY NoThreadAssumption DEF HInv, HandleOK, LockCounts
<1>2. PICK i \in DOMAIN stack[t] : stack[t][i].node = m
  <2>1. 1 \in 1 .. activeCalls[m]
    BY <1>1
  <2> QED
    BY <2>1 DEF HInv, RanksFilled
<1>3. Len(stack[t]) \in DOMAIN stack[t]
  BY StackFacts DEF HInv
<1> QED
  BY <1>2, <1>3 DEF OneNodeEach, Top

(* Callbacks lead from one node to another on at most one thread, as on     *)
(* that of Smoke.kt's pair.                                                 *)
OnePump == \A s, t \in Thread : Crosses(s) /\ Crosses(t) => s = t

(* Then any thread may call any node and close it, on its own account or   *)
(* from a callback of that node: no threads, two or more, ever wait for    *)
(* each other's locks.                                                     *)
THEOREM NeverCircular ==
  ASSUME OnePump
  PROVE  Spec => []NoCircularWait
<1>1. Init => OneNodeEach
  BY DEF Init, OneNodeEach
<1>2. ASSUME HInv, OneNodeEach,
             NEW s \in Thread, NEW t \in Thread, NEW u \in Thread,
             WaitsFor(s, t), WaitsFor(t, u)
      PROVE  Crosses(t)
  <2>1. /\ ~Idle(s) /\ owner[Top(s).node] = t
        /\ ~Idle(t) /\ owner[Top(t).node] = u /\ t # u
    BY <1>2 DEF WaitsFor
  <2>2. Top(s).node \in Node /\ Top(s).node # Top(t).node
    BY <1>2, <2>1, StackFacts DEF HInv
  <2> QED
    BY <1>2, <2>1, <2>2, HolderCrosses
<1>3. HInv /\ OneNodeEach => NoCircularWait
  <2> SUFFICES ASSUME HInv, OneNodeEach, NEW S \in SUBSET Thread, S # {},
                      \A s \in S : \E t \in S : WaitsFor(s, t)
               PROVE  FALSE
    BY DEF NoCircularWait
  <2>1. PICK s \in S, t \in S : WaitsFor(s, t)
    OBVIOUS
  <2>2. PICK u \in S : WaitsFor(t, u)
    BY <2>1
  <2>3. PICK v \in S : WaitsFor(u, v)
    BY <2>2
  <2>4. Crosses(t) /\ Crosses(u)
    BY <1>2, <2>1, <2>2, <2>3
  <2>5. t = u
    BY <2>4 DEF OnePump
  <2> QED
    BY <2>2, <2>5 DEF WaitsFor
<1> QED
  BY <1>1, <1>3, OneNodeStep, HandleInvariant, PTL DEF Spec
=============================================================================
