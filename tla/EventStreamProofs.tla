------------------------- MODULE EventStreamProofs -------------------------
(***************************************************************************)
(* Theorems about EventStream, for any set of threads, any thresholds and  *)
(* any bounds.                                                             *)
(***************************************************************************)
EXTENDS EventStream, TLAPS

(***************************************************************************)
(* Lemmas                                                                  *)
(***************************************************************************)

\* What pop_front leaves of a queue is a queue, and what it takes was in it.
LEMMA HeadTailType ==
  ASSUME NEW S, NEW q \in Seq(S), q # <<>>
  PROVE  /\ Head(q) \in S
         /\ Tail(q) \in Seq(S)
         /\ Len(q) \in Nat \ {0}
         /\ Len(Tail(q)) = Len(q) - 1
         /\ \A i \in 1..Len(Tail(q)) : Tail(q)[i] = q[i + 1]
         /\ Head(q) = q[1]
OBVIOUS

Elements(q) == {q[i] : i \in 1..Len(q)}

\* push_back adds one element.
LEMMA AppendElements ==
  ASSUME NEW S, NEW q \in Seq(S), NEW e \in S
  PROVE  Elements(Append(q, e)) = Elements(q) \cup {e}
<1>1. /\ Len(Append(q, e)) = Len(q) + 1
      /\ \A i \in 1..Len(q) : Append(q, e)[i] = q[i]
      /\ Append(q, e)[Len(q) + 1] = e
  OBVIOUS
<1>2. Elements(q) \cup {e} \subseteq Elements(Append(q, e))
  BY <1>1 DEF Elements
<1>3. Elements(Append(q, e)) \subseteq Elements(q) \cup {e}
  BY <1>1 DEF Elements
<1> QED
  BY <1>2, <1>3

\* pop_front takes the front and leaves the others.
LEMMA TailElements ==
  ASSUME NEW S, NEW q \in Seq(S), q # <<>>
  PROVE  Elements(q) = Elements(Tail(q)) \cup {Head(q)}
<1>1. Elements(q) \subseteq Elements(Tail(q)) \cup {Head(q)}
  <2>1. SUFFICES ASSUME NEW i \in 1..Len(q)
                 PROVE  q[i] \in Elements(Tail(q)) \cup {Head(q)}
    BY DEF Elements
  <2>2. CASE i = 1
    BY <2>2, HeadTailType
  <2>3. CASE i # 1
    <3>1. i - 1 \in 1..Len(Tail(q)) /\ Tail(q)[i - 1] = q[i]
      BY <2>3, HeadTailType
    <3> QED
      BY <3>1 DEF Elements
  <2> QED
    BY <2>2, <2>3
<1>2. Elements(Tail(q)) \cup {Head(q)} \subseteq Elements(q)
  BY HeadTailType DEF Elements
<1> QED
  BY <1>1, <1>2

\* What is queued is an element of the queue of some thread.
LEMMA QueuedIn ==
  ASSUME NEW q, NEW e
  PROVE  e \in Queued(q) <=> \E t \in Tids : e \in Elements(q[t])
BY DEF Queued, Elements

\* The queue that sweep works on, as the type invariant knows it.
LEMMA InLoopType ==
  ASSUME TypeOK, InLoop
  PROVE  /\ cur \in Tids
         /\ bpfEvents[cur] \in Seq(BpfEvent) /\ bpfEvents[cur] # <<>>
         /\ Front \in BpfEvent
         /\ Tail(bpfEvents[cur]) \in Seq(BpfEvent)
         /\ jvmEvents[cur] \in Seq(JvmEvent)
<1>1. cur \in Tids /\ bpfEvents[cur] \in Seq(BpfEvent) /\ jvmEvents[cur] \in Seq(JvmEvent)
  BY DEF TypeOK, InLoop
<1> QED
  BY <1>1, HeadTailType DEF InLoop, Front

\* A queue that loses its front, and one that gains an element.
LEMMA QueuedPop ==
  ASSUME TypeOK, InLoop, bpfEvents' = [bpfEvents EXCEPT ![cur] = Tail(@)]
  PROVE  Front \in Queued(bpfEvents) /\ Queued(bpfEvents)' \subseteq Queued(bpfEvents)
<1>1. /\ cur \in Tids /\ bpfEvents \in [Tids -> Seq(BpfEvent)]
      /\ bpfEvents[cur] \in Seq(BpfEvent) /\ bpfEvents[cur] # <<>>
  BY InLoopType DEF TypeOK
<1>2. Elements(bpfEvents[cur]) = Elements(Tail(bpfEvents[cur])) \cup {Front}
  BY <1>1, TailElements DEF Front
<1>3. \A t \in Tids : Elements(bpfEvents'[t]) \subseteq Elements(bpfEvents[t])
  BY <1>1, <1>2
<1>4. Queued(bpfEvents') \subseteq Queued(bpfEvents)
  BY <1>3, QueuedIn
<1>5. Front \in Queued(bpfEvents)
  BY <1>1, <1>2, QueuedIn
<1> QED BY <1>4, <1>5 DEF Queued

LEMMA QueuedAppend ==
  ASSUME TypeOK, NEW b \in BpfEvent, AddBpfEvent(b)
  PROVE  Queued(bpfEvents)' \subseteq Queued(bpfEvents) \cup {b}
<1>1. b.tid \in Tids /\ bpfEvents \in [Tids -> Seq(BpfEvent)]
  BY DEF TypeOK, BpfEvent
<1>2. bpfEvents' = [bpfEvents EXCEPT ![b.tid] = Append(@, b)]
  BY DEF AddBpfEvent
<1>3. \A t \in Tids : Elements(bpfEvents'[t]) \subseteq Elements(bpfEvents[t]) \cup {b}
  BY <1>1, <1>2, AppendElements
<1>4. Queued(bpfEvents') \subseteq Queued(bpfEvents) \cup {b}
  BY <1>3, QueuedIn
<1> QED BY <1>4 DEF Queued

\* Moving the front of the block queue into the result keeps both well typed.
LEMMA PopType ==
  ASSUME TypeOK, InLoop,
         NEW r \in Seq(Pair), NEW jvm \in JvmEvent \cup {NoJvm},
         PopBpfInto(r, jvm)
  PROVE  /\ bpfEvents' \in [Tids -> Seq(BpfEvent)]
         /\ ret' \in Seq(Pair)
<1>1. bpfEvents' \in [Tids -> Seq(BpfEvent)]
  BY InLoopType DEF PopBpfInto, TypeOK
<1>2. [bpf |-> Front, jvm |-> jvm] \in Pair
  BY InLoopType DEF Pair
<1> QED
  BY <1>1, <1>2 DEF PopBpfInto

\* The pair that a take-over robs, before and after.
LEMMA TakeOverType ==
  ASSUME TypeOK, CanTakeOver
  PROVE  /\ Len(ret) \in 1..Len(ret)
         /\ LastPair.bpf \in BpfEvent /\ LastPair.jvm \in JvmEvent
         /\ [ret EXCEPT ![Len(ret)].jvm = NoJvm] \in Seq(Pair)
<1>1. ret \in Seq(Pair) /\ ret # <<>>
  BY DEF TypeOK, CanTakeOver
<1>2. Len(ret) \in 1..Len(ret)
  BY <1>1
<1>3. ret[Len(ret)] \in Pair
  BY <1>1, <1>2
<1>4. LastPair.bpf \in BpfEvent /\ LastPair.jvm \in JvmEvent
  BY <1>3 DEF LastPair, Pair, CanTakeOver
<1>5. [ret[Len(ret)] EXCEPT !.jvm = NoJvm] \in Pair
  BY <1>3 DEF Pair
<1>6. [ret EXCEPT ![Len(ret)].jvm = NoJvm] \in Seq(Pair)
  BY <1>1, <1>5
<1> QED
  BY <1>2, <1>4, <1>6
----------------------------------------------------------------------------
(***************************************************************************)
(* Type correctness                                                        *)
(***************************************************************************)

LEMMA TypeInit == Init => TypeOK
BY ConstantAssumption DEF Init, TypeOK

LEMMA TypeStep == TypeOK /\ [Next]_vars => TypeOK'
<1> SUFFICES ASSUME TypeOK, [Next]_vars PROVE TypeOK'
  OBVIOUS
<1> USE DEF loopVars
<1>1. CASE BeginProcess \/ Quit \/ EndBpf
  BY <1>1 DEF BeginProcess, Quit, EndBpf, TypeOK
<1>2. CASE ReceiveBpf
  <2>1. PICK t \in Tids, ts \in 0..now :
          AddBpfEvent([id |-> nBpf + 1, tid |-> t, timestamp |-> ts])
    BY <1>2 DEF ReceiveBpf
  <2>2. [id |-> nBpf + 1, tid |-> t, timestamp |-> ts] \in BpfEvent
    BY DEF TypeOK, BpfEvent
  <2>3. bpfEvents' \in [Tids -> Seq(BpfEvent)]
    BY <2>1, <2>2 DEF AddBpfEvent, TypeOK
  <2> QED
    BY <2>1, <2>3 DEF AddBpfEvent, TypeOK
<1>3. CASE ReceiveJvm
  <2>1. PICK t \in Tids, ts \in 0..(now + MaxStepBack) :
          FillQueue([id |-> nJvm + 1, tid |-> t, timestamp |-> ts])
    BY <1>3 DEF ReceiveJvm
  <2>2. [id |-> nJvm + 1, tid |-> t, timestamp |-> ts] \in JvmEvent
    BY ConstantAssumption DEF TypeOK, JvmEvent
  <2>3. jvmEvents' \in [Tids -> Seq(JvmEvent)]
    BY <2>1, <2>2 DEF FillQueue, TypeOK
  <2> QED
    BY <2>1, <2>3 DEF FillQueue, TypeOK
<1>4. CASE SweepBegin
  BY <1>4 DEF SweepBegin, TypeOK, WithQueue
<1>5. CASE SweepTid
  BY <1>5 DEF SweepTid, TypeOK
<1>6. CASE TakeOver
  <2>1. LastPair.jvm \in JvmEvent /\ [ret EXCEPT ![Len(ret)].jvm = NoJvm] \in Seq(Pair)
    BY <1>6, TakeOverType DEF TakeOver
  <2>2. bpfEvents' \in [Tids -> Seq(BpfEvent)] /\ ret' \in Seq(Pair)
    BY <1>6, <2>1, PopType DEF TakeOver
  <2> QED
    BY <1>6, <2>2 DEF TakeOver, TypeOK, InLoop
<1>7. CASE TrashJvm
  <2>1. cur \in Tids /\ JvmQueue \in Seq(JvmEvent) /\ JvmQueue # <<>>
    BY <1>7, InLoopType DEF TrashJvm, JvmQueue
  <2>2. Head(JvmQueue) \in JvmEvent /\ Tail(JvmQueue) \in Seq(JvmEvent)
    BY <2>1, HeadTailType
  <2> QED
    BY <1>7, <2>1, <2>2 DEF TrashJvm, TypeOK, InLoop, JvmQueue
<1>8. CASE Match
  <2>1. cur \in Tids /\ JvmQueue \in Seq(JvmEvent) /\ JvmQueue # <<>>
    BY <1>8, InLoopType DEF Match, JvmQueue
  <2>2. Head(JvmQueue) \in JvmEvent /\ Tail(JvmQueue) \in Seq(JvmEvent)
    BY <2>1, HeadTailType
  <2>3. bpfEvents' \in [Tids -> Seq(BpfEvent)] /\ ret' \in Seq(Pair)
    BY <1>8, <2>2, PopType DEF Match, TypeOK
  <2> QED
    BY <1>8, <2>1, <2>2, <2>3 DEF Match, TypeOK, InLoop, JvmQueue
<1>9. CASE ReportUnmatched
  <2>1. bpfEvents' \in [Tids -> Seq(BpfEvent)] /\ ret' \in Seq(Pair)
    BY <1>9, PopType DEF ReportUnmatched, TypeOK
  <2> QED
    BY <1>9, <2>1 DEF ReportUnmatched, TypeOK, InLoop
<1>10. CASE LeaveTid
  BY <1>10 DEF LeaveTid, TypeOK
<1>11. CASE SweepReturn
  BY <1>11 DEF SweepReturn, TypeOK
<1>12. CASE Tick
  BY <1>12 DEF Tick, TypeOK
<1>13. CASE StepBack
  BY <1>13, ConstantAssumption DEF StepBack, TypeOK
<1>14. CASE UNCHANGED vars
  BY <1>14 DEF vars, TypeOK
<1> QED
  BY <1>1, <1>2, <1>3, <1>4, <1>5, <1>6, <1>7, <1>8, <1>9, <1>10, <1>11,
     <1>12, <1>13, <1>14 DEF Next, Sweep

\* Every variable keeps its type, whatever events arrive in whatever order.
THEOREM TypeCorrect == Spec => []TypeOK
BY TypeInit, TypeStep, PTL DEF Spec
----------------------------------------------------------------------------
(***************************************************************************)
(* Every pair is within the match window                                   *)
(***************************************************************************)

\* The pairs of a running sweep after a pair was pushed: those before, where
\* a take-over has robbed the last one, and the new pair.
LEMMA PushedPairs ==
  ASSUME TypeOK, InLoop,
         NEW r \in Seq(Pair), NEW jvm \in JvmEvent \cup {NoJvm},
         PopBpfInto(r, jvm)
  PROVE  RetPairs' = Elements(r) \cup {[bpf |-> Front, jvm |-> jvm]}
<1>1. [bpf |-> Front, jvm |-> jvm] \in Pair
  BY InLoopType DEF Pair
<1> QED
  BY <1>1, AppendElements DEF PopBpfInto, RetPairs, Elements

LEMMA WindowStep == TypeOK /\ PairInWindow /\ [Next]_vars => PairInWindow'
<1> SUFFICES ASSUME TypeOK, PairInWindow, [Next]_vars PROVE PairInWindow'
  OBVIOUS
<1> DEFINE Good(p) == p.jvm # NoJvm => InWindow(p.bpf, p.jvm)
<1>0. ASSUME UNCHANGED <<ret, reported>> PROVE PairInWindow'
  BY <1>0 DEF PairInWindow, RetPairs, InWindow
<1>1. CASE BeginProcess \/ Quit \/ EndBpf
  BY <1>0, <1>1 DEF BeginProcess, Quit, EndBpf, loopVars
<1>2. CASE ReceiveBpf
  BY <1>0, <1>2 DEF ReceiveBpf, AddBpfEvent, loopVars
<1>3. CASE ReceiveJvm
  BY <1>0, <1>3 DEF ReceiveJvm, FillQueue, loopVars
<1>4. CASE SweepBegin
  BY <1>0, <1>4 DEF SweepBegin, TypeOK
<1>5. CASE SweepTid
  BY <1>0, <1>5 DEF SweepTid
<1>6. CASE TakeOver
  <2>1. PICK r \in Seq(Pair) : r = [ret EXCEPT ![Len(ret)].jvm = NoJvm]
    BY <1>6, TakeOverType DEF TakeOver
  <2>2. RetPairs' = Elements(r) \cup {[bpf |-> Front, jvm |-> LastPair.jvm]}
    BY <1>6, <2>1, PushedPairs, TakeOverType DEF TakeOver
  <2>3. LastPair \in RetPairs /\ LastPair.jvm # NoJvm
    BY <1>6, TakeOverType DEF TakeOver, RetPairs, LastPair, CanTakeOver
  <2>4. InWindow(LastPair.bpf, LastPair.jvm)
    BY <2>3 DEF PairInWindow
  <2>5. InWindow(Front, LastPair.jvm)
    <3>1. /\ Front.timestamp \in Nat
          /\ LastPair.bpf.timestamp \in Nat /\ LastPair.jvm.timestamp \in Nat
      BY <1>6, TakeOverType, InLoopType DEF TakeOver, BpfEvent, JvmEvent
    <3>2. /\ LastPair.jvm.timestamp - Front.timestamp > 0
          /\ LastPair.jvm.timestamp - LastPair.bpf.timestamp
               > LastPair.jvm.timestamp - Front.timestamp
      BY <1>6 DEF TakeOver, CanTakeOver, TsDiff
    <3> QED
      BY <2>4, <3>1, <3>2, ConstantAssumption DEF InWindow
  <2>6. \A p \in Elements(r) : Good(p)
    <3>1. SUFFICES ASSUME NEW i \in 1..Len(r) PROVE Good(r[i])
      BY DEF Elements
    <3>2. Len(r) = Len(ret) /\ ret \in Seq(Pair)
      BY <2>1 DEF TypeOK
    <3>3. CASE i = Len(ret)
      BY <2>1, <3>2, <3>3, TakeOverType, <1>6 DEF TakeOver, TypeOK, Pair
    <3>4. CASE i # Len(ret)
      <4>1. r[i] = ret[i] /\ ret[i] \in RetPairs
        BY <2>1, <3>2, <3>4 DEF RetPairs
      <4> QED
        BY <4>1 DEF PairInWindow
    <3> QED
      BY <3>3, <3>4
  <2>7. reported' = reported
    BY <1>6 DEF TakeOver
  <2> QED
    BY <2>2, <2>5, <2>6, <2>7 DEF PairInWindow, InWindow
<1>7. CASE TrashJvm
  BY <1>0, <1>7 DEF TrashJvm, loopVars
<1>8. CASE Match
  <2>1. JvmQueue # <<>> /\ Head(JvmQueue) \in JvmEvent
    BY <1>8, InLoopType, HeadTailType DEF Match, JvmQueue
  <2>2. InWindow(Front, Head(JvmQueue))
    BY <1>8, <2>1, InLoopType, ConstantAssumption
    DEF Match, Close, TsDiff, InWindow, BpfEvent, JvmEvent
  <2>3. RetPairs' = RetPairs \cup {[bpf |-> Front, jvm |-> Head(JvmQueue)]}
    BY <1>8, <2>1, PushedPairs DEF Match, TypeOK, RetPairs, Elements
  <2>4. reported' = reported
    BY <1>8 DEF Match
  <2> QED
    BY <2>2, <2>3, <2>4 DEF PairInWindow, InWindow
<1>9. CASE ReportUnmatched
  <2>1. RetPairs' = RetPairs \cup {[bpf |-> Front, jvm |-> NoJvm]}
    BY <1>9, PushedPairs DEF ReportUnmatched, TypeOK, RetPairs, Elements
  <2>2. reported' = reported
    BY <1>9 DEF ReportUnmatched
  <2> QED
    BY <2>1, <2>2 DEF PairInWindow, InWindow
<1>10. CASE LeaveTid
  BY <1>0, <1>10 DEF LeaveTid
<1>11. CASE SweepReturn
  <2>1. RetPairs' = {} /\ reported' = reported \cup RetPairs
    BY <1>11 DEF SweepReturn, RetPairs
  <2> QED
    BY <2>1 DEF PairInWindow, InWindow
<1>12. CASE Tick \/ StepBack
  BY <1>0, <1>12 DEF Tick, StepBack, loopVars
<1>13. CASE UNCHANGED vars
  BY <1>0, <1>13 DEF vars, loopVars
<1> QED
  BY <1>1, <1>2, <1>3, <1>4, <1>5, <1>6, <1>7, <1>8, <1>9, <1>10, <1>11,
     <1>12, <1>13 DEF Next, Sweep

\* Sweep pairs a block event only with a JVM event taken when the block had
\* ended and less than the threshold later, in both branches that pair.  It
\* is also what keeps the unsigned subtraction of the take-over test from
\* wrapping.
THEOREM PairsInWindow == Spec => []PairInWindow
<1>1. Init => PairInWindow
  BY DEF Init, PairInWindow, RetPairs
<1> QED
  BY <1>1, TypeCorrect, WindowStep, PTL DEF Spec
----------------------------------------------------------------------------
(***************************************************************************)
(* What a sweep leaves behind                                              *)
(***************************************************************************)

LEMMA OneSideStep == TypeOK /\ OneSideWaits /\ [Next]_vars => OneSideWaits'
<1> SUFFICES ASSUME TypeOK, OneSideWaits, [Next]_vars,
                    NEW t \in Visited'
             PROVE  \/ bpfEvents'[t] = <<>>
                    \/ /\ jvmEvents'[t] = <<>>
                       /\ sweepNow' < Head(bpfEvents'[t]).timestamp + GiveUp
  BY DEF OneSideWaits
<1> DEFINE Done(u) ==
      \/ bpfEvents[u] = <<>>
      \/ jvmEvents[u] = <<>> /\ sweepNow < Head(bpfEvents[u]).timestamp + GiveUp
<1>0. t \in Tids /\ (t \in Visited => Done(t))
  BY DEF OneSideWaits, Visited
<1>1. CASE BeginProcess \/ Quit \/ EndBpf
  BY <1>1 DEF BeginProcess, Quit, EndBpf, Visited
<1>2. CASE ReceiveBpf \/ ReceiveJvm
  BY <1>2 DEF ReceiveBpf, AddBpfEvent, ReceiveJvm, FillQueue, Visited
<1>3. CASE SweepBegin
  BY <1>3 DEF SweepBegin, Visited, WithQueue
<1>4. CASE SweepTid
  BY <1>0, <1>4, ConstantAssumption DEF SweepTid, Visited, TypeOK
<1>5. CASE TakeOver \/ Match \/ ReportUnmatched \/ TrashJvm
  <2>1. t \in Visited /\ t # cur
    BY <1>5 DEF TakeOver, Match, ReportUnmatched, TrashJvm, Visited, loopVars
  <2>2. /\ bpfEvents'[t] = bpfEvents[t] /\ jvmEvents'[t] = jvmEvents[t]
        /\ sweepNow' = sweepNow
    BY <1>5, <2>1, <1>0
    DEF TakeOver, Match, ReportUnmatched, TrashJvm, PopBpfInto, loopVars, TypeOK
  <2> QED
    BY <1>0, <2>1, <2>2
<1>6. CASE LeaveTid
  <2>1. UNCHANGED <<bpfEvents, jvmEvents, sweepNow>>
    BY <1>6 DEF LeaveTid
  <2>2. CASE t = cur /\ bpfEvents[cur] # <<>>
    <3>1. JvmQueue = <<>> /\ ~(Elapsed >= GiveUp) /\ Front \in BpfEvent
      BY <1>6, <2>2, InLoopType DEF LeaveTid, GivesUp
    <3>2. sweepNow < Front.timestamp + GiveUp
      BY <3>1, ConstantAssumption DEF Elapsed, TypeOK, BpfEvent
    <3> QED
      BY <2>1, <2>2, <3>1, <3>2 DEF JvmQueue, Front
  <2>3. CASE t = cur /\ bpfEvents[cur] = <<>>
    BY <2>1, <2>3
  <2>4. CASE t # cur
    BY <1>0, <1>6, <2>1, <2>4 DEF LeaveTid, Visited
  <2> QED
    BY <2>2, <2>3, <2>4
<1>7. CASE SweepReturn
  BY <1>7 DEF SweepReturn, Visited
<1>8. CASE Tick \/ StepBack
  BY <1>0, <1>8 DEF Tick, StepBack, Visited, loopVars
<1>9. CASE UNCHANGED vars
  BY <1>0, <1>9 DEF vars, loopVars, Visited
<1> QED
  BY <1>1, <1>2, <1>3, <1>4, <1>5, <1>6, <1>7, <1>8, <1>9 DEF Next, Sweep

\* A thread that sweep is done with never has block events and JVM events
\* queued at once, and its first block event is not overdue.  It holds even
\* if the wall clock is set back, when the age of an event wraps.
THEOREM NothingOverdue == Spec => []OneSideWaits
<1>1. Init => OneSideWaits
  BY DEF Init, OneSideWaits, Visited
<1> QED
  BY <1>1, TypeCorrect, OneSideStep, PTL DEF Spec
=============================================================================
