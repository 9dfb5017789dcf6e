--------------------------- MODULE PipelineProofs ---------------------------
(***************************************************************************)
(* Theorems about Pipeline, for any threads, any number of CPUs and of     *)
(* blocks, any sizes of the perf buffers and of a read, and any clocks.    *)
(***************************************************************************)
EXTENDS Pipeline, EventStreamProofs, TimestampProofs

\* Every block ended in the past, and when the clocks were past their first
\* millisecond: so a time that is almost two of them too early is not negative.
EndsInv == \A n \in 1..Len(ends) : NsPerMs <= ends[n] /\ ends[n] <= ktime

\* An event that is not queued yet has the time its block ended at.
Genuine == {e \in BlockEvent : e.id \in 1..Len(ends) /\ e.t_end = ends[e.id]}
UnreadInv ==
  \A c \in Cpus : Elements(buffers[c]) \cup Elements(Results(c)) \subseteq Genuine

\* The clock was read when the events of the round were there, and one of them
\* is still to be added.
ReadingInv ==
  nowKtime # NotStamped =>
    /\ pc \in {"bpf", "exited"}
    /\ \E c \in Cpus : bpfResults[c] # <<>>
    /\ \A c \in Cpus :
         /\ bpfResults[c] # NotRead
         /\ \A e \in Elements(bpfResults[c]) : e.t_end <= nowKtime

\* Only blocks that have ended are queued, signalled or written.
KnownInv ==
  /\ \A b \in Bpfs : b.id \in 1..Len(ends)
  /\ half # NoJvm => half.id \in 1..Len(ends)

StampInv == EndsInv /\ UnreadInv /\ ReadingInv /\ KnownInv /\ StampNearEnd
----------------------------------------------------------------------------
(***************************************************************************)
(* Lemmas                                                                  *)
(***************************************************************************)

\* Millis keeps the order of times, and counts the whole milliseconds.
LEMMA MillisMonotone ==
  ASSUME NEW a \in Int, NEW b \in Int, a <= b
  PROVE  Millis(a) <= Millis(b)
<1> DEFINE p == Millis(a)
           q == Millis(b)
<1>1. p \in Int /\ p * NsPerMs \in Int /\ p * NsPerMs <= a
  BY MillisBounds, NsPerMsAssumption
<1>2. q \in Int /\ (q + 1) * NsPerMs \in Int /\ b < (q + 1) * NsPerMs
  BY MillisBounds, NsPerMsAssumption
<1>3. p < q + 1
  <2> HIDE DEF p, q
  <2>1. p * NsPerMs < (q + 1) * NsPerMs
    BY <1>1, <1>2
  <2> QED BY <1>1, <1>2, <2>1, Scale
<1> QED BY <1>1, <1>2, <1>3

LEMMA MillisNat ==
  ASSUME NEW a \in Nat
  PROVE  Millis(a) \in Nat /\ (NsPerMs <= a => Millis(a) >= 1)
<1>1. Millis(0) = 0 /\ Millis(NsPerMs) = 1
  BY NsPerMsAssumption DEF Millis
<1>2. Millis(a) \in Int /\ Millis(0) <= Millis(a)
  BY MillisBounds, MillisMonotone
<1>3. NsPerMs <= a => Millis(NsPerMs) <= Millis(a)
  BY MillisMonotone, NsPerMsAssumption
<1> QED BY <1>1, <1>2, <1>3

LEMMA WallBounds ==
  ASSUME NEW a \in Nat
  PROVE  /\ Wall(a) \in Nat /\ (NsPerMs <= a => Wall(a) >= 1)
         /\ \A b \in Nat : a <= b => Wall(a) <= Wall(b)
<1>1. a + Offset \in Nat /\ Offset >= 0 /\ (NsPerMs <= a => NsPerMs <= a + Offset)
  BY PipelineAssumption, NsPerMsAssumption
<1>2. ASSUME NEW b \in Nat, a <= b PROVE Wall(a) <= Wall(b)
  <2>1. a + Offset <= b + Offset /\ a + Offset \in Int /\ b + Offset \in Int
    BY <1>2, PipelineAssumption, NsPerMsAssumption
  <2> QED BY <2>1, MillisMonotone DEF Wall
<1> QED BY <1>1, <1>2, MillisNat DEF Wall

\* sweep() makes no block event: those it has after a step it had before.
LEMMA SweepKeeps == TypeOK /\ Sweep => Bpfs' \subseteq Bpfs
<1> SUFFICES ASSUME TypeOK, Sweep PROVE Bpfs' \subseteq Bpfs
  OBVIOUS
<1>0. ASSUME NEW r \in Seq(Pair), NEW jvm \in JvmEvent \cup {NoJvm},
             InLoop, PopBpfInto(r, jvm), reported' = reported,
             \A i \in 1..Len(r) : \E p \in RetPairs : r[i].bpf = p.bpf
      PROVE  Bpfs' \subseteq Bpfs
  <2>1. RetPairs' = Elements(r) \cup {[bpf |-> Front, jvm |-> jvm]}
    BY <1>0, PushedPairs
  <2>2. Front \in Queued(bpfEvents) /\ Queued(bpfEvents)' \subseteq Queued(bpfEvents)
    BY <1>0, QueuedPop DEF PopBpfInto
  <2>3. \A p \in RetPairs' : p.bpf \in Bpfs
    BY <1>0, <2>1, <2>2 DEF Elements, Bpfs
  <2> QED BY <1>0, <2>2, <2>3 DEF Bpfs
<1>1. CASE SweepBegin \/ SweepTid \/ LeaveTid \/ TrashJvm
  <2>1. bpfEvents' = bpfEvents /\ reported' = reported /\ (ret' = ret \/ ret' = <<>>)
    BY <1>1 DEF SweepBegin, SweepTid, LeaveTid, TrashJvm, loopVars
  <2>2. RetPairs' \subseteq RetPairs
    BY <2>1 DEF RetPairs
  <2> QED BY <2>1, <2>2 DEF Bpfs
<1>2. CASE TakeOver
  <2>1. PICK r \in Seq(Pair) : r = [ret EXCEPT ![Len(ret)].jvm = NoJvm]
    BY <1>2, TakeOverType DEF TakeOver
  <2>2. LastPair.jvm \in JvmEvent
    BY <1>2, TakeOverType DEF TakeOver
  <2>3. \A i \in 1..Len(r) : \E p \in RetPairs : r[i].bpf = p.bpf
    <3>1. SUFFICES ASSUME NEW i \in 1..Len(r) PROVE \E p \in RetPairs : r[i].bpf = p.bpf
      OBVIOUS
    <3>2. ret \in Seq(Pair) /\ Len(r) = Len(ret) /\ ret[i] \in RetPairs /\ ret[i] \in Pair
      BY <2>1 DEF TypeOK, RetPairs
    <3>3. r[i].bpf = ret[i].bpf
      BY <2>1, <3>2 DEF Pair
    <3> QED BY <3>2, <3>3
  <2> QED BY <1>0, <1>2, <2>1, <2>2, <2>3 DEF TakeOver
<1>3. CASE Match
  <2>1. JvmQueue # <<>> /\ Head(JvmQueue) \in JvmEvent
    BY <1>3, InLoopType, HeadTailType DEF Match, JvmQueue
  <2>2. ret \in Seq(Pair) /\ \A i \in 1..Len(ret) : ret[i] \in RetPairs
    BY DEF TypeOK, RetPairs
  <2> QED BY <1>0, <1>3, <2>1, <2>2 DEF Match
<1>4. CASE ReportUnmatched
  <2>1. ret \in Seq(Pair) /\ \A i \in 1..Len(ret) : ret[i] \in RetPairs
    BY DEF TypeOK, RetPairs
  <2> QED BY <1>0, <1>4, <2>1 DEF ReportUnmatched
<1>5. CASE SweepReturn
  BY <1>5 DEF SweepReturn, Bpfs, RetPairs
<1> QED BY <1>1, <1>2, <1>3, <1>4, <1>5 DEF Sweep
----------------------------------------------------------------------------
(***************************************************************************)
(* The steps that leave the blocks that have ended alone                   *)
(***************************************************************************)

\* What StampInv is about, apart from the queued block events.
Unqueued == <<ends, ktime, now, buffers, bpfResults, nowKtime>>

\* A step that adds no block event and leaves the reads alone.
LEMMA StampKept ==
  ASSUME StampInv, UNCHANGED Unqueued, Bpfs' \subseteq Bpfs,
         half' = half \/ half' = NoJvm \/ half'.id \in 1..Len(ends),
         pc' \in {pc, "exited"} \/ nowKtime = NotStamped
  PROVE  StampInv'
<1>1. EndsInv' /\ UnreadInv'
  BY DEF StampInv, EndsInv, UnreadInv, Genuine, Results, Unqueued
<1>2. ReadingInv'
  BY DEF StampInv, ReadingInv, Unqueued
<1>3. KnownInv'
  BY DEF StampInv, KnownInv, Unqueued
<1>4. StampNearEnd'
  BY DEF StampInv, StampNearEnd, Unqueued
<1> QED BY <1>1, <1>2, <1>3, <1>4 DEF StampInv

\* Without a step of sweep or an arrival the queued block events are the same.
LEMMA BpfsSame ==
  ASSUME UNCHANGED <<bpfEvents, ret, reported>>
  PROVE  Bpfs' = Bpfs
BY DEF Bpfs, Queued, RetPairs

LEMMA BpfsTyped == TypeOK => Bpfs \subseteq BpfEvent
<1> SUFFICES ASSUME TypeOK PROVE Bpfs \subseteq BpfEvent
  OBVIOUS
<1>1. \A t \in Tids : Elements(bpfEvents[t]) \subseteq BpfEvent
  BY DEF TypeOK, Elements
<1>2. Queued(bpfEvents) \subseteq BpfEvent
  BY <1>1, QueuedIn
<1>3. RetPairs \cup reported \subseteq Pair
  BY DEF TypeOK, RetPairs
<1> QED BY <1>2, <1>3 DEF Bpfs, Pair

\* The parts of PipelineTypeOK that the steps of EventStream leave alone.
LEMMA TypeOfTheRest ==
  ASSUME PipelineTypeOK, TypeOK',
         UNCHANGED <<kernel3x, ktime, now, kernelVars, opened, bpfResults, nowKtime, signals, fileVars, noStack>>
  PROVE  PipelineTypeOK'
BY DEF PipelineTypeOK, kernelVars, signals, fileVars

LEMMA StepOfSweep ==
  ASSUME PipelineTypeOK, StampInv, SweepSteps
  PROVE  PipelineTypeOK' /\ StampInv'
<1>1. TypeOK /\ TypeOK' /\ Bpfs' \subseteq Bpfs
  BY TypeStep, SweepKeeps DEF PipelineTypeOK, SweepSteps, Next
<1>2. now' = now /\ pc # "bpf" /\ pc # "exited"
  BY DEF SweepSteps, Sweep, SweepBegin, SweepTid, TakeOver, TrashJvm, Match,
         ReportUnmatched, LeaveTid, SweepReturn, InLoop
<1>3. UNCHANGED Unqueued /\ half' = half
  BY <1>2 DEF SweepSteps, Unqueued, kernelVars, readVars, fileVars
<1>4. nowKtime = NotStamped
  BY <1>2 DEF StampInv, ReadingInv
<1>5. StampInv'
  BY <1>1, <1>3, <1>4, StampKept
<1> QED BY <1>1, <1>2, <1>5, TypeOfTheRest DEF SweepSteps, readVars

LEMMA StepOfExit ==
  ASSUME PipelineTypeOK, StampInv, Exit \/ EndAdding
  PROVE  PipelineTypeOK' /\ StampInv'
<1>1. TypeOK'
  BY TypeStep DEF PipelineTypeOK, Exit, EndAdding, Next
<1>2. Bpfs' = Bpfs /\ now' = now
  BY BpfsSame DEF Exit, EndAdding, Quit, EndBpf, loopVars
<1>3. UNCHANGED Unqueued /\ half' = half
  BY <1>2 DEF Exit, EndAdding, Unqueued, kernelVars, readVars, fileVars
<1>4. pc' = "exited" \/ nowKtime = NotStamped
  BY DEF Exit, EndAdding, Quit, StampInv, ReadingInv
<1>5. StampInv'
  BY <1>2, <1>3, <1>4, StampKept
<1> QED BY <1>1, <1>2, <1>5, TypeOfTheRest DEF Exit, EndAdding, readVars

LEMMA StepOfReadHalf ==
  ASSUME PipelineTypeOK, StampInv, OpenBuffer \/ ReadHalfLine
  PROVE  PipelineTypeOK' /\ StampInv'
<1>1. UNCHANGED vars /\ Bpfs' = Bpfs /\ UNCHANGED Unqueued /\ half' = half
  BY BpfsSame DEF OpenBuffer, ReadHalfLine, vars, loopVars, Unqueued, kernelVars, readVars, fileVars
<1>2. StampInv'
  BY <1>1, StampKept DEF vars
<1>3. TypeOK'
  BY <1>1, TypeStep DEF PipelineTypeOK
<1>4. opened' \in 0..NCpu
  BY PipelineAssumption DEF PipelineTypeOK, OpenBuffer, ReadHalfLine, readVars
<1> QED
  BY <1>1, <1>2, <1>3, <1>4
  DEF PipelineTypeOK, OpenBuffer, ReadHalfLine, vars, kernelVars, readVars, signals, fileVars

\* A line is read: the queue of a thread gains a JVM event.
LEMMA StepOfReadLine ==
  ASSUME PipelineTypeOK, StampInv, ReadLine
  PROVE  PipelineTypeOK' /\ StampInv'
<1>1. file # <<>> /\ Head(file) \in JvmEvent /\ Tail(file) \in Seq(JvmEvent)
  BY HeadTailType DEF PipelineTypeOK, ReadLine
<1>2. FillQueue(Head(file))
  BY DEF ReadLine
<1>3. TypeOK'
  <2>1. PICK j \in JvmEvent : j = Head(file)
    BY <1>1
  <2>2. j.tid \in Tids /\ jvmEvents' = [jvmEvents EXCEPT ![j.tid] = Append(@, j)]
    BY <1>2, <2>1 DEF FillQueue, JvmEvent
  <2>3. jvmEvents' \in [Tids -> Seq(JvmEvent)]
    BY <2>2 DEF PipelineTypeOK, TypeOK
  <2> QED BY <1>2, <2>3 DEF FillQueue, PipelineTypeOK, TypeOK, loopVars
<1>4. Bpfs' = Bpfs /\ UNCHANGED Unqueued /\ half' = half /\ pc' = pc
  BY <1>2, BpfsSame DEF ReadLine, FillQueue, loopVars, Unqueued, kernelVars, readVars
<1>5. StampInv'
  BY <1>4, StampKept
<1> QED
  BY <1>1, <1>3, <1>4, <1>5 DEF PipelineTypeOK, ReadLine, Unqueued, kernelVars, readVars, signals

\* The profiler takes a signal, and writes a line.
LEMMA StepOfProfiler ==
  ASSUME PipelineTypeOK, StampInv, (\E t \in Tids : TakeSignal(t)) \/ WriteLine
  PROVE  PipelineTypeOK' /\ StampInv'
<1>1. UNCHANGED vars /\ Bpfs' = Bpfs /\ UNCHANGED Unqueued /\ pc' = pc
  BY BpfsSame DEF TakeSignal, WriteLine, vars, loopVars, Unqueued, kernelVars, readVars
<1>2. TypeOK'
  BY <1>1, TypeStep DEF PipelineTypeOK
<1>3. CASE \E t \in Tids : TakeSignal(t)
  <2>1. PICK t \in Tids : TakeSignal(t)
    BY <1>3
  <2>2. Len(ends) \in Nat /\ sigprof \in [Tids -> 0..Len(ends)] /\ killed \in 0..Len(ends)
    BY DEF PipelineTypeOK
  <2>3. half' \in JvmEvent /\ half'.id \in 1..Len(ends)
    <3>1. PICK n \in {sigprof[t], killed} \ {0} :
            half' = [id |-> n, tid |-> t, timestamp |-> now]
      BY <2>1 DEF TakeSignal
    <3>2. n \in 1..Len(ends) /\ n \in Nat /\ now \in Nat
      BY <2>2, <3>1 DEF PipelineTypeOK, TypeOK
    <3> QED BY <3>1, <3>2 DEF JvmEvent
  <2>4. StampInv'
    BY <1>1, <2>3, StampKept
  <2>5. ranAt' \in [Tids -> -MinBlock..ktime]
    BY <2>1, PipelineAssumption DEF TakeSignal, PipelineTypeOK
  <2>6. sigprof' \in [Tids -> 0..Len(ends)] /\ killed' \in 0..Len(ends)
    BY <2>1, <2>2 DEF TakeSignal, Takes
  <2> QED
    BY <1>1, <1>2, <2>1, <2>3, <2>4, <2>5, <2>6
    DEF PipelineTypeOK, TakeSignal, vars, readVars
<1>4. CASE WriteLine
  <2>1. half \in JvmEvent /\ half.id \in 1..Len(ends) /\ half' = NoJvm
    BY <1>4 DEF WriteLine, PipelineTypeOK, StampInv, KnownInv
  <2>2. StampInv'
    BY <1>1, <2>1, StampKept
  <2>3. file \in Seq(JvmEvent) /\ noStack \subseteq 1..Len(ends)
    BY DEF PipelineTypeOK
  <2>4. file' = file \/ file' = Append(file, half)
    BY <1>4 DEF WriteLine
  <2>5. noStack' = noStack \/ noStack' = noStack \cup {half.id}
    BY <1>4 DEF WriteLine
  <2>6. file' \in Seq(JvmEvent) /\ noStack' \subseteq 1..Len(ends)
    <3>1. Append(file, half) \in Seq(JvmEvent)
      BY <2>1, <2>3
    <3>2. noStack' \subseteq 1..Len(ends)
      BY <2>1, <2>3, <2>5
    <3> QED BY <2>3, <2>4, <3>1, <3>2
  <2>7. headRead' \in BOOLEAN
    BY <1>4 DEF WriteLine
  <2>8. UNCHANGED <<kernel3x, ktime, kernelVars, readVars, sigprof, killed>>
    BY <1>4 DEF WriteLine, signals
  <2> QED
    BY <1>1, <1>2, <2>1, <2>2, <2>6, <2>7, <2>8 DEF PipelineTypeOK, vars, kernelVars, readVars
<1> QED BY <1>3, <1>4
----------------------------------------------------------------------------
(***************************************************************************)
(* Time passes, and blocks end                                             *)
(***************************************************************************)

LEMMA StepOfPass ==
  ASSUME PipelineTypeOK, StampInv, Pass
  PROVE  PipelineTypeOK' /\ StampInv'
<1>1. /\ UNCHANGED <<matching, kernel3x, kernelVars, readVars, signals, fileVars, noStack>>
      /\ ktime \in Nat /\ ktime' = ktime + 1 /\ ktime' \in Nat
      /\ now = Wall(ktime) /\ now' = Wall(ktime')
  BY DEF Pass, PipelineTypeOK
<1>2. now \in Nat /\ now' \in Nat /\ now <= now'
  <2>1. ktime <= ktime'
    BY <1>1
  <2> QED BY <1>1, <2>1, WallBounds
<1>3. TypeOK'
  BY <1>1, <1>2 DEF matching, loopVars, PipelineTypeOK, TypeOK
<1>4. Bpfs' = Bpfs
  BY <1>1, BpfsSame DEF matching, loopVars
<1>5. ends \in Seq(0..ktime) /\ Len(ends) \in Nat /\ \A n \in 1..Len(ends) : ends[n] \in 0..ktime
  BY DEF PipelineTypeOK
<1>6. EndsInv'
  BY <1>1, <1>5, NsPerMsAssumption DEF StampInv, EndsInv, kernelVars
<1>7. UnreadInv' /\ ReadingInv' /\ KnownInv'
  BY <1>1, <1>4
  DEF StampInv, UnreadInv, Genuine, Results, ReadingInv, KnownInv, matching, kernelVars, readVars, fileVars
<1>8. StampNearEnd'
  <2>1. SUFFICES ASSUME NEW b \in Bpfs
                 PROVE  Wall(ends[b.id]) - 1 <= b.timestamp /\ b.timestamp <= now'
    BY <1>1, <1>4 DEF StampNearEnd, kernelVars
  <2>2. Wall(ends[b.id]) - 1 <= b.timestamp /\ b.timestamp <= now /\ b.timestamp \in Nat
    BY BpfsTyped DEF StampInv, StampNearEnd, BpfEvent, PipelineTypeOK
  <2> QED BY <1>2, <2>2
<1>9. ranAt' \in [Tids -> -MinBlock..ktime'] /\ ends' \in Seq(0..ktime')
  <2>1. -MinBlock..ktime \subseteq -MinBlock..ktime' /\ 0..ktime \subseteq 0..ktime'
    BY <1>1, PipelineAssumption
  <2> QED BY <1>1, <1>5, <2>1 DEF PipelineTypeOK, kernelVars
<1>10. nowKtime' \in {NotStamped} \cup 0..ktime'
  BY <1>1 DEF PipelineTypeOK, readVars
<1>11. PipelineTypeOK'
  BY <1>1, <1>3, <1>9, <1>10 DEF PipelineTypeOK, kernelVars, readVars, signals, fileVars
<1> QED BY <1>6, <1>7, <1>8, <1>11 DEF StampInv

LEMMA StepOfBlock ==
  ASSUME PipelineTypeOK, StampInv, NEW t \in Tids, NEW c \in Cpus, Block(t, c)
  PROVE  PipelineTypeOK' /\ StampInv'
<1> DEFINE n == Len(ends) + 1
           e == [id |-> n, tid |-> t, t_end |-> ktime]
<1>1. /\ ends \in Seq(0..ktime) /\ Len(ends) \in Nat /\ ktime \in Nat
      /\ \A i \in 1..Len(ends) : ends[i] \in 0..ktime
      /\ buffers \in [Cpus -> Seq(BlockEvent)]
      /\ dropped \cup unsignalled \cup noStack \subseteq 1..Len(ends)
      /\ sigprof \in [Tids -> 0..Len(ends)] /\ killed \in 0..Len(ends)
  BY DEF PipelineTypeOK
<1>2. NsPerMs <= ktime /\ ends' = Append(ends, ktime)
  BY DEF Block
<1>3. /\ ends' \in Seq(0..ktime) /\ Len(ends') = n /\ ends'[n] = ktime
      /\ \A i \in 1..Len(ends) : ends'[i] = ends[i]
      /\ 1..Len(ends) \subseteq 1..n /\ n \in 1..n /\ n \in Nat \ {0}
  BY <1>1, <1>2
<1>4. UNCHANGED <<vars, kernel3x, ktime, killed, readVars, fileVars>> /\ Bpfs' = Bpfs
  BY BpfsSame DEF Block, vars, loopVars
<1>5. TypeOK'
  BY <1>4, TypeStep DEF PipelineTypeOK
<1>6. e \in BlockEvent
  BY <1>1, <1>3 DEF BlockEvent
<1>7. buffers' = buffers \/ buffers' = [buffers EXCEPT ![c] = Append(@, e)]
  BY DEF Block
<1>8. /\ buffers' \in [Cpus -> Seq(BlockEvent)]
      /\ \A d \in Cpus : Elements(buffers'[d]) \subseteq Elements(buffers[d]) \cup {e}
  <2> HIDE DEF e
  <2>1. Append(buffers[c], e) \in Seq(BlockEvent)
    BY <1>1, <1>6
  <2>2. Elements(Append(buffers[c], e)) = Elements(buffers[c]) \cup {e}
    BY <1>1, <1>6, AppendElements
  <2> QED BY <1>1, <1>7, <2>1, <2>2
<1>9. EndsInv'
  <2>1. \A i \in 1..n : NsPerMs <= ends'[i] /\ ends'[i] <= ktime
    BY <1>1, <1>2, <1>3 DEF StampInv, EndsInv
  <2> QED BY <1>3, <1>4, <2>1 DEF EndsInv
<1>10. Genuine \cup {e} \subseteq Genuine'
  BY <1>3, <1>6 DEF Genuine
<1>11. UnreadInv'
  <2>1. \A d \in Cpus : Results(d)' = Results(d)
    BY <1>4 DEF Results, readVars
  <2>2. ASSUME NEW d \in Cpus
        PROVE  Elements(buffers'[d]) \cup Elements(Results(d)) \subseteq Genuine'
    BY <1>8, <1>10 DEF StampInv, UnreadInv
  <2> QED BY <2>1, <2>2 DEF UnreadInv, Elements
<1>12. ReadingInv' /\ KnownInv'
  BY <1>3, <1>4 DEF StampInv, ReadingInv, KnownInv, vars, readVars, fileVars
<1>13. StampNearEnd'
  BY <1>3, <1>4 DEF StampInv, KnownInv, StampNearEnd, vars
<1>14. dropped' \subseteq 1..n
  BY <1>1, <1>3 DEF Block
<1>15. /\ unsignalled' \subseteq 1..n /\ noStack' \subseteq 1..n
       /\ sigprof' \in [Tids -> 0..n] /\ killed' \in 0..n
  <2>0. killed' \in 0..n
    BY <1>1, <1>4
  <2>1. sigprof[t] \in 0..Len(ends) /\ 0..Len(ends) \subseteq 0..n /\ n \in 0..n
    BY <1>1
  <2>2. CASE Signal(t, n) /\ UNCHANGED unsignalled
    BY <1>1, <1>3, <2>0, <2>1, <2>2 DEF Signal
  <2>3. CASE unsignalled' = unsignalled \cup {n} /\ UNCHANGED <<sigprof, noStack>>
    BY <1>1, <1>3, <2>0, <2>1, <2>3
  <2> QED BY <2>0, <2>2, <2>3 DEF Block
<1>16. ranAt' \in [Tids -> -MinBlock..ktime]
  BY <1>1, PipelineAssumption DEF Block, PipelineTypeOK
<1>17. PipelineTypeOK'
  BY <1>3, <1>4, <1>5, <1>8, <1>14, <1>15, <1>16 DEF PipelineTypeOK, vars, readVars, fileVars
<1> QED BY <1>9, <1>11, <1>12, <1>13, <1>17 DEF StampInv
----------------------------------------------------------------------------
(***************************************************************************)
(* process() reads the perf buffers and adds what it has read              *)
(***************************************************************************)

\* A part of a queue is a queue, of elements that were in it.
LEMMA SubSeqElements ==
  ASSUME NEW S, NEW q \in Seq(S), NEW a \in 1..Len(q) + 1, NEW b \in 0..Len(q)
  PROVE  SubSeq(q, a, b) \in Seq(S) /\ Elements(SubSeq(q, a, b)) \subseteq Elements(q)
<1>1. SubSeq(q, a, b) \in Seq(S)
  OBVIOUS
<1>2. \A i \in 1..Len(SubSeq(q, a, b)) :
        SubSeq(q, a, b)[i] = q[a + i - 1] /\ a + i - 1 \in 1..Len(q)
  OBVIOUS
<1> QED BY <1>1, <1>2 DEF Elements

LEMMA StepOfStartRound ==
  ASSUME PipelineTypeOK, StampInv, StartRound
  PROVE  PipelineTypeOK' /\ StampInv'
<1>1. BeginProcess /\ nowKtime = NotStamped
  BY DEF StartRound, BeginProcess, StampInv, ReadingInv
<1>2. TypeOK'
  BY <1>1, TypeStep DEF PipelineTypeOK, Next
<1>3. /\ Bpfs' = Bpfs /\ now' = now
      /\ UNCHANGED <<kernel3x, ktime, kernelVars, opened, nowKtime, signals, fileVars, noStack>>
  BY <1>1, BpfsSame DEF BeginProcess, StartRound, loopVars
<1>4. bpfResults' \in [Cpus -> Seq(BlockEvent) \cup {NotRead}]
  BY DEF StartRound
<1>5. UnreadInv'
  <2>1. Elements(<<>>) = {}
    BY DEF Elements
  <2>2. \A c \in Cpus : Results(c)' = <<>>
    BY DEF StartRound, Results
  <2>3. \A c \in Cpus : Elements(buffers[c]) \subseteq Genuine
    BY DEF StampInv, UnreadInv
  <2>4. buffers' = buffers /\ ends' = ends
    BY <1>3 DEF kernelVars
  <2> QED BY <2>1, <2>2, <2>3, <2>4 DEF UnreadInv, Genuine
<1>6. EndsInv' /\ ReadingInv' /\ KnownInv' /\ StampNearEnd'
  BY <1>1, <1>3 DEF StampInv, EndsInv, ReadingInv, KnownInv, StampNearEnd, kernelVars, fileVars
<1>7. PipelineTypeOK'
  BY <1>2, <1>3, <1>4 DEF PipelineTypeOK, kernelVars, signals, fileVars
<1> QED BY <1>5, <1>6, <1>7 DEF StampInv

LEMMA StepOfReading ==
  ASSUME PipelineTypeOK, StampInv, NEW c \in Cpus, Reading(c)
  PROVE  PipelineTypeOK' /\ StampInv'
<1> DEFINE q == buffers[c]
<1>1. /\ UNCHANGED <<vars, kernel3x, ktime, ranAt, ends, dropped, unsignalled, opened, nowKtime, signals, fileVars, noStack>>
      /\ Waits(c)
  BY DEF Reading, ReadEvents, ReadGivesUp, kernelVars
<1>2. nowKtime = NotStamped
  BY <1>1 DEF Waits, StampInv, ReadingInv
<1>3. TypeOK' /\ Bpfs' = Bpfs
  BY <1>1, TypeStep, BpfsSame DEF PipelineTypeOK, vars, loopVars
<1>4. q \in Seq(BlockEvent) /\ Elements(q) \subseteq Genuine
  BY DEF PipelineTypeOK, StampInv, UnreadInv
<1>5. PICK taken \in Seq(BlockEvent), rest \in Seq(BlockEvent) :
        /\ bpfResults' = [bpfResults EXCEPT ![c] = taken]
        /\ buffers' = [buffers EXCEPT ![c] = rest]
        /\ Elements(taken) \cup Elements(rest) \subseteq Elements(q)
  <2>1. CASE ReadEvents(c)
    <3>1. PICK n \in 0..Len(q) : TakeEvents(c, n)
      BY <1>4, <2>1, PipelineAssumption DEF ReadEvents
    <3>2. n + 1 \in 1..Len(q) + 1 /\ 1 \in 1..Len(q) + 1 /\ Len(q) \in 0..Len(q)
      BY <1>4
    <3>3. /\ SubSeq(q, 1, n) \in Seq(BlockEvent)
          /\ Elements(SubSeq(q, 1, n)) \subseteq Elements(q)
          /\ SubSeq(q, n + 1, Len(q)) \in Seq(BlockEvent)
          /\ Elements(SubSeq(q, n + 1, Len(q))) \subseteq Elements(q)
      BY <1>4, <3>2, SubSeqElements
    <3> QED BY <3>1, <3>3 DEF TakeEvents
  <2>2. CASE ReadGivesUp(c)
    <3>1. bpfResults' = [bpfResults EXCEPT ![c] = <<>>] /\ buffers' = buffers
      BY <2>2 DEF ReadGivesUp, kernelVars
    <3>2. Elements(<<>>) = {}
      BY DEF Elements
    <3>3. buffers = [buffers EXCEPT ![c] = q]
      BY DEF PipelineTypeOK
    <3>4. <<>> \in Seq(BlockEvent)
      OBVIOUS
    <3> HIDE DEF q
    <3> QED BY <1>4, <3>1, <3>2, <3>3, <3>4
  <2> QED BY <2>1, <2>2 DEF Reading
<1>6. /\ bpfResults' \in [Cpus -> Seq(BlockEvent) \cup {NotRead}]
      /\ buffers' \in [Cpus -> Seq(BlockEvent)]
      /\ bpfResults'[c] = taken /\ buffers'[c] = rest
      /\ \A d \in Cpus \ {c} : bpfResults'[d] = bpfResults[d] /\ buffers'[d] = buffers[d]
  BY <1>5 DEF PipelineTypeOK
<1>7. UnreadInv'
  <2>1. Genuine' = Genuine
    BY <1>1 DEF Genuine
  <2>2. Results(c)' = taken \/ Results(c)' = <<>>
    BY <1>6 DEF Results
  <2>3. Elements(<<>>) = {}
    BY DEF Elements
  <2>4. Elements(buffers'[c]) \cup Elements(Results(c)') \subseteq Genuine
    BY <1>4, <1>5, <1>6, <2>2, <2>3
  <2>5. ASSUME NEW d \in Cpus \ {c}
        PROVE  Elements(buffers'[d]) \cup Elements(Results(d)') \subseteq Genuine
    <3>1. Results(d)' = Results(d)
      BY <1>6 DEF Results
    <3> QED BY <1>6, <3>1 DEF StampInv, UnreadInv
  <2>6. \A d \in Cpus : Elements(buffers'[d]) \cup Elements(Results(d)') \subseteq Genuine'
    BY <2>1, <2>4, <2>5
  <2> QED BY <2>6 DEF UnreadInv, Elements
<1>8. EndsInv' /\ ReadingInv' /\ KnownInv' /\ StampNearEnd'
  BY <1>1, <1>2, <1>3 DEF StampInv, EndsInv, ReadingInv, KnownInv, StampNearEnd, vars, fileVars
<1>9. PipelineTypeOK'
  BY <1>1, <1>3, <1>6 DEF PipelineTypeOK, vars, signals, fileVars
<1> QED BY <1>7, <1>8, <1>9 DEF StampInv

\* What has been read ended before the clock is read.
LEMMA StepOfReadKtime ==
  ASSUME PipelineTypeOK, StampInv, NEW c \in Cpus, ReadKtime(c)
  PROVE  PipelineTypeOK' /\ StampInv'
<1>1. /\ UNCHANGED <<vars, kernel3x, ktime, kernelVars, opened, bpfResults, signals, fileVars, noStack>>
      /\ Adding(c) /\ nowKtime' = ktime
  BY DEF ReadKtime
<1>2. TypeOK' /\ Bpfs' = Bpfs
  BY <1>1, TypeStep, BpfsSame DEF PipelineTypeOK, vars, loopVars
<1>3. ASSUME NEW d \in Cpus, NEW e \in Elements(bpfResults[d]) PROVE e.t_end <= ktime
  <2>1. bpfResults[d] # NotRead
    BY <1>1 DEF Adding
  <2>2. e \in Genuine
    BY <1>3, <2>1 DEF StampInv, UnreadInv, Results
  <2> QED BY <2>2 DEF Genuine, StampInv, EndsInv
<1>4. ReadingInv'
  <2>1. pc' = "bpf" /\ bpfResults' = bpfResults /\ bpfResults[c] # <<>>
    BY <1>1 DEF Adding, vars
  <2>2. \A d \in Cpus : bpfResults[d] # NotRead
    BY <1>1 DEF Adding
  <2> QED BY <1>1, <1>3, <2>1, <2>2 DEF ReadingInv, Elements
<1>5. EndsInv' /\ UnreadInv' /\ KnownInv' /\ StampNearEnd'
  BY <1>1, <1>2
  DEF StampInv, EndsInv, UnreadInv, Genuine, Results, KnownInv, StampNearEnd, vars, kernelVars, fileVars
<1>6. PipelineTypeOK'
  BY <1>1, <1>2 DEF PipelineTypeOK, vars, kernelVars, signals, fileVars
<1> QED BY <1>4, <1>5, <1>6 DEF StampInv

\* The time that a block event gets: from TimestampError, with both readings
\* and the end of the block in their order.
LEMMA StampBounds ==
  ASSUME PipelineTypeOK, StampInv, nowKtime # NotStamped,
         NEW e \in Genuine, e.t_end <= nowKtime
  PROVE  /\ Stamp(e) \in Nat
         /\ Wall(ends[e.id]) - 1 <= Stamp(e)
         /\ Stamp(e) <= now
<1> DEFINE stamp == ComputeTimestamp(nowKtime, e.t_end, Millis(ktime + Offset))
           late  == Millis(e.t_end + Offset + (ktime - nowKtime))
<1>1. /\ nowKtime \in Nat /\ ktime \in Nat /\ nowKtime <= ktime
      /\ now = Wall(ktime) /\ e.t_end \in Nat /\ Offset \in Nat
      /\ e.t_end = ends[e.id] /\ NsPerMs <= e.t_end
  BY PipelineAssumption, NsPerMsAssumption
  DEF PipelineTypeOK, Genuine, BlockEvent, StampInv, EndsInv
<1>2. Stamp(e) = stamp
  BY <1>1 DEF Stamp, Wall
<1>3. Millis(e.t_end + Offset) - 1 <= stamp /\ stamp <= late
  BY <1>1, TimestampError
<1>4. late <= Millis(ktime + Offset) /\ late \in Int
  <2>1. /\ e.t_end + Offset + (ktime - nowKtime) \in Int
        /\ ktime + Offset \in Int
        /\ e.t_end + Offset + (ktime - nowKtime) <= ktime + Offset
    BY <1>1
  <2> QED BY <2>1, MillisMonotone, MillisBounds
<1>5. stamp \in Int
  <2>1. Millis(ktime + Offset) \in Int
    BY <1>1, MillisBounds
  <2>2. Millis(ktime + Offset) * NsPerMs - (nowKtime - e.t_end) \in Int
    BY <1>1, <2>1, NsPerMsAssumption
  <2> QED BY <2>2, MillisBounds DEF ComputeTimestamp
<1>6. Wall(e.t_end) \in Nat /\ Wall(e.t_end) >= 1 /\ Wall(ktime) \in Int
  BY <1>1, WallBounds
<1>7. Wall(e.t_end) - 1 <= stamp /\ stamp <= Wall(ktime)
  <2> HIDE DEF stamp, late
  <2> QED BY <1>3, <1>4, <1>5, <1>6 DEF Wall
<1> HIDE DEF stamp
<1> QED BY <1>1, <1>2, <1>5, <1>6, <1>7

LEMMA StepOfAddEvent ==
  ASSUME PipelineTypeOK, StampInv, NEW c \in Cpus, AddEvent(c)
  PROVE  PipelineTypeOK' /\ StampInv'
<1> DEFINE q == bpfResults[c]
           e == Head(q)
           b == [id |-> e.id, tid |-> e.tid, timestamp |-> Stamp(e)]
<1>1. /\ Adding(c) /\ nowKtime # NotStamped
      /\ AddBpfEvent(b)
      /\ bpfResults' = [bpfResults EXCEPT ![c] = Tail(@)]
      /\ nowKtime' = NotStamped
      /\ UNCHANGED <<kernel3x, ktime, kernelVars, opened, sigprof, fileVars, noStack>>
  BY DEF AddEvent
<1>2. /\ q # NotRead /\ q # <<>> /\ q \in Seq(BlockEvent)
      /\ bpfResults \in [Cpus -> Seq(BlockEvent) \cup {NotRead}]
  BY <1>1 DEF Adding, PipelineTypeOK
<1>3. /\ e \in BlockEvent /\ Tail(q) \in Seq(BlockEvent)
      /\ Elements(q) = Elements(Tail(q)) \cup {e}
  BY <1>2, HeadTailType, TailElements
<1>4. Elements(q) \subseteq Genuine
  BY <1>2 DEF StampInv, UnreadInv, Results
<1>5. e \in Genuine /\ e.t_end <= nowKtime
  BY <1>1, <1>3, <1>4 DEF StampInv, ReadingInv
<1>6. /\ Stamp(e) \in Nat
      /\ Wall(ends[e.id]) - 1 <= Stamp(e) /\ Stamp(e) <= now
  <2> HIDE DEF e
  <2> QED BY <1>1, <1>5, StampBounds
<1>7. b \in BpfEvent /\ e.id \in 1..Len(ends)
  BY <1>3, <1>5, <1>6 DEF BpfEvent, BlockEvent, Genuine
<1>8. UNCHANGED <<now, pc, jvmEvents, loopVars, reported, trashed, nJvm>> /\ nBpf' = nBpf + 1
  BY <1>1 DEF AddBpfEvent
<1>9. TypeOK'
  <2>1. b.tid \in Tids /\ bpfEvents' = [bpfEvents EXCEPT ![b.tid] = Append(@, b)]
    <3> HIDE DEF b
    <3> QED BY <1>1, <1>7 DEF AddBpfEvent, BpfEvent
  <2>2. bpfEvents' \in [Tids -> Seq(BpfEvent)]
    <3> HIDE DEF b
    <3> QED BY <1>7, <2>1 DEF PipelineTypeOK, TypeOK
  <2> QED BY <1>8, <2>2 DEF PipelineTypeOK, TypeOK, loopVars
<1>10. Bpfs' \subseteq Bpfs \cup {b}
  <2>1. Queued(bpfEvents)' \subseteq Queued(bpfEvents) \cup {b}
    <3> HIDE DEF b
    <3> QED BY <1>1, <1>7, QueuedAppend DEF PipelineTypeOK
  <2>2. RetPairs' = RetPairs /\ reported' = reported
    BY <1>8 DEF RetPairs, loopVars
  <2> QED BY <2>1, <2>2 DEF Bpfs
<1>11. ends' = ends /\ buffers' = buffers /\ half' = half
  BY <1>1 DEF kernelVars, fileVars
<1>12. /\ bpfResults' \in [Cpus -> Seq(BlockEvent) \cup {NotRead}]
       /\ bpfResults'[c] = Tail(q)
       /\ \A d \in Cpus \ {c} : bpfResults'[d] = bpfResults[d]
  <2> HIDE DEF q
  <2>1. bpfResults' = [bpfResults EXCEPT ![c] = Tail(q)]
    BY <1>1 DEF q
  <2> QED BY <1>2, <1>3, <2>1
<1>13. UnreadInv'
  <2>1. Results(c)' = Tail(q)
    BY <1>3, <1>12, NotReadAssumption DEF Results
  <2>2. \A d \in Cpus \ {c} : Results(d)' = Results(d)
    BY <1>12 DEF Results
  <2>3. \A d \in Cpus : Elements(buffers[d]) \cup Elements(Results(d)') \subseteq Genuine
    BY <1>3, <1>4, <2>1, <2>2 DEF StampInv, UnreadInv
  <2>4. Genuine' = Genuine
    BY <1>11 DEF Genuine
  <2> QED BY <1>11, <2>3, <2>4 DEF UnreadInv, Elements
<1>14. EndsInv' /\ ReadingInv' /\ KnownInv'
  <2>1. EndsInv' /\ ReadingInv'
    BY <1>1, <1>11 DEF StampInv, EndsInv, ReadingInv
  <2>2. KnownInv'
    BY <1>7, <1>10, <1>11 DEF StampInv, KnownInv
  <2> QED BY <2>1, <2>2
<1>15. StampNearEnd'
  BY <1>6, <1>8, <1>10, <1>11 DEF StampInv, StampNearEnd
<1>16. killed' \in 0..Len(ends)
  <2>1. killed \in 0..Len(ends) /\ e.id \in 0..Len(ends)
    BY <1>7 DEF PipelineTypeOK
  <2>2. killed' = killed \/ killed' = e.id
    BY DEF AddEvent, Kill
  <2> QED BY <2>1, <2>2
<1>17. PipelineTypeOK'
  BY <1>1, <1>8, <1>9, <1>12, <1>16 DEF PipelineTypeOK, kernelVars, fileVars
<1> QED BY <1>13, <1>14, <1>15, <1>17 DEF StampInv
----------------------------------------------------------------------------
(***************************************************************************)
(* The theorems                                                            *)
(***************************************************************************)

LEMMA PipelineInitInv == PipelineInit => PipelineTypeOK /\ StampInv
<1> SUFFICES ASSUME PipelineInit PROVE PipelineTypeOK /\ StampInv
  OBVIOUS
<1>1. TypeOK /\ Init
  BY TypeInit DEF PipelineInit
<1>2. Wall(0) = 0
  <2>1. Offset \in Nat /\ Offset < NsPerMs
    BY PipelineAssumption, NsPerMsAssumption
  <2>2. Millis(Offset) \in Nat /\ Millis(Offset) * NsPerMs <= Offset
    BY <2>1, MillisNat, MillisBounds
  <2>3. Millis(Offset) * NsPerMs < 1 * NsPerMs
    BY <2>1, <2>2, NsPerMsAssumption
  <2>4. Millis(Offset) < 1
    BY <2>2, <2>3, Scale
  <2>5. 0 + Offset = Offset
    BY <2>1
  <2> QED BY <2>2, <2>4, <2>5 DEF Wall
<1>3. ends = <<>> /\ Len(ends) = 0 /\ ends \in Seq(0..ktime) /\ file \in Seq(JvmEvent)
  BY DEF PipelineInit
<1>4. ranAt \in [Tids -> -MinBlock..ktime] /\ opened \in 0..NCpu
  BY PipelineAssumption DEF PipelineInit
<1>5. PipelineTypeOK
  <2>1. /\ buffers \in [Cpus -> Seq(BlockEvent)]
        /\ bpfResults \in [Cpus -> Seq(BlockEvent) \cup {NotRead}]
    BY DEF PipelineInit
  <2>2. ktime \in Nat /\ now = Wall(ktime) /\ nowKtime = NotStamped
    BY <1>1, <1>2 DEF PipelineInit, Init
  <2>3. sigprof \in [Tids -> 0..Len(ends)] /\ killed \in 0..Len(ends)
    BY <1>3 DEF PipelineInit
  <2>4. dropped \cup unsignalled \cup noStack \subseteq 1..Len(ends)
    BY DEF PipelineInit
  <2>5. kernel3x \in BOOLEAN /\ headRead \in BOOLEAN /\ half = NoJvm
    BY DEF PipelineInit
  <2> QED BY <1>1, <1>3, <1>4, <2>1, <2>2, <2>3, <2>4, <2>5 DEF PipelineTypeOK
<1>6. Elements(<<>>) = {} /\ Bpfs = {}
  BY <1>1 DEF Elements, Bpfs, Queued, RetPairs, Init
<1>7. UnreadInv
  BY <1>6 DEF PipelineInit, UnreadInv, Results
<1>8. EndsInv /\ ReadingInv /\ KnownInv /\ StampNearEnd
  BY <1>3, <1>6 DEF PipelineInit, EndsInv, ReadingInv, KnownInv, StampNearEnd
<1> QED BY <1>5, <1>7, <1>8 DEF StampInv

LEMMA PipelineStep ==
  PipelineTypeOK /\ StampInv /\ [PipelineNext]_pipelineVars => PipelineTypeOK' /\ StampInv'
<1> SUFFICES ASSUME PipelineTypeOK, StampInv, [PipelineNext]_pipelineVars
             PROVE  PipelineTypeOK' /\ StampInv'
  OBVIOUS
<1>1. CASE Environment
  BY <1>1, StepOfBlock, StepOfProfiler, StepOfPass DEF Environment
<1>2. CASE Process
  <2>1. CASE OpenBuffer \/ ReadHalfLine
    BY <2>1, StepOfReadHalf
  <2>2. CASE StartRound
    BY <2>2, StepOfStartRound
  <2>3. ASSUME NEW c \in Cpus, Reading(c) \/ ReadKtime(c) \/ AddEvent(c)
        PROVE  PipelineTypeOK' /\ StampInv'
    BY <2>3, StepOfReading, StepOfReadKtime, StepOfAddEvent
  <2>4. CASE EndAdding
    BY <2>4, StepOfExit
  <2>5. CASE ReadLine
    BY <2>5, StepOfReadLine
  <2>6. CASE SweepSteps
    BY <2>6, StepOfSweep
  <2> QED BY <1>2, <2>1, <2>2, <2>3, <2>4, <2>5, <2>6 DEF Process
<1>3. CASE Exit
  BY <1>3, StepOfExit
<1>4. CASE UNCHANGED pipelineVars
  <2>1. UNCHANGED vars /\ UNCHANGED Unqueued /\ half' = half /\ pc' = pc /\ Bpfs' = Bpfs
    BY <1>4, BpfsSame DEF pipelineVars, vars, loopVars, Unqueued, kernelVars, readVars, fileVars
  <2>2. TypeOK' /\ StampInv'
    BY <2>1, TypeStep, StampKept DEF PipelineTypeOK
  <2> QED BY <1>4, <2>1, <2>2, TypeOfTheRest DEF pipelineVars, Unqueued, readVars
<1> QED BY <1>1, <1>2, <1>3, <1>4 DEF PipelineNext

\* Every variable of Pipeline has its type: no event is about a block that has
\* not ended, and no time is negative, since all blocks end in or after the
\* first millisecond of the clock.
THEOREM PipelineTypeCorrect == PipelineSpec => []PipelineTypeOK
BY PipelineInitInv, PipelineStep, PTL DEF PipelineSpec

\* The time that process() gives to a block event (lib.rs:284-299) is less than
\* two milliseconds before the end of the block and never in the future, for
\* any number of buffers, reads and rounds that it waits and any time between
\* the two clock readings.
THEOREM StampsNearEnd == PipelineSpec => []StampNearEnd
<1>1. StampInv => StampNearEnd
  BY DEF StampInv
<1> QED BY <1>1, PipelineInitInv, PipelineStep, PTL DEF PipelineSpec
=============================================================================
