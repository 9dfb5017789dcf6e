------------------------ MODULE PipelineStackProofs ------------------------
(***************************************************************************)
(* Why the signal of the kernel3x variant is sent after add_bpf_event: the *)
(* stack it causes is never older than its block event (StampBeforeStack). *)
(***************************************************************************)
EXTENDS PipelineProofs, SequenceTheorems

\* The events of a CPU that are not queued yet, in their order.
Line(c) == Results(c) \o buffers[c]

\* No two of them are about the same block, and between the rounds all are in
\* the buffers.
LineInv ==
  /\ pc \in {"main", "jvm", "sweep"} => \A c \in Cpus : Results(c) = <<>>
  /\ \A c, d \in Cpus : \A i \in 1..Len(Line(c)), j \in 1..Len(Line(d)) :
       Line(c)[i].id = Line(d)[j].id => c = d /\ i = j

\* The ids of the signals that are pending, and perhaps 0.
Asked == {sigprof[t] : t \in Tids} \cup {killed}

\* A block whose signal failed in the probe is not signalled before its event
\* is queued, and so has no stack by then.
UnaskedInv ==
  /\ \A j \in Stacks : j.id \in 1..Len(ends)
  /\ \A c \in Cpus : \A e \in Elements(Line(c)) :
       e.id \in unsignalled =>
         e.id \notin Asked /\ \A j \in Stacks : j.id # e.id

\* StampBeforeStack, for both variants: without kernel3x there is no such stack.
StampFirst ==
  \A b \in Bpfs, j \in Stacks :
    b.id = j.id /\ b.id \in unsignalled => b.timestamp <= j.timestamp

StackInv == LineInv /\ UnaskedInv /\ StampFirst
----------------------------------------------------------------------------
(***************************************************************************)
(* How a step changes the lines                                            *)
(***************************************************************************)

LEMMA LineType ==
  ASSUME PipelineTypeOK, NEW c \in Cpus
  PROVE  /\ Results(c) \in Seq(BlockEvent) /\ buffers[c] \in Seq(BlockEvent)
         /\ Line(c) \in Seq(BlockEvent)
         /\ Elements(Line(c)) = Elements(Results(c)) \cup Elements(buffers[c])
<1>1. Results(c) \in Seq(BlockEvent) /\ buffers[c] \in Seq(BlockEvent)
  <2>1. <<>> \in Seq(BlockEvent)
    OBVIOUS
  <2> QED BY <2>1 DEF PipelineTypeOK, Results
<1>2. /\ Line(c) \in Seq(BlockEvent)
      /\ Len(Line(c)) = Len(Results(c)) + Len(buffers[c])
      /\ \A i \in 1..Len(Line(c)) :
           Line(c)[i] = IF i <= Len(Results(c)) THEN Results(c)[i]
                                                ELSE buffers[c][i - Len(Results(c))]
  BY <1>1, ConcatProperties DEF Line
<1>3. Len(Results(c)) \in Nat /\ Len(buffers[c]) \in Nat
  BY <1>1
<1>4. Elements(Line(c)) \subseteq Elements(Results(c)) \cup Elements(buffers[c])
  <2>1. SUFFICES ASSUME NEW i \in 1..Len(Line(c))
                 PROVE  Line(c)[i] \in Elements(Results(c)) \cup Elements(buffers[c])
    BY DEF Elements
  <2>2. CASE i <= Len(Results(c))
    BY <1>2, <1>3, <2>2 DEF Elements
  <2>3. CASE ~(i <= Len(Results(c)))
    <3>1. i - Len(Results(c)) \in 1..Len(buffers[c])
      BY <1>2, <1>3, <2>3
    <3> QED BY <1>2, <2>3, <3>1 DEF Elements
  <2> QED BY <2>2, <2>3
<1>5. Elements(Results(c)) \subseteq Elements(Line(c))
  <2>1. SUFFICES ASSUME NEW i \in 1..Len(Results(c))
                 PROVE  Results(c)[i] \in Elements(Line(c))
    BY DEF Elements
  <2>2. i \in 1..Len(Line(c)) /\ Line(c)[i] = Results(c)[i]
    BY <1>2, <1>3
  <2> QED BY <2>2 DEF Elements
<1>6. Elements(buffers[c]) \subseteq Elements(Line(c))
  <2>1. SUFFICES ASSUME NEW i \in 1..Len(buffers[c])
                 PROVE  buffers[c][i] \in Elements(Line(c))
    BY DEF Elements
  <2>2. /\ Len(Results(c)) + i \in 1..Len(Line(c))
        /\ Line(c)[Len(Results(c)) + i] = buffers[c][i]
    BY <1>2, <1>3
  <2> QED BY <2>2 DEF Elements
<1> QED BY <1>1, <1>2, <1>4, <1>5, <1>6

\* An event that is not queued yet is about a block that has ended.
LEMMA LineKnown ==
  ASSUME PipelineTypeOK, StampInv, NEW c \in Cpus, NEW e \in Elements(Line(c))
  PROVE  e \in Genuine /\ e.id \in 1..Len(ends)
BY LineType DEF StampInv, UnreadInv, Genuine

\* Block adds its event to a line, or drops it.
LEMMA LineOfBlock ==
  ASSUME PipelineTypeOK, NEW t \in Tids, NEW c \in Cpus, Block(t, c)
  PROVE  LET e == [id |-> Len(ends) + 1, tid |-> t, t_end |-> ktime]
         IN /\ e \in BlockEvent
            /\ \A d \in Cpus : Results(d)' = Results(d)
            /\ \A d \in Cpus \ {c} : Line(d)' = Line(d)
            /\ \/ Line(c)' = Line(c) /\ dropped' = dropped \cup {e.id}
               \/ Line(c)' = Append(Line(c), e) /\ dropped' = dropped
<1> DEFINE e == [id |-> Len(ends) + 1, tid |-> t, t_end |-> ktime]
<1>1. e \in BlockEvent
  BY DEF BlockEvent, PipelineTypeOK
<1>2. \A d \in Cpus : Results(d)' = Results(d)
  BY DEF Block, Results, readVars
<1>3. \/ buffers' = buffers /\ dropped' = dropped \cup {e.id}
      \/ buffers' = [buffers EXCEPT ![c] = Append(@, e)] /\ dropped' = dropped
  BY DEF Block
<1>4. \A d \in Cpus \ {c} : buffers'[d] = buffers[d]
  BY <1>3 DEF PipelineTypeOK
<1>5. \/ buffers'[c] = buffers[c] /\ dropped' = dropped \cup {e.id}
      \/ buffers'[c] = Append(buffers[c], e) /\ dropped' = dropped
  <2> HIDE DEF e
  <2> QED BY <1>3 DEF PipelineTypeOK
<1>6. Results(c) \o Append(buffers[c], e) = Append(Results(c) \o buffers[c], e)
  <2> HIDE DEF e
  <2> QED BY <1>1, LineType, AppendIsConcat, ConcatAssociative, ConcatProperties
<1> HIDE DEF e
<1>7. \/ Line(c)' = Line(c) /\ dropped' = dropped \cup {e.id}
      \/ Line(c)' = Append(Line(c), e) /\ dropped' = dropped
  BY <1>2, <1>5, <1>6 DEF Line
<1>8. \A d \in Cpus \ {c} : Line(d)' = Line(d)
  BY <1>2, <1>4 DEF Line
<1> QED BY <1>1, <1>2, <1>7, <1>8 DEF e

\* A read leaves every line as it is.
LEMMA LineOfReading ==
  ASSUME PipelineTypeOK, NEW c \in Cpus, Reading(c)
  PROVE  \A d \in Cpus : Line(d)' = Line(d)
<1> DEFINE q == buffers[c]
<1>1. q \in Seq(BlockEvent) /\ bpfResults[c] = NotRead /\ Results(c) = <<>>
  BY DEF Reading, ReadEvents, ReadGivesUp, Waits, Results, PipelineTypeOK
<1>2. Line(c) = q
  BY <1>1, ConcatEmptySeq DEF Line
<1>3. CASE ReadEvents(c)
  <2>1. PICK n \in 0..Len(q) : TakeEvents(c, n)
    BY <1>1, <1>3, PipelineAssumption DEF ReadEvents
  <2>2. /\ bpfResults'[c] = SubSeq(q, 1, n) /\ buffers'[c] = SubSeq(q, n + 1, Len(q))
        /\ \A d \in Cpus \ {c} : bpfResults'[d] = bpfResults[d] /\ buffers'[d] = buffers[d]
    BY <2>1 DEF TakeEvents, PipelineTypeOK
  <2>3. SubSeq(q, 1, n) \in Seq(BlockEvent)
    <3> HIDE DEF q
    <3>1. 1 \in 1..Len(q) + 1
      BY <1>1
    <3> QED BY <1>1, <3>1, SubSeqElements
  <2>4. Results(c)' = SubSeq(q, 1, n)
    BY <2>2, <2>3, NotReadAssumption DEF Results
  <2>5. SubSeq(q, 1, n) \o SubSeq(q, n + 1, Len(q)) = q
    <3>1. 1 \in 1..Len(q) + 1 /\ n \in 1 - 1..Len(q) /\ Len(q) \in n..Len(q)
      BY <1>1
    <3>2. SubSeq(q, 1, n) \o SubSeq(q, n + 1, Len(q)) = SubSeq(q, 1, Len(q))
      BY <1>1, <3>1, ConcatAdjacentSubSeq
    <3> QED BY <1>1, <3>2, SubSeqFull
  <2>6. Line(c)' = Line(c)
    BY <1>2, <2>2, <2>4, <2>5 DEF Line
  <2>7. \A d \in Cpus \ {c} : Line(d)' = Line(d)
    BY <2>2 DEF Line, Results
  <2> QED BY <2>6, <2>7
<1>4. CASE ReadGivesUp(c)
  <2>1. /\ bpfResults'[c] = <<>> /\ buffers' = buffers
        /\ \A d \in Cpus \ {c} : bpfResults'[d] = bpfResults[d]
    BY <1>4 DEF ReadGivesUp, kernelVars, PipelineTypeOK
  <2>2. Results(c)' = <<>>
    BY <2>1 DEF Results
  <2> QED BY <1>1, <2>1, <2>2 DEF Line, Results
<1> QED BY <1>3, <1>4 DEF Reading

\* add_bpf_event takes the first event of a line.
LEMMA LineOfAdd ==
  ASSUME PipelineTypeOK, NEW c \in Cpus, AddEvent(c)
  PROVE  /\ \A d \in Cpus \ {c} : Line(d)' = Line(d)
         /\ Len(Line(c)) \in Nat \ {0} /\ Line(c)[1] = Head(bpfResults[c])
         /\ Line(c)' \in Seq(BlockEvent) /\ Len(Line(c)') = Len(Line(c)) - 1
         /\ \A i \in 1..Len(Line(c)') : Line(c)'[i] = Line(c)[i + 1]
<1> DEFINE q == bpfResults[c]
<1>1. /\ q # NotRead /\ q # <<>> /\ q \in Seq(BlockEvent)
      /\ buffers[c] \in Seq(BlockEvent) /\ Results(c) = q
  BY DEF AddEvent, Adding, PipelineTypeOK, Results
<1>2. /\ bpfResults'[c] = Tail(q) /\ buffers' = buffers
      /\ \A d \in Cpus \ {c} : bpfResults'[d] = bpfResults[d]
  BY DEF AddEvent, kernelVars, PipelineTypeOK
<1>3. /\ Tail(q) \in Seq(BlockEvent) /\ Len(q) \in Nat \ {0}
      /\ Len(Tail(q)) = Len(q) - 1 /\ Head(q) = q[1]
      /\ \A i \in 1..Len(Tail(q)) : Tail(q)[i] = q[i + 1]
  <2> HIDE DEF q
  <2> QED BY <1>1, HeadTailType
<1>4. Line(c) = q \o buffers[c]
  BY <1>1 DEF Line
<1>5. Line(c)' = Tail(q) \o buffers[c]
  BY <1>2, <1>3, NotReadAssumption DEF Line, Results
<1>6. \A d \in Cpus \ {c} : Line(d)' = Line(d)
  BY <1>2 DEF Line, Results
<1> HIDE DEF q
<1>7. /\ Len(Line(c)) = Len(q) + Len(buffers[c])
      /\ \A i \in 1..Len(Line(c)) :
           Line(c)[i] = IF i <= Len(q) THEN q[i] ELSE buffers[c][i - Len(q)]
  BY <1>1, <1>4, ConcatProperties
<1>8. /\ Line(c)' \in Seq(BlockEvent)
      /\ Len(Line(c)') = Len(q) - 1 + Len(buffers[c])
      /\ \A i \in 1..Len(Line(c)') :
           Line(c)'[i] = IF i <= Len(q) - 1 THEN Tail(q)[i] ELSE buffers[c][i - (Len(q) - 1)]
  BY <1>1, <1>3, <1>5, ConcatProperties
<1>9. Len(buffers[c]) \in Nat
  BY <1>1
<1>10. Len(Line(c)) \in Nat \ {0} /\ Line(c)[1] = Head(q)
  BY <1>3, <1>7, <1>9
<1>11. ASSUME NEW i \in 1..Len(Line(c)') PROVE Line(c)'[i] = Line(c)[i + 1]
  <2>1. i + 1 \in 1..Len(Line(c))
    BY <1>3, <1>7, <1>8, <1>9
  <2>2. CASE i <= Len(q) - 1
    BY <1>3, <1>7, <1>8, <2>1, <2>2
  <2>3. CASE ~(i <= Len(q) - 1)
    <3>1. ~(i + 1 <= Len(q)) /\ i - (Len(q) - 1) = i + 1 - Len(q)
      BY <1>3, <2>3
    <3> QED BY <1>7, <1>8, <2>1, <2>3, <3>1
  <2> QED BY <2>2, <2>3
<1>12. Line(c)[1] = Head(bpfResults[c])
  BY <1>10 DEF q
<1>13. Len(Line(c)') = Len(Line(c)) - 1
  BY <1>3, <1>7, <1>8, <1>9
<1> QED BY <1>6, <1>8, <1>10, <1>11, <1>12, <1>13
----------------------------------------------------------------------------
(***************************************************************************)
(* sweep() makes no JVM event                                              *)
(***************************************************************************)

OldStacks == Queued(jvmEvents) \cup trashed \cup ({p.jvm : p \in RetPairs \cup reported} \ {NoJvm})

LEMMA QueuedPopJvm ==
  ASSUME TypeOK, InLoop, JvmQueue # <<>>, jvmEvents' = [jvmEvents EXCEPT ![cur] = Tail(@)]
  PROVE  /\ Head(JvmQueue) \in Queued(jvmEvents) /\ Head(JvmQueue) \in JvmEvent
         /\ Queued(jvmEvents)' \subseteq Queued(jvmEvents)
<1>1. /\ cur \in Tids /\ jvmEvents \in [Tids -> Seq(JvmEvent)]
      /\ JvmQueue = jvmEvents[cur] /\ JvmQueue \in Seq(JvmEvent)
  BY InLoopType DEF TypeOK, JvmQueue
<1>2. Elements(JvmQueue) = Elements(Tail(JvmQueue)) \cup {Head(JvmQueue)}
  BY <1>1, TailElements
<1>3. \A t \in Tids : Elements(jvmEvents'[t]) \subseteq Elements(jvmEvents[t])
  BY <1>1, <1>2
<1>4. Queued(jvmEvents') \subseteq Queued(jvmEvents)
  BY <1>3, QueuedIn
<1>5. Head(JvmQueue) \in Queued(jvmEvents)
  BY <1>1, <1>2, QueuedIn
<1>6. Head(JvmQueue) \in JvmEvent
  BY <1>1, HeadTailType
<1> QED BY <1>4, <1>5, <1>6 DEF Queued

LEMMA SweepKeepsStacks == TypeOK /\ Sweep => OldStacks' \subseteq OldStacks
<1> SUFFICES ASSUME TypeOK, Sweep PROVE OldStacks' \subseteq OldStacks
  OBVIOUS
<1>0. ASSUME NEW r \in Seq(Pair), NEW jvm \in OldStacks \cup {NoJvm}, jvm \in JvmEvent \cup {NoJvm},
             InLoop, PopBpfInto(r, jvm), reported' = reported, trashed' = trashed,
             Queued(jvmEvents)' \subseteq Queued(jvmEvents),
             \A i \in 1..Len(r) : r[i].jvm = NoJvm \/ \E p \in RetPairs : r[i].jvm = p.jvm
      PROVE  OldStacks' \subseteq OldStacks
  <2>1. RetPairs' = Elements(r) \cup {[bpf |-> Front, jvm |-> jvm]}
    BY <1>0, PushedPairs
  <2>2. \A p \in RetPairs' : p.jvm \in OldStacks \cup {NoJvm}
    BY <1>0, <2>1 DEF Elements, OldStacks
  <2> QED BY <1>0, <2>2 DEF OldStacks
<1>1. CASE SweepBegin \/ SweepTid \/ LeaveTid
  <2>1. /\ jvmEvents' = jvmEvents /\ reported' = reported /\ trashed' = trashed
        /\ ret' = ret \/ ret' = <<>>
    BY <1>1 DEF SweepBegin, SweepTid, LeaveTid
  <2>2. RetPairs' \subseteq RetPairs
    BY <2>1 DEF RetPairs
  <2> QED BY <2>1, <2>2 DEF OldStacks
<1>2. CASE TrashJvm
  <2>1. Head(JvmQueue) \in Queued(jvmEvents) /\ Queued(jvmEvents)' \subseteq Queued(jvmEvents)
    BY <1>2, QueuedPopJvm DEF TrashJvm
  <2>2. trashed' = trashed \cup {Head(JvmQueue)} /\ RetPairs' = RetPairs /\ reported' = reported
    BY <1>2 DEF TrashJvm, loopVars, RetPairs
  <2> QED BY <2>1, <2>2 DEF OldStacks
<1>3. CASE TakeOver
  <2>1. PICK r \in Seq(Pair) : r = [ret EXCEPT ![Len(ret)].jvm = NoJvm]
    BY <1>3, TakeOverType DEF TakeOver
  <2>2. LastPair.jvm \in JvmEvent /\ LastPair \in RetPairs /\ LastPair.jvm # NoJvm
    BY <1>3, TakeOverType DEF TakeOver, RetPairs, LastPair, CanTakeOver
  <2>3. LastPair.jvm \in OldStacks
    BY <2>2 DEF OldStacks
  <2>4. ASSUME NEW i \in 1..Len(r)
        PROVE  r[i].jvm = NoJvm \/ \E p \in RetPairs : r[i].jvm = p.jvm
    <3>1. ret \in Seq(Pair) /\ Len(r) = Len(ret) /\ ret[i] \in RetPairs /\ ret[i] \in Pair
      BY <2>1 DEF TypeOK, RetPairs
    <3>2. CASE i = Len(ret)
      BY <2>1, <3>1, <3>2 DEF Pair
    <3>3. CASE i # Len(ret)
      BY <2>1, <3>1, <3>3
    <3> QED BY <3>1, <3>2, <3>3
  <2>5. UNCHANGED <<jvmEvents, reported, trashed>> /\ InLoop /\ PopBpfInto(r, LastPair.jvm)
    BY <1>3, <2>1 DEF TakeOver
  <2>6. Queued(jvmEvents)' = Queued(jvmEvents)
    BY <2>5 DEF Queued
  <2> QED BY <1>0, <2>2, <2>3, <2>4, <2>5, <2>6
<1>4. CASE Match
  <2>1. /\ Head(JvmQueue) \in Queued(jvmEvents) /\ Head(JvmQueue) \in JvmEvent
        /\ Queued(jvmEvents)' \subseteq Queued(jvmEvents)
    BY <1>4, QueuedPopJvm DEF Match
  <2>2. Head(JvmQueue) \in OldStacks
    BY <2>1 DEF OldStacks
  <2>3. ret \in Seq(Pair) /\ \A i \in 1..Len(ret) : ret[i] \in RetPairs
    BY DEF TypeOK, RetPairs
  <2>4. UNCHANGED <<reported, trashed>> /\ InLoop /\ PopBpfInto(ret, Head(JvmQueue))
    BY <1>4 DEF Match
  <2> QED BY <1>0, <2>1, <2>2, <2>3, <2>4
<1>5. CASE ReportUnmatched
  <2>1. ret \in Seq(Pair) /\ \A i \in 1..Len(ret) : ret[i] \in RetPairs
    BY DEF TypeOK, RetPairs
  <2>2. UNCHANGED <<jvmEvents, reported, trashed>> /\ InLoop /\ PopBpfInto(ret, NoJvm)
    BY <1>5 DEF ReportUnmatched
  <2>3. Queued(jvmEvents)' = Queued(jvmEvents)
    BY <2>2 DEF Queued
  <2> QED BY <1>0, <2>1, <2>2, <2>3
<1>6. CASE SweepReturn
  BY <1>6 DEF SweepReturn, OldStacks, RetPairs, Queued
<1> QED BY <1>1, <1>2, <1>3, <1>4, <1>5, <1>6 DEF Sweep
----------------------------------------------------------------------------
(***************************************************************************)
(* StackInv is inductive                                                   *)
(***************************************************************************)

LEMMA StacksAre ==
  Stacks = OldStacks \cup Elements(file) \cup ({half} \ {NoJvm})
BY DEF Stacks, OldStacks, Elements

\* A step that leaves the lines and the signals alone and makes no event.
LEMMA StackKept ==
  ASSUME StackInv, UNCHANGED <<ends, unsignalled, signals>>,
         \A c \in Cpus : Line(c)' = Line(c),
         pc' \in {"main", "jvm", "sweep"} => \A c \in Cpus : Results(c)' = <<>>,
         Bpfs' \subseteq Bpfs, Stacks' \subseteq Stacks
  PROVE  StackInv'
<1>1. LineInv'
  BY DEF StackInv, LineInv
<1>2. UnaskedInv'
  <2>1. \A c \in Cpus : Elements(Line(c)') = Elements(Line(c))
    OBVIOUS
  <2>2. \A c \in Cpus : \A e \in Elements(Line(c)') :
          e.id \in unsignalled =>
            e.id \notin Asked /\ \A j \in Stacks' : j.id # e.id
    BY <2>1 DEF StackInv, UnaskedInv
  <2>3. Asked' = Asked
    BY DEF Asked, signals
  <2> QED BY <2>2, <2>3 DEF StackInv, UnaskedInv, Elements
<1>3. StampFirst'
  BY DEF StackInv, StampFirst
<1> QED BY <1>1, <1>2, <1>3 DEF StackInv

\* The lines, if a step leaves the buffers and the results alone.
LEMMA LineSame ==
  ASSUME UNCHANGED <<buffers, bpfResults>>
  PROVE  \A c \in Cpus : Line(c)' = Line(c) /\ Results(c)' = Results(c)
BY DEF Line, Results

LEMMA StackOfSweep ==
  ASSUME PipelineTypeOK, StampInv, StackInv, SweepSteps
  PROVE  StackInv'
<1>1. TypeOK /\ Sweep /\ pc \in {"jvm", "sweep"}
  BY DEF PipelineTypeOK, SweepSteps, Sweep, SweepBegin, SweepTid, TakeOver, TrashJvm, Match,
         ReportUnmatched, LeaveTid, SweepReturn, InLoop
<1>2. Bpfs' \subseteq Bpfs /\ OldStacks' \subseteq OldStacks
  BY <1>1, SweepKeeps, SweepKeepsStacks
<1>3. UNCHANGED <<kernelVars, readVars, signals, fileVars>>
  BY DEF SweepSteps
<1>4. Stacks' \subseteq Stacks
  <2>1. Stacks' = OldStacks' \cup Elements(file) \cup ({half} \ {NoJvm})
    BY <1>3 DEF Stacks, OldStacks, Elements, fileVars
  <2> QED BY <1>2, <2>1, StacksAre
<1>5. \A c \in Cpus : Line(c)' = Line(c) /\ Results(c)' = <<>>
  BY <1>1, <1>3, LineSame DEF StackInv, LineInv, kernelVars, readVars
<1> QED BY <1>2, <1>3, <1>4, <1>5, StackKept DEF kernelVars

\* Exits, the steps between the phases of process(), and time.
LEMMA StackOfControl ==
  ASSUME PipelineTypeOK, StampInv, StackInv,
         Exit \/ EndAdding \/ StartRound \/ OpenBuffer \/ ReadHalfLine \/ Pass
           \/ (\E c \in Cpus : ReadKtime(c)) \/ UNCHANGED pipelineVars
  PROVE  StackInv'
<1>1. UNCHANGED <<bpfEvents, jvmEvents, ret, reported, trashed, kernelVars, signals, file, half>>
  BY DEF Exit, EndAdding, StartRound, OpenBuffer, ReadHalfLine, Pass, ReadKtime, pipelineVars,
         Quit, EndBpf, BeginProcess, matching, vars, loopVars, fileVars
<1>2. Bpfs' = Bpfs /\ Stacks' = Stacks
  BY <1>1, BpfsSame DEF Stacks, Queued, RetPairs
<1>3. CASE StartRound
  <2>1. pc' = "bpf" /\ pc = "main" /\ buffers' = buffers
    BY <1>1, <1>3 DEF StartRound, BeginProcess, kernelVars
  <2>2. \A c \in Cpus : Results(c)' = <<>> /\ Results(c) = <<>>
    BY <1>3, <2>1 DEF StartRound, Results, StackInv, LineInv
  <2>3. \A c \in Cpus : Line(c)' = Line(c)
    BY <2>1, <2>2 DEF Line
  <2> QED BY <1>1, <1>2, <2>1, <2>3, StackKept DEF kernelVars
<1>4. CASE ~StartRound
  <2>1. UNCHANGED <<buffers, bpfResults>>
    BY <1>1, <1>4
    DEF Exit, EndAdding, OpenBuffer, ReadHalfLine, Pass, ReadKtime, pipelineVars, kernelVars, readVars
  <2>2. \A c \in Cpus : Line(c)' = Line(c) /\ Results(c)' = Results(c)
    BY <2>1, LineSame
  <2>3. \/ pc' = pc \/ pc' = "exited"
        \/ \A c \in Cpus : bpfResults[c] = <<>>
    BY <1>4 DEF Exit, EndAdding, OpenBuffer, ReadHalfLine, Pass, ReadKtime, pipelineVars,
                Quit, EndBpf, matching, vars
  <2>4. pc' \in {"main", "jvm", "sweep"} => \A c \in Cpus : Results(c) = <<>>
    BY <2>3 DEF Results, StackInv, LineInv
  <2> QED BY <1>1, <1>2, <2>2, <2>4, StackKept DEF kernelVars
<1> QED BY <1>3, <1>4

LEMMA StackOfReading ==
  ASSUME PipelineTypeOK, StackInv, NEW c \in Cpus, Reading(c)
  PROVE  StackInv'
<1>1. /\ UNCHANGED <<vars, kernel3x, ktime, ranAt, ends, dropped, unsignalled, opened, nowKtime, signals, fileVars, noStack>>
      /\ pc = "bpf"
  BY DEF Reading, ReadEvents, ReadGivesUp, kernelVars, Waits
<1>2. Bpfs' = Bpfs /\ Stacks' = Stacks /\ pc' = "bpf"
  BY <1>1, BpfsSame DEF Stacks, Queued, RetPairs, vars, loopVars, fileVars
<1> QED BY <1>1, <1>2, LineOfReading, StackKept

\* The reading and the writing of a line move a stack.
LEMMA StackOfLines ==
  ASSUME PipelineTypeOK, StackInv, ReadLine \/ WriteLine
  PROVE  StackInv'
<1>1. UNCHANGED <<kernelVars, readVars, signals, bpfEvents, ret, reported, trashed, pc>>
  BY DEF ReadLine, WriteLine, FillQueue, vars, loopVars
<1>2. Bpfs' = Bpfs /\ RetPairs' = RetPairs
  BY <1>1, BpfsSame DEF RetPairs
<1>3. \A c \in Cpus : Line(c)' = Line(c) /\ Results(c)' = Results(c)
  BY <1>1, LineSame DEF kernelVars, readVars
<1>4. CASE ReadLine
  <2>1. file # <<>> /\ file \in Seq(JvmEvent) /\ half' = half
    BY <1>4 DEF ReadLine, PipelineTypeOK
  <2>2. PICK j \in JvmEvent : j = Head(file) /\ file' = Tail(file)
    BY <1>4, <2>1, HeadTailType DEF ReadLine
  <2>3. Elements(file) = Elements(file') \cup {j}
    BY <2>1, <2>2, TailElements
  <2>4. j.tid \in Tids /\ jvmEvents' = [jvmEvents EXCEPT ![j.tid] = Append(@, j)]
    BY <1>4, <2>2 DEF ReadLine, FillQueue, JvmEvent
  <2>5. jvmEvents \in [Tids -> Seq(JvmEvent)]
    BY DEF PipelineTypeOK, TypeOK
  <2>6. \A t \in Tids : Elements(jvmEvents'[t]) \subseteq Elements(jvmEvents[t]) \cup {j}
    BY <2>2, <2>4, <2>5, AppendElements
  <2>7. Queued(jvmEvents') \subseteq Queued(jvmEvents) \cup {j}
    BY <2>6, QueuedIn
  <2>8. OldStacks' \subseteq OldStacks \cup {j}
    BY <1>1, <1>2, <2>7 DEF OldStacks, Queued
  <2>9. Stacks' = OldStacks' \cup Elements(file') \cup ({half} \ {NoJvm})
    BY <2>1 DEF Stacks, OldStacks, Elements
  <2>10. Stacks' \subseteq Stacks
    BY <2>3, <2>8, <2>9, StacksAre
  <2> QED BY <1>1, <1>2, <1>3, <2>10, StackKept DEF kernelVars, StackInv, LineInv
<1>5. CASE WriteLine
  <2>1. half \in JvmEvent /\ half # NoJvm /\ half' = NoJvm /\ file \in Seq(JvmEvent)
    BY <1>5 DEF WriteLine, PipelineTypeOK
  <2>2. file' = file \/ file' = Append(file, half)
    BY <1>5 DEF WriteLine
  <2>3. Elements(file') \subseteq Elements(file) \cup {half}
    BY <2>1, <2>2, AppendElements
  <2>4. OldStacks' = OldStacks
    BY <1>1, <1>2, <1>5 DEF WriteLine, OldStacks, Queued, vars
  <2>5. Stacks' = OldStacks' \cup Elements(file')
    BY <2>1 DEF Stacks, OldStacks, Elements
  <2>6. Stacks' \subseteq Stacks
    BY <2>1, <2>3, <2>4, <2>5, StacksAre
  <2> QED BY <1>1, <1>2, <1>3, <2>6, StackKept DEF kernelVars, StackInv, LineInv
<1> QED BY <1>4, <1>5

\* The handler makes a stack, now: no block event has a later time.
LEMMA StackOfTakeSignal ==
  ASSUME PipelineTypeOK, StampInv, StackInv, NEW t \in Tids, TakeSignal(t)
  PROVE  StackInv'
<1>0. PICK n \in {sigprof[t], killed} \ {0} :
        Takes(t, n) /\ half' = [id |-> n, tid |-> t, timestamp |-> now]
  BY DEF TakeSignal
<1> DEFINE h == [id |-> n, tid |-> t, timestamp |-> now]
<1>1. /\ UNCHANGED <<bpfEvents, jvmEvents, ret, reported, trashed, pc, buffers, bpfResults,
                     ends, unsignalled, file>>
      /\ half = NoJvm /\ half' = h
  BY <1>0 DEF TakeSignal, vars, loopVars, readVars
<1>2. n \in Asked /\ n \in 1..Len(ends) /\ Asked' \subseteq Asked \cup {0}
  <2>1. sigprof \in [Tids -> 0..Len(ends)] /\ killed \in 0..Len(ends)
    BY DEF PipelineTypeOK
  <2>2. n \in Asked /\ n \in 1..Len(ends)
    BY <1>0, <2>1 DEF Asked
  <2> QED BY <1>0, <2>1, <2>2 DEF Asked, Takes
<1>3. Bpfs' = Bpfs /\ \A c \in Cpus : Line(c)' = Line(c) /\ Results(c)' = Results(c)
  BY <1>1, BpfsSame, LineSame
<1>4. Stacks' \subseteq Stacks \cup {h}
  <2>1. OldStacks' = OldStacks
    BY <1>1 DEF OldStacks, Queued, RetPairs
  <2>2. Stacks' = OldStacks' \cup Elements(file) \cup ({h} \ {NoJvm})
    BY <1>1 DEF Stacks, OldStacks, Elements
  <2> QED BY <2>1, <2>2, StacksAre
<1>5. h.id = n /\ h.timestamp = now
  OBVIOUS
<1> HIDE DEF h
<1>6. LineInv'
  BY <1>1, <1>3 DEF StackInv, LineInv
<1>7. UnaskedInv'
  <2>1. \A j \in Stacks' : j.id \in 1..Len(ends)
    BY <1>2, <1>4, <1>5 DEF StackInv, UnaskedInv
  <2>2. ASSUME NEW c \in Cpus, NEW e \in Elements(Line(c)), e.id \in unsignalled
        PROVE  e.id \notin Asked' /\ \A j \in Stacks' : j.id # e.id
    <3>1. e.id \notin Asked /\ \A j \in Stacks : j.id # e.id
      BY <2>2 DEF StackInv, UnaskedInv
    <3>2. e.id # 0
      BY <2>2 DEF PipelineTypeOK
    <3> QED BY <1>2, <1>4, <1>5, <3>1, <3>2
  <2>3. \A c \in Cpus : Elements(Line(c)') = Elements(Line(c))
    BY <1>3
  <2> QED BY <1>1, <2>1, <2>2, <2>3 DEF UnaskedInv, Elements
<1>8. StampFirst'
  BY <1>1, <1>3, <1>4, <1>5 DEF StackInv, StampFirst, StampInv, StampNearEnd
<1> QED BY <1>6, <1>7, <1>8 DEF StackInv

\* A block that ends is later than all that have events, signals and stacks.
LEMMA StackOfBlock ==
  ASSUME PipelineTypeOK, StampInv, StackInv, NEW t \in Tids, NEW c \in Cpus, Block(t, c)
  PROVE  StackInv'
<1> DEFINE n == Len(ends) + 1
           e == [id |-> n, tid |-> t, t_end |-> ktime]
<1>1. /\ UNCHANGED <<bpfEvents, jvmEvents, ret, reported, trashed, pc, file, half>>
      /\ ends' = Append(ends, ktime)
  BY DEF Block, vars, loopVars, fileVars
<1>2. ends \in Seq(0..ktime) /\ ktime \in Nat /\ Len(ends) \in Nat /\ Len(ends') = n
      /\ Asked \subseteq 0..Len(ends) /\ unsignalled \subseteq 1..Len(ends)
  BY <1>1 DEF PipelineTypeOK, Asked
<1>3. Bpfs' = Bpfs /\ Stacks' = Stacks
  BY <1>1, BpfsSame DEF Stacks, Queued, RetPairs
<1>4. /\ e \in BlockEvent /\ e.id = n
      /\ \A d \in Cpus : Results(d)' = Results(d)
      /\ \A d \in Cpus \ {c} : Line(d)' = Line(d)
      /\ Line(c)' = Line(c) \/ Line(c)' = Append(Line(c), e)
  BY LineOfBlock
<1>5. \/ Asked' \subseteq Asked \cup {n} /\ unsignalled' = unsignalled
      \/ Asked' = Asked /\ unsignalled' = unsignalled \cup {n}
  <2>1. killed' = killed /\ sigprof \in [Tids -> 0..Len(ends)]
    BY DEF Block, PipelineTypeOK
  <2>2. CASE Signal(t, n) /\ UNCHANGED unsignalled
    BY <2>1, <2>2 DEF Signal, Asked
  <2>3. CASE unsignalled' = unsignalled \cup {n} /\ UNCHANGED <<sigprof, noStack>>
    BY <2>1, <2>3 DEF Asked
  <2> QED BY <2>2, <2>3 DEF Block
<1> HIDE DEF n, e
<1>6. \A d \in Cpus : Line(d) \in Seq(BlockEvent)
  BY LineType
<1>7. \A d \in Cpus : \A i \in 1..Len(Line(d)) : Line(d)[i].id \in 1..Len(ends)
  BY LineKnown DEF Elements
<1>8. n = Len(ends) + 1
  BY DEF n
<1>9. LineInv'
  <2>1. \A d \in Cpus : /\ Len(Line(d)) \in Nat
                        /\ \/ Line(d)' = Line(d)
                           \/ d = c /\ Len(Line(d)') = Len(Line(d)) + 1
                              /\ \A i \in 1..Len(Line(d)') :
                                   Line(d)'[i] = IF i <= Len(Line(d)) THEN Line(d)[i] ELSE e
    <3>1. ASSUME NEW d \in Cpus, Line(d)' = Append(Line(d), e), d = c
          PROVE  /\ Len(Line(d)') = Len(Line(d)) + 1
                 /\ \A i \in 1..Len(Line(d)') :
                      Line(d)'[i] = IF i <= Len(Line(d)) THEN Line(d)[i] ELSE e
      BY <1>4, <1>6, <3>1
    <3> QED BY <1>4, <1>6, <3>1
  <2>2. ASSUME NEW d \in Cpus, NEW i \in 1..Len(Line(d)')
        PROVE  \/ i \in 1..Len(Line(d)) /\ Line(d)'[i] = Line(d)[i]
               \/ d = c /\ i = Len(Line(d)) + 1 /\ Line(d)'[i].id = n
    BY <1>4, <2>1
  <2>3. ASSUME NEW d \in Cpus, NEW f \in Cpus,
               NEW i \in 1..Len(Line(d)'), NEW j \in 1..Len(Line(f)'),
               Line(d)'[i].id = Line(f)'[j].id
        PROVE  d = f /\ i = j
    <3>1. CASE i \in 1..Len(Line(d)) /\ Line(d)'[i] = Line(d)[i]
      <4>1. CASE j \in 1..Len(Line(f)) /\ Line(f)'[j] = Line(f)[j]
        BY <2>3, <3>1, <4>1 DEF StackInv, LineInv
      <4>2. CASE f = c /\ j = Len(Line(f)) + 1 /\ Line(f)'[j].id = n
        BY <1>2, <1>7, <1>8, <2>3, <3>1, <4>2
      <4> QED BY <2>2, <4>1, <4>2
    <3>2. CASE d = c /\ i = Len(Line(d)) + 1 /\ Line(d)'[i].id = n
      <4>1. CASE j \in 1..Len(Line(f)) /\ Line(f)'[j] = Line(f)[j]
        BY <1>2, <1>7, <1>8, <2>3, <3>2, <4>1
      <4>2. CASE f = c /\ j = Len(Line(f)) + 1 /\ Line(f)'[j].id = n
        BY <3>2, <4>2
      <4> QED BY <2>2, <4>1, <4>2
    <3> QED BY <2>2, <3>1, <3>2
  <2>4. pc' \in {"main", "jvm", "sweep"} => \A d \in Cpus : Results(d)' = <<>>
    BY <1>1, <1>4 DEF StackInv, LineInv
  <2> QED BY <2>3, <2>4 DEF LineInv
<1>10. UnaskedInv'
  <2>1. \A d \in Cpus : Elements(Line(d)') \subseteq Elements(Line(d)) \cup {e}
    BY <1>4, <1>6, AppendElements
  <2>2. \A j \in Stacks : j.id \in 1..Len(ends) /\ j.id \in 1..Len(ends')
    BY <1>2, <1>8 DEF StackInv, UnaskedInv
  <2>3. ASSUME NEW d \in Cpus, NEW f \in Elements(Line(d)), f.id \in unsignalled'
        PROVE  f.id \notin Asked' /\ \A j \in Stacks : j.id # f.id
    <3>1. f.id \in 1..Len(ends) /\ f.id # n
      BY <1>2, <1>8, LineKnown
    <3>2. f.id \in unsignalled
      BY <1>5, <2>3, <3>1
    <3>3. f.id \notin Asked /\ \A j \in Stacks : j.id # f.id
      BY <3>2 DEF StackInv, UnaskedInv
    <3> QED BY <1>2, <1>5, <3>1, <3>3
  <2>4. ASSUME e.id \in unsignalled'
        PROVE  e.id \notin Asked' /\ \A j \in Stacks : j.id # e.id
    <3>1. n \notin unsignalled /\ n \notin Asked /\ \A j \in Stacks : j.id # n
      BY <1>2, <1>8, <2>2
    <3> QED BY <1>4, <1>5, <2>4, <3>1
  <2>5. \A d \in Cpus : \A f \in Elements(Line(d)') :
          f.id \in unsignalled' =>
            f.id \notin Asked' /\ \A j \in Stacks : j.id # f.id
    BY <2>1, <2>3, <2>4
  <2> QED BY <1>3, <2>2, <2>5 DEF UnaskedInv, Elements
<1>11. StampFirst'
  <2>1. \A b \in Bpfs : b.id # n
    BY <1>2, <1>8 DEF StampInv, KnownInv
  <2> QED BY <1>3, <1>5, <2>1 DEF StackInv, StampFirst
<1> QED BY <1>9, <1>10, <1>11 DEF StackInv

\* What add_bpf_event queues is a block event.
LEMMA AddedType ==
  ASSUME PipelineTypeOK, StampInv, NEW c \in Cpus, AddEvent(c)
  PROVE  LET e == Head(bpfResults[c])
         IN e \in BlockEvent /\ [id |-> e.id, tid |-> e.tid, timestamp |-> Stamp(e)] \in BpfEvent
<1> DEFINE e == Head(bpfResults[c])
<1>1. nowKtime # NotStamped /\ bpfResults[c] # NotRead /\ bpfResults[c] # <<>>
      /\ bpfResults[c] \in Seq(BlockEvent)
  BY DEF AddEvent, Adding, PipelineTypeOK
<1>2. e \in Elements(bpfResults[c]) /\ e \in BlockEvent
  BY <1>1, TailElements, HeadTailType
<1>3. e \in Genuine /\ e.t_end <= nowKtime
  BY <1>1, <1>2 DEF StampInv, UnreadInv, ReadingInv, Results
<1> HIDE DEF e
<1>4. Stamp(e) \in Nat
  BY <1>1, <1>3, StampBounds
<1>5. [id |-> e.id, tid |-> e.tid, timestamp |-> Stamp(e)] \in BpfEvent
  BY <1>2, <1>4 DEF BpfEvent, BlockEvent
<1> QED BY <1>2, <1>5 DEF e

\* An event is queued, and then its signal is sent: a block that the probe did
\* not signal has no stack yet, and no other event is about it.
LEMMA StackOfAdd ==
  ASSUME PipelineTypeOK, StampInv, StackInv, NEW c \in Cpus, AddEvent(c)
  PROVE  StackInv'
<1> DEFINE e == Head(bpfResults[c])
           b == [id |-> e.id, tid |-> e.tid, timestamp |-> Stamp(e)]
           q == Line(c)
<1>1. /\ AddBpfEvent(b) /\ pc = "bpf" /\ b.id = e.id
      /\ UNCHANGED <<kernelVars, fileVars>>
      /\ Asked' \subseteq Asked \cup {e.id}
  BY DEF AddEvent, Adding, Kill, Asked
<1>2. /\ \A d \in Cpus \ {c} : Line(d)' = Line(d)
      /\ Len(q) \in Nat \ {0} /\ q[1] = e
      /\ q' \in Seq(BlockEvent) /\ Len(q') = Len(q) - 1
      /\ \A i \in 1..Len(q') : q'[i] = q[i + 1]
  BY LineOfAdd
<1>3. q \in Seq(BlockEvent) /\ e \in BlockEvent
  <2>1. 1 \in 1..Len(q)
    BY <1>2
  <2> QED BY <1>2, <2>1, LineType
<1>4. /\ ends' = ends /\ unsignalled' = unsignalled
      /\ UNCHANGED <<now, pc, jvmEvents, loopVars, reported, trashed, file, half>>
  BY <1>1 DEF AddBpfEvent, kernelVars, fileVars, PipelineTypeOK
<1>5. Stacks' = Stacks
  BY <1>4 DEF Stacks, Queued, RetPairs, loopVars
<1>6. Bpfs' \subseteq Bpfs \cup {b}
  <2>1. bpfEvents' = [bpfEvents EXCEPT ![e.tid] = Append(@, b)]
    BY <1>1 DEF AddBpfEvent
  <2>2. e.tid \in Tids /\ bpfEvents \in [Tids -> Seq(BpfEvent)] /\ b \in BpfEvent
    BY <1>3, AddedType DEF BlockEvent, PipelineTypeOK, TypeOK
  <2>3. \A t \in Tids : Elements(bpfEvents'[t]) \subseteq Elements(bpfEvents[t]) \cup {b}
    <3> HIDE DEF b, e
    <3> QED BY <2>1, <2>2, AppendElements
  <2>4. Queued(bpfEvents)' \subseteq Queued(bpfEvents) \cup {b}
    <3> HIDE DEF b
    <3>1. Queued(bpfEvents') \subseteq Queued(bpfEvents) \cup {b}
      BY <2>3, QueuedIn
    <3> QED BY <3>1 DEF Queued
  <2>5. RetPairs' = RetPairs /\ reported' = reported
    BY <1>4 DEF RetPairs, loopVars
  <2> QED BY <2>4, <2>5 DEF Bpfs
<1> HIDE DEF b, e
<1>7. ASSUME NEW d \in Cpus, NEW i \in 1..Len(Line(d)')
      PROVE  \E k \in 1..Len(Line(d)) :
               /\ Line(d)'[i] = Line(d)[k]
               /\ k = IF d = c THEN i + 1 ELSE i
  <2>1. CASE d = c
    <3>1. i \in 1..Len(q') /\ i + 1 \in 1..Len(q) /\ q'[i] = q[i + 1]
      BY <1>2, <2>1
    <3> QED BY <2>1, <3>1
  <2>2. CASE d # c
    BY <1>2, <2>2
  <2> QED BY <2>1, <2>2
<1>8. LineInv'
  <2>1. ASSUME NEW d \in Cpus, NEW f \in Cpus,
               NEW i \in 1..Len(Line(d)'), NEW j \in 1..Len(Line(f)'),
               Line(d)'[i].id = Line(f)'[j].id
        PROVE  d = f /\ i = j
    <3>1. PICK k \in 1..Len(Line(d)) : Line(d)'[i] = Line(d)[k] /\ k = IF d = c THEN i + 1 ELSE i
      BY <1>7
    <3>2. PICK m \in 1..Len(Line(f)) : Line(f)'[j] = Line(f)[m] /\ m = IF f = c THEN j + 1 ELSE j
      BY <1>7
    <3>3. d = f /\ k = m
      BY <2>1, <3>1, <3>2 DEF StackInv, LineInv
    <3>4. i \in Int /\ j \in Int
      OBVIOUS
    <3> QED BY <3>1, <3>2, <3>3, <3>4
  <2> QED BY <1>1, <1>4, <2>1 DEF LineInv
<1>9. UnaskedInv'
  <2>1. ASSUME NEW d \in Cpus, NEW f \in Elements(Line(d)'), f.id \in unsignalled
        PROVE  f.id \notin Asked' /\ \A j \in Stacks : j.id # f.id
    <3>1. PICK i \in 1..Len(Line(d)') : f = Line(d)'[i]
      BY DEF Elements
    <3>2. PICK k \in 1..Len(Line(d)) : f = Line(d)[k] /\ k = IF d = c THEN i + 1 ELSE i
      BY <1>7, <3>1
    <3>3. f \in Elements(Line(d))
      BY <3>2 DEF Elements
    <3>4. f.id \notin Asked /\ \A j \in Stacks : j.id # f.id
      BY <2>1, <3>3 DEF StackInv, UnaskedInv
    <3>5. f.id # e.id
      <4>1. 1 \in 1..Len(Line(c)) /\ e = Line(c)[1] /\ ~(d = c /\ k = 1)
        BY <1>2, <3>2
      <4> QED BY <3>2, <4>1 DEF StackInv, LineInv
    <3> QED BY <1>1, <1>4, <3>4, <3>5
  <2>2. \A j \in Stacks : j.id \in 1..Len(ends)
    BY DEF StackInv, UnaskedInv
  <2> QED BY <1>4, <1>5, <2>1, <2>2 DEF UnaskedInv, Elements
<1>10. StampFirst'
  <2>1. e \in Elements(Line(c))
    BY <1>2 DEF Elements
  <2>2. e.id \in unsignalled => \A j \in Stacks : j.id # e.id
    BY <2>1 DEF StackInv, UnaskedInv
  <2> QED BY <1>1, <1>4, <1>5, <1>6, <2>2 DEF StackInv, StampFirst
<1> QED BY <1>8, <1>9, <1>10 DEF StackInv
----------------------------------------------------------------------------
(***************************************************************************)
(* The theorem                                                             *)
(***************************************************************************)

LEMMA StackInit == PipelineInit => StackInv
<1> SUFFICES ASSUME PipelineInit PROVE StackInv
  OBVIOUS
<1>1. /\ Init /\ buffers = [c \in Cpus |-> <<>>] /\ bpfResults = [c \in Cpus |-> NotRead]
      /\ file = <<>> /\ half = NoJvm
  BY DEF PipelineInit
<1>2. Elements(<<>>) = {}
  BY DEF Elements
<1>3. \A c \in Cpus : Results(c) = <<>> /\ Line(c) = <<>>
  <2>1. \A c \in Cpus : Results(c) = <<>> /\ buffers[c] = <<>>
    BY <1>1 DEF Results
  <2> QED BY <2>1, ConcatEmptySeq DEF Line
<1>4. OldStacks = {}
  BY <1>1 DEF OldStacks, Queued, RetPairs, Init
<1>5. Stacks = {}
  BY <1>1, <1>2, <1>4, StacksAre
<1>6. LineInv /\ UnaskedInv /\ StampFirst
  BY <1>2, <1>3, <1>5 DEF LineInv, UnaskedInv, StampFirst
<1> QED BY <1>6 DEF StackInv

LEMMA StackStep ==
  PipelineTypeOK /\ StampInv /\ StackInv /\ [PipelineNext]_pipelineVars => StackInv'
<1> SUFFICES ASSUME PipelineTypeOK, StampInv, StackInv, [PipelineNext]_pipelineVars
             PROVE  StackInv'
  OBVIOUS
<1>1. CASE Environment
  BY <1>1, StackOfBlock, StackOfTakeSignal, StackOfLines, StackOfControl DEF Environment
<1>2. CASE Process
  <2>1. CASE OpenBuffer \/ StartRound \/ EndAdding \/ ReadHalfLine
    BY <2>1, StackOfControl
  <2>2. ASSUME NEW c \in Cpus, Reading(c) \/ ReadKtime(c) \/ AddEvent(c) PROVE StackInv'
    BY <2>2, StackOfReading, StackOfControl, StackOfAdd
  <2>3. CASE ReadLine
    BY <2>3, StackOfLines
  <2>4. CASE SweepSteps
    BY <2>4, StackOfSweep
  <2> QED BY <1>2, <2>1, <2>2, <2>3, <2>4 DEF Process
<1>3. CASE Exit \/ UNCHANGED pipelineVars
  BY <1>3, StackOfControl
<1> QED BY <1>1, <1>2, <1>3 DEF PipelineNext

\* "This calling order is important because event matching relies on timestamp
\* order before/after" (lib.rs:148): since the signal of the kernel3x variant is
\* sent after add_bpf_event has read the clocks, the block event is never later
\* than the stack the signal causes, for any interleaving of the reads, the
\* signals and the two clocks.
THEOREM StampsBeforeStacks == PipelineSpec => []StampBeforeStack
<1>1. StackInv => StampBeforeStack
  BY DEF StackInv, StampFirst, StampBeforeStack
<1> QED BY <1>1, PipelineInitInv, PipelineStep, StackInit, StackStep, PTL DEF PipelineSpec
=============================================================================
