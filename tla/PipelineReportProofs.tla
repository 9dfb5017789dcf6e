------------------------ MODULE PipelineReportProofs ------------------------
(***************************************************************************)
(* No block gets lost between the kernel and the report, and none is taken *)
(* twice (BlockInOnePlace); none gets a stack that is older than it, but   *)
(* for the precision of the clocks (StackAfterBlock), nor that of a later  *)
(* block of its thread while its own is to come (OwnStack).  All three for *)
(* both variants, any MinBlock and any number of buffers, reads, rounds.   *)
(***************************************************************************)
EXTENDS PipelineStackProofs, MatchingProofs, FiniteSetTheorems

\* The blocks whose events are not queued yet, and those whose events are.
LineIds == UNION {{e.id : e \in Elements(Line(c))} : c \in Cpus}
QueuedIds == {b.id : b \in Bpfs}

\* Every block that has ended is in a line, queued or dropped, and is one of
\* them only; LineInv and BpfApart say that it is there once.
PlacesInv ==
  /\ BpfApart
  /\ LineIds \cup QueuedIds \cup dropped = 1..Len(ends)
  /\ LineIds \cap QueuedIds = {}
  /\ (LineIds \cup QueuedIds) \cap dropped = {}
----------------------------------------------------------------------------
(***************************************************************************)
(* PlacesInv is inductive                                                  *)
(***************************************************************************)

LEMMA LineIdsIs ==
  ASSUME NEW n
  PROVE  n \in LineIds <=> \E c \in Cpus : \E i \in 1..Len(Line(c)) : Line(c)[i].id = n
BY DEF LineIds, Elements

LEMMA LineIdsSame ==
  ASSUME \A c \in Cpus : Line(c)' = Line(c)
  PROVE  LineIds' = LineIds
BY DEF LineIds, Elements

\* A step that takes no event from a line and does not touch the queues.
LEMMA PlacesKept ==
  ASSUME PlacesInv, UNCHANGED <<bpfEvents, ret, reported, ends, dropped>>,
         \A c \in Cpus : Line(c)' = Line(c)
  PROVE  PlacesInv'
<1>1. LineIds' = LineIds
  BY LineIdsSame
<1>2. BpfApart' = BpfApart /\ Bpfs' = Bpfs
  BY DEF BpfApart, Apart, Bpfs, Queued, RetPairs
<1> QED BY <1>1, <1>2 DEF PlacesInv, QueuedIds

LEMMA PlacesOfBlock ==
  ASSUME PipelineTypeOK, PlacesInv, NEW t \in Tids, NEW c \in Cpus, Block(t, c)
  PROVE  PlacesInv'
<1> DEFINE e == [id |-> Len(ends) + 1, tid |-> t, t_end |-> ktime]
<1>1. /\ e \in BlockEvent /\ e.id = Len(ends) + 1
      /\ \A d \in Cpus \ {c} : Line(d)' = Line(d)
      /\ \/ Line(c)' = Line(c) /\ dropped' = dropped \cup {e.id}
         \/ Line(c)' = Append(Line(c), e) /\ dropped' = dropped
  BY LineOfBlock
<1> HIDE DEF e
<1>2. Len(ends') = Len(ends) + 1 /\ Len(ends) \in Nat
  BY DEF Block, PipelineTypeOK
<1>3. BpfApart' = BpfApart /\ Bpfs' = Bpfs
  BY DEF Block, vars, BpfApart, Apart, Bpfs, Queued, RetPairs, loopVars
<1>4. CASE Line(c)' = Line(c) /\ dropped' = dropped \cup {e.id}
  <2>1. LineIds' = LineIds
    BY <1>1, <1>4, LineIdsSame
  <2>2. 1..Len(ends') = 1..Len(ends) \cup {e.id} /\ e.id \notin 1..Len(ends)
    BY <1>1, <1>2
  <2>3. QueuedIds' = QueuedIds
    BY <1>3 DEF QueuedIds
  <2> QED BY <1>3, <1>4, <2>1, <2>2, <2>3 DEF PlacesInv
<1>5. CASE Line(c)' = Append(Line(c), e) /\ dropped' = dropped
  <2>1. Elements(Line(c)') = Elements(Line(c)) \cup {e}
    BY <1>1, <1>5, LineType, AppendElements
  <2>2. \A d \in Cpus \ {c} : Elements(Line(d)') = Elements(Line(d))
    BY <1>1
  <2>3. LineIds' = UNION {{f.id : f \in Elements(Line(d)')} : d \in Cpus}
    BY DEF LineIds, Elements
  <2>4. LineIds' = LineIds \cup {e.id}
    BY <2>1, <2>2, <2>3 DEF LineIds
  <2> QED BY <1>1, <1>2, <1>3, <1>5, <2>4 DEF PlacesInv, QueuedIds
<1> QED BY <1>1, <1>4, <1>5

LEMMA PlacesOfAdd ==
  ASSUME PipelineTypeOK, StampInv, StackInv, PlacesInv, NEW c \in Cpus, AddEvent(c)
  PROVE  PlacesInv'
<1>1. PICK e : e = Head(bpfResults[c])
  OBVIOUS
<1>2. PICK b : b = [id |-> e.id, tid |-> e.tid, timestamp |-> Stamp(e)]
  OBVIOUS
<1>3. b \in BpfEvent /\ AddBpfEvent(b) /\ b.id = e.id /\ UNCHANGED <<ends, dropped>>
  BY <1>1, <1>2, AddedType DEF AddEvent, kernelVars
<1>4. /\ \A d \in Cpus \ {c} : Line(d)' = Line(d)
      /\ Len(Line(c)) \in Nat \ {0} /\ Line(c)[1] = e
      /\ Len(Line(c)') = Len(Line(c)) - 1
      /\ \A i \in 1..Len(Line(c)') : Line(c)'[i] = Line(c)[i + 1]
  BY <1>1, LineOfAdd
<1>5. e.id \in LineIds
  <2>1. 1 \in 1..Len(Line(c))
    BY <1>4
  <2> QED BY <1>4, <2>1, LineIdsIs
<1>6. LineIds' = LineIds \ {e.id}
  <2>1. ASSUME NEW n
        PROVE  n \in LineIds' <=> \E d \in Cpus : \E i \in 1..Len(Line(d)') : Line(d)'[i].id = n
    BY DEF LineIds, Elements
  <2>2. ASSUME NEW n \in LineIds' PROVE n \in LineIds \ {e.id}
    <3>1. PICK d \in Cpus : \E i \in 1..Len(Line(d)') : Line(d)'[i].id = n
      BY <2>1
    <3>2. PICK i \in 1..Len(Line(d)') : Line(d)'[i].id = n
      BY <3>1
    <3>3. PICK k \in 1..Len(Line(d)) : Line(d)[k].id = n /\ (d = c => k # 1)
      <4>1. CASE d = c
        <5>1. i + 1 \in 1..Len(Line(c)) /\ Line(c)[i + 1].id = n /\ i + 1 # 1
          BY <1>4, <3>2, <4>1
        <5> QED BY <4>1, <5>1
      <4>2. CASE d # c
        BY <1>4, <3>2, <4>2
      <4> QED BY <4>1, <4>2
    <3>4. 1 \in 1..Len(Line(c))
      BY <1>4
    <3>5. n # e.id
      BY <1>4, <3>3, <3>4 DEF StackInv, LineInv
    <3> QED BY <3>3, <3>5, LineIdsIs
  <2>3. ASSUME NEW n \in LineIds \ {e.id} PROVE n \in LineIds'
    <3>1. PICK d \in Cpus : \E k \in 1..Len(Line(d)) : Line(d)[k].id = n
      BY LineIdsIs
    <3>2. PICK k \in 1..Len(Line(d)) : Line(d)[k].id = n
      BY <3>1
    <3>3. CASE d = c
      <4>1. k # 1
        BY <1>4, <3>2, <3>3
      <4>2. k - 1 \in 1..Len(Line(c)') /\ Line(c)'[k - 1] = Line(c)[k]
        BY <1>4, <3>3, <4>1
      <4> QED BY <2>1, <3>2, <3>3, <4>2
    <3>4. CASE d # c
      BY <1>4, <2>1, <3>2, <3>4
    <3> QED BY <3>3, <3>4
  <2> QED BY <2>2, <2>3
<1>7. BpfApart' /\ Bpfs' = Bpfs \cup {b}
  <2>1. \A f \in Bpfs : f.id # b.id
    BY <1>3, <1>5 DEF PlacesInv, QueuedIds
  <2> QED BY <1>3, <2>1, AddApart DEF PlacesInv, PipelineTypeOK
<1>8. QueuedIds' = QueuedIds \cup {e.id}
  BY <1>3, <1>7 DEF QueuedIds
<1> QED BY <1>3, <1>5, <1>6, <1>7, <1>8 DEF PlacesInv

LEMMA PlacesStep ==
  PipelineTypeOK /\ StampInv /\ StackInv /\ PlacesInv /\ [PipelineNext]_pipelineVars
  => PlacesInv'
<1> SUFFICES ASSUME PipelineTypeOK, StampInv, StackInv, PlacesInv,
                    [PipelineNext]_pipelineVars
             PROVE  PlacesInv'
  OBVIOUS
<1>1. CASE \E t \in Tids, c \in Cpus : Block(t, c)
  BY <1>1, PlacesOfBlock
<1>2. CASE \E c \in Cpus : AddEvent(c)
  BY <1>2, PlacesOfAdd
<1>3. CASE SweepSteps
  <2>1. BpfApart' /\ Bpfs' = Bpfs
    BY <1>3, SweepApart DEF SweepSteps, PipelineTypeOK, PlacesInv
  <2>2. UNCHANGED <<ends, dropped, buffers, bpfResults>>
    BY <1>3 DEF SweepSteps, kernelVars, readVars
  <2>3. LineIds' = LineIds
    BY <2>2, LineSame, LineIdsSame
  <2> QED BY <2>1, <2>2, <2>3 DEF PlacesInv, QueuedIds
<1>4. CASE \E c \in Cpus : Reading(c)
  <2>1. PICK c \in Cpus : Reading(c)
    BY <1>4
  <2>2. UNCHANGED <<bpfEvents, ret, reported, ends, dropped>>
    BY <2>1 DEF Reading, ReadEvents, ReadGivesUp, kernelVars, vars, loopVars
  <2> QED BY <2>1, <2>2, LineOfReading, PlacesKept
<1>5. CASE StartRound
  <2>1. /\ UNCHANGED <<bpfEvents, ret, reported, ends, dropped, buffers>> /\ pc = "main"
        /\ bpfResults' = [c \in Cpus |-> NotRead]
    BY <1>5 DEF StartRound, BeginProcess, loopVars, kernelVars
  <2>2. \A c \in Cpus : Results(c)' = <<>> /\ Results(c) = <<>>
    BY <2>1 DEF Results, StackInv, LineInv
  <2>3. \A c \in Cpus : Line(c)' = Line(c)
    BY <2>1, <2>2 DEF Line
  <2> QED BY <2>1, <2>3, PlacesKept
<1>6. CASE \/ \E t \in Tids : TakeSignal(t)
           \/ WriteLine \/ Pass \/ OpenBuffer \/ EndAdding \/ ReadLine \/ ReadHalfLine
           \/ (\E c \in Cpus : ReadKtime(c)) \/ Exit \/ UNCHANGED pipelineVars
  <2>1. UNCHANGED <<bpfEvents, ret, reported, ends, dropped, buffers, bpfResults>>
    BY <1>6
    DEF TakeSignal, WriteLine, Pass, OpenBuffer, EndAdding, ReadLine, ReadHalfLine, ReadKtime,
        Exit, pipelineVars, FillQueue, EndBpf, Quit, matching, vars, loopVars, kernelVars,
        readVars
  <2> QED BY <2>1, LineSame, PlacesKept
<1> QED
  BY <1>1, <1>2, <1>3, <1>4, <1>5, <1>6 DEF PipelineNext, Environment, Process

LEMMA PlacesInit == PipelineInit => PlacesInv
<1> SUFFICES ASSUME PipelineInit PROVE PlacesInv
  OBVIOUS
<1>1. /\ Init /\ buffers = [c \in Cpus |-> <<>>] /\ bpfResults = [c \in Cpus |-> NotRead]
      /\ ends = <<>> /\ dropped = {}
  BY DEF PipelineInit
<1>2. \A c \in Cpus : Line(c) = <<>>
  <2>1. \A c \in Cpus : Results(c) = <<>> /\ buffers[c] = <<>>
    BY <1>1 DEF Results
  <2> QED BY <2>1, ConcatEmptySeq DEF Line
<1>3. LineIds = {}
  BY <1>2, LineIdsIs
<1>4. BpfApart /\ QueuedIds = {}
  <2>1. BpfApart /\ BpfIds
    BY <1>1, BpfOnceInit
  <2>2. nBpf = 0
    BY <1>1 DEF Init
  <2>3. QueuedIds = 1..0
    BY <2>1, <2>2 DEF BpfIds, QueuedIds
  <2> QED BY <2>1, <2>3
<1> QED BY <1>1, <1>3, <1>4 DEF PlacesInv
----------------------------------------------------------------------------
(***************************************************************************)
(* What PlacesInv says of the places of a block                            *)
(***************************************************************************)

\* The places of a block, by kind.
BufferPlace(n, x) == \E c \in Cpus : \E i \in 1..Len(buffers[c]) :
                       buffers[c][i].id = n /\ x = <<"buffer", c, i>>
ReadPlace(n, x) == \E c \in Cpus : \E i \in 1..Len(Results(c)) :
                     Results(c)[i].id = n /\ x = <<"read", c, i>>
QueuePlace(n, x) == \E t \in Tids : \E i \in 1..Len(bpfEvents[t]) :
                      bpfEvents[t][i].id = n /\ x = <<"queue", t, i>>
RetPlace(n, x) == \E i \in 1..Len(ret) : ret[i].bpf.id = n /\ x = <<"ret", i>>
ReportPlace(n, x) == \E p \in reported : p.bpf.id = n /\ x = <<"reported", p>>
DroppedPlace(n, x) == n \in dropped /\ x = <<"dropped">>

LEMMA PlaceKinds ==
  ASSUME NEW n, NEW x
  PROVE  x \in Places(n) <=> \/ BufferPlace(n, x) \/ ReadPlace(n, x) \/ QueuePlace(n, x)
                             \/ RetPlace(n, x) \/ ReportPlace(n, x) \/ DroppedPlace(n, x)
BY DEF Places, At, BufferPlace, ReadPlace, QueuePlace, RetPlace, ReportPlace, DroppedPlace

\* What was read comes first in a line, and then the buffer.
LEMMA LineAt ==
  ASSUME PipelineTypeOK, NEW c \in Cpus
  PROVE  /\ Len(Results(c)) \in Nat /\ Len(buffers[c]) \in Nat
         /\ Len(Line(c)) = Len(Results(c)) + Len(buffers[c])
         /\ \A i \in 1..Len(Results(c)) : Line(c)[i] = Results(c)[i]
         /\ \A i \in 1..Len(buffers[c]) : Line(c)[Len(Results(c)) + i] = buffers[c][i]
<1>1. Results(c) \in Seq(BlockEvent) /\ buffers[c] \in Seq(BlockEvent)
  BY LineType
<1>2. /\ Len(Line(c)) = Len(Results(c)) + Len(buffers[c])
      /\ \A i \in 1..Len(Line(c)) :
           Line(c)[i] = IF i <= Len(Results(c)) THEN Results(c)[i]
                                                ELSE buffers[c][i - Len(Results(c))]
  BY <1>1, ConcatProperties DEF Line
<1>3. Len(Results(c)) \in Nat /\ Len(buffers[c]) \in Nat
  BY <1>1
<1>4. \A i \in 1..Len(Results(c)) : i \in 1..Len(Line(c)) /\ i <= Len(Results(c))
  BY <1>2, <1>3
<1>5. \A i \in 1..Len(buffers[c]) :
        /\ Len(Results(c)) + i \in 1..Len(Line(c))
        /\ ~(Len(Results(c)) + i <= Len(Results(c)))
        /\ Len(Results(c)) + i - Len(Results(c)) = i
  BY <1>2, <1>3
<1> QED BY <1>2, <1>3, <1>4, <1>5

\* A place in a buffer or in what was read is a place in a line, and the
\* other way round.
LEMMA PlaceInLine ==
  ASSUME PipelineTypeOK, NEW n
  PROVE  /\ n \in LineIds => \E x : BufferPlace(n, x) \/ ReadPlace(n, x)
         /\ \A x : BufferPlace(n, x) \/ ReadPlace(n, x) => n \in LineIds
         /\ LineInv =>
              \A x, y : /\ BufferPlace(n, x) \/ ReadPlace(n, x)
                        /\ BufferPlace(n, y) \/ ReadPlace(n, y)
                        => x = y
<1> DEFINE From(x, c, k) ==
      /\ k \in 1..Len(Line(c)) /\ Line(c)[k].id = n
      /\ \/ k <= Len(Results(c)) /\ x = <<"read", c, k>>
         \/ k > Len(Results(c)) /\ x = <<"buffer", c, k - Len(Results(c))>>
<1>1. ASSUME NEW x, BufferPlace(n, x) PROVE \E c \in Cpus : \E k \in Nat : From(x, c, k)
  <2>1. PICK c \in Cpus : \E i \in 1..Len(buffers[c]) :
               buffers[c][i].id = n /\ x = <<"buffer", c, i>>
    BY <1>1 DEF BufferPlace
  <2>2. PICK i \in 1..Len(buffers[c]) : buffers[c][i].id = n /\ x = <<"buffer", c, i>>
    BY <2>1
  <2>3. /\ Len(Results(c)) \in Nat /\ Len(Results(c)) + i \in 1..Len(Line(c))
        /\ Len(Results(c)) + i > Len(Results(c)) /\ Len(Results(c)) + i - Len(Results(c)) = i
        /\ Line(c)[Len(Results(c)) + i] = buffers[c][i] /\ Len(Results(c)) + i \in Nat
    BY <2>2, LineAt
  <2> QED BY <2>2, <2>3
<1>2. ASSUME NEW x, ReadPlace(n, x) PROVE \E c \in Cpus : \E k \in Nat : From(x, c, k)
  <2>1. PICK c \in Cpus : \E i \in 1..Len(Results(c)) :
               Results(c)[i].id = n /\ x = <<"read", c, i>>
    BY <1>2 DEF ReadPlace
  <2>2. PICK i \in 1..Len(Results(c)) : Results(c)[i].id = n /\ x = <<"read", c, i>>
    BY <2>1
  <2>3. i \in Nat /\ i \in 1..Len(Line(c)) /\ Line(c)[i] = Results(c)[i] /\ i <= Len(Results(c))
    BY <2>2, LineAt
  <2> QED BY <2>2, <2>3
<1>3. ASSUME NEW x, BufferPlace(n, x) \/ ReadPlace(n, x) PROVE n \in LineIds
  BY <1>1, <1>2, <1>3, LineIdsIs
<1>4. ASSUME LineInv, NEW x, NEW y,
             BufferPlace(n, x) \/ ReadPlace(n, x), BufferPlace(n, y) \/ ReadPlace(n, y)
      PROVE  x = y
  <2>1. PICK c \in Cpus, k \in Nat : From(x, c, k)
    BY <1>1, <1>2, <1>4
  <2>2. PICK d \in Cpus, m \in Nat : From(y, d, m)
    BY <1>1, <1>2, <1>4
  <2>3. c = d /\ k = m
    BY <1>4, <2>1, <2>2 DEF LineInv
  <2>4. Len(Results(c)) \in Nat
    BY LineAt
  <2> QED BY <2>1, <2>2, <2>3, <2>4
<1>5. ASSUME n \in LineIds PROVE \E x : BufferPlace(n, x) \/ ReadPlace(n, x)
  <2>1. PICK c \in Cpus : \E i \in 1..Len(Line(c)) : Line(c)[i].id = n
    BY <1>5, LineIdsIs
  <2>2. PICK i \in 1..Len(Line(c)) : Line(c)[i].id = n
    BY <2>1
  <2>3. CASE i <= Len(Results(c))
    <3>1. i \in 1..Len(Results(c)) /\ Results(c)[i].id = n
      BY <2>2, <2>3, LineAt
    <3> QED BY <3>1 DEF ReadPlace
  <2>4. CASE ~(i <= Len(Results(c)))
    <3>1. PICK k : k = i - Len(Results(c))
      OBVIOUS
    <3>2. k \in 1..Len(buffers[c]) /\ Len(Results(c)) + k = i
      BY <2>2, <2>4, <3>1, LineAt
    <3>3. buffers[c][k].id = n
      BY <2>2, <3>2, LineAt
    <3> QED BY <3>2, <3>3 DEF BufferPlace
  <2> QED BY <2>3, <2>4
<1> HIDE DEF From
<1> QED BY <1>3, <1>4, <1>5

\* Likewise for the queues, the result of the sweep and the reports.
LEMMA PlaceInQueues ==
  ASSUME NEW n
  PROVE  LET Here(x) == QueuePlace(n, x) \/ RetPlace(n, x) \/ ReportPlace(n, x)
         IN /\ n \in QueuedIds => \E x : Here(x)
            /\ \A x : Here(x) => n \in QueuedIds
            /\ BpfApart => \A x, y : Here(x) /\ Here(y) => x = y
<1>1. ASSUME NEW x, QueuePlace(n, x) PROVE \E b \in Queued(bpfEvents) : b.id = n
  <2>1. PICK t \in Tids : \E i \in 1..Len(bpfEvents[t]) : bpfEvents[t][i].id = n
    BY <1>1 DEF QueuePlace
  <2>2. \E b \in Elements(bpfEvents[t]) : b.id = n
    BY <2>1 DEF Elements
  <2> QED BY <2>2, QueuedIn
<1>2. ASSUME NEW x, RetPlace(n, x) PROVE \E p \in RetPairs : p.bpf.id = n
  BY <1>2 DEF RetPlace, RetPairs
<1>3. ASSUME NEW x, ReportPlace(n, x) PROVE \E p \in reported : p.bpf.id = n
  BY <1>3 DEF ReportPlace
<1>4. \A x : QueuePlace(n, x) \/ RetPlace(n, x) \/ ReportPlace(n, x) => n \in QueuedIds
  BY <1>1, <1>2, <1>3 DEF QueuedIds, Bpfs
<1>5. ASSUME n \in QueuedIds
      PROVE  \E x : QueuePlace(n, x) \/ RetPlace(n, x) \/ ReportPlace(n, x)
  <2>1. PICK b \in Bpfs : b.id = n
    BY <1>5 DEF QueuedIds
  <2>2. CASE b \in Queued(bpfEvents)
    <3>1. PICK t \in Tids : b \in Elements(bpfEvents[t])
      BY <2>2, QueuedIn
    <3>2. PICK i \in 1..Len(bpfEvents[t]) : b = bpfEvents[t][i]
      BY <3>1 DEF Elements
    <3> QED BY <2>1, <3>2 DEF QueuePlace
  <2>3. CASE \E p \in RetPairs : b = p.bpf
    BY <2>1, <2>3 DEF RetPairs, RetPlace
  <2>4. CASE \E p \in reported : b = p.bpf
    BY <2>1, <2>4 DEF ReportPlace
  <2> QED BY <2>1, <2>2, <2>3, <2>4 DEF Bpfs
<1>6. ASSUME BpfApart, NEW x, NEW y PROVE
        /\ QueuePlace(n, x) /\ QueuePlace(n, y) => x = y
        /\ RetPlace(n, x) /\ RetPlace(n, y) => x = y
        /\ ReportPlace(n, x) /\ ReportPlace(n, y) => x = y
        /\ ~(QueuePlace(n, x) /\ (RetPlace(n, y) \/ ReportPlace(n, y)))
        /\ ~(RetPlace(n, x) /\ ReportPlace(n, y))
  <2>1. QueuePlace(n, x) /\ QueuePlace(n, y) => x = y
    BY <1>6 DEF QueuePlace, BpfApart, Apart
  <2>2. RetPlace(n, x) /\ RetPlace(n, y) => x = y
    BY <1>6 DEF RetPlace, BpfApart
  <2>3. ReportPlace(n, x) /\ ReportPlace(n, y) => x = y
    BY <1>6 DEF ReportPlace, BpfApart
  <2>4. ~(QueuePlace(n, x) /\ (RetPlace(n, y) \/ ReportPlace(n, y)))
    BY <1>1, <1>2, <1>3, <1>6 DEF BpfApart
  <2>5. ~(RetPlace(n, x) /\ ReportPlace(n, y))
    BY <1>2, <1>3, <1>6 DEF BpfApart
  <2> QED BY <2>1, <2>2, <2>3, <2>4, <2>5
<1> QED BY <1>4, <1>5, <1>6

LEMMA PlacesOne ==
  PipelineTypeOK /\ StackInv /\ PlacesInv => BlockInOnePlace
<1> SUFFICES ASSUME PipelineTypeOK, LineInv, PlacesInv, NEW n \in 1..Len(ends)
             PROVE  Cardinality(Places(n)) = 1
  BY DEF StackInv, BlockInOnePlace
<1> DEFINE InLine(x) == BufferPlace(n, x) \/ ReadPlace(n, x)
           InQueues(x) == QueuePlace(n, x) \/ RetPlace(n, x) \/ ReportPlace(n, x)
<1>1. \A x : x \in Places(n) <=> InLine(x) \/ InQueues(x) \/ DroppedPlace(n, x)
  BY PlaceKinds
<1>2. /\ n \in LineIds => \E x : InLine(x)
      /\ \A x : InLine(x) => n \in LineIds
      /\ \A x, y : InLine(x) /\ InLine(y) => x = y
  BY PlaceInLine
<1>3. /\ n \in QueuedIds => \E x : InQueues(x)
      /\ \A x : InQueues(x) => n \in QueuedIds
      /\ \A x, y : InQueues(x) /\ InQueues(y) => x = y
  BY PlaceInQueues DEF PlacesInv
<1>4. /\ n \in dropped => \E x : DroppedPlace(n, x)
      /\ \A x : DroppedPlace(n, x) => n \in dropped
      /\ \A x, y : DroppedPlace(n, x) /\ DroppedPlace(n, y) => x = y
  BY DEF DroppedPlace
<1> HIDE DEF InLine, InQueues
<1>5. /\ n \in LineIds \/ n \in QueuedIds \/ n \in dropped
      /\ ~(n \in LineIds /\ n \in QueuedIds)
      /\ ~(n \in LineIds /\ n \in dropped) /\ ~(n \in QueuedIds /\ n \in dropped)
  BY DEF PlacesInv
<1>6. PICK x : x \in Places(n)
  BY <1>1, <1>2, <1>3, <1>4, <1>5
<1>7. \A y \in Places(n) : y = x
  BY <1>1, <1>2, <1>3, <1>4, <1>5, <1>6
<1>8. Places(n) = {x}
  BY <1>6, <1>7
<1> QED BY <1>8, FS_Singleton
----------------------------------------------------------------------------
\* A block that has ended is at every moment in one place: dropped for want of
\* room, in a perf buffer, read in the round, queued, in the result of the
\* sweep or reported.  So none is lost and none taken twice, however the reads
\* are cut off and whatever is left in the buffers when a round ends.
THEOREM BlocksInOnePlace == PipelineSpec => []BlockInOnePlace
BY PlacesOne, PipelineInitInv, PipelineStep, StackInit, StackStep, PlacesInit, PlacesStep, PTL
DEF PipelineSpec
----------------------------------------------------------------------------
(***************************************************************************)
(* The stack of a block is not older than the block                        *)
(***************************************************************************)

\* A block is reported with no stack that was taken before its end, but for
\* the precision of the clocks, which is less than two milliseconds: whatever
\* became of its own stack, whichever thread the stack is of, and however often
\* it was taken over.
StackAfterBlock ==
  \A p \in reported : p.jvm # NoJvm => Wall(ends[p.bpf.id]) - 1 <= p.jvm.timestamp

\* The pairs of sweep are within the window, here as in EventStream.
LEMMA PairStep ==
  PipelineTypeOK /\ PairInWindow /\ [PipelineNext]_pipelineVars => PairInWindow'
<1> SUFFICES ASSUME PipelineTypeOK, PairInWindow, [PipelineNext]_pipelineVars
             PROVE  PairInWindow'
  OBVIOUS
<1>1. ASSUME UNCHANGED <<ret, reported>> PROVE PairInWindow'
  BY <1>1 DEF PairInWindow, RetPairs, InWindow
<1>2. CASE SweepSteps
  <2>1. TypeOK /\ [Next]_vars
    BY <1>2 DEF PipelineTypeOK, SweepSteps, Next
  <2> QED BY <2>1, WindowStep
<1>3. CASE Environment
  <2>1. UNCHANGED <<ret, reported>>
    BY <1>3 DEF Environment, Block, TakeSignal, WriteLine, Pass, vars, matching, loopVars
  <2> QED BY <1>1, <2>1
<1>4. CASE Process /\ ~SweepSteps
  <2>1. UNCHANGED <<ret, reported>>
    BY <1>4
    DEF Process, OpenBuffer, StartRound, BeginProcess, Reading, ReadEvents, ReadGivesUp,
        ReadKtime, AddEvent, AddBpfEvent, EndAdding, EndBpf, ReadLine, FillQueue, ReadHalfLine,
        vars, loopVars
  <2> QED BY <1>1, <2>1
<1>5. CASE Exit \/ UNCHANGED pipelineVars
  <2>1. UNCHANGED <<ret, reported>>
    BY <1>5 DEF Exit, Quit, pipelineVars, vars, loopVars
  <2> QED BY <1>1, <2>1
<1> QED BY <1>2, <1>3, <1>4, <1>5 DEF PipelineNext

LEMMA StackAfterMeans ==
  ASSUME PipelineTypeOK, StampInv, PairInWindow
  PROVE  StackAfterBlock
<1> SUFFICES ASSUME NEW p \in reported, p.jvm # NoJvm
             PROVE  Wall(ends[p.bpf.id]) - 1 <= p.jvm.timestamp
  BY DEF StackAfterBlock
<1>1. p \in Pair /\ p.bpf \in Bpfs
  BY DEF PipelineTypeOK, TypeOK, Bpfs
<1>2. p.bpf.timestamp \in Nat /\ p.jvm.timestamp \in Nat /\ p.bpf.id \in 1..Len(ends)
  BY <1>1 DEF Pair, BpfEvent, JvmEvent, StampInv, KnownInv
<1>3. ends[p.bpf.id] \in Nat
  BY <1>2 DEF PipelineTypeOK
<1>4. Wall(ends[p.bpf.id]) \in Nat
  BY <1>3, WallBounds
<1>5. Wall(ends[p.bpf.id]) - 1 <= p.bpf.timestamp
  BY <1>1 DEF StampInv, StampNearEnd
<1>6. p.bpf.timestamp <= p.jvm.timestamp
  BY DEF PairInWindow, InWindow
<1> QED BY <1>2, <1>4, <1>5, <1>6

\* Whatever the delays, the time-outs, the lost signals and the take-overs are,
\* a block is never reported with a stack that is older than its end, but for
\* less than the two milliseconds that compute_timestamp may be off
\* (lib.rs:284-299, 316-327, 347-386).
THEOREM StacksAfterBlocks == PipelineSpec => []StackAfterBlock
<1> DEFINE Inv == PipelineTypeOK /\ StampInv /\ PairInWindow
<1>1. PipelineInit => Inv
  BY PipelineInitInv DEF PipelineInit, Init, PairInWindow, RetPairs
<1>2. Inv /\ [PipelineNext]_pipelineVars => Inv'
  BY PipelineStep, PairStep
<1>3. Inv => StackAfterBlock
  BY StackAfterMeans
<1> QED BY <1>1, <1>2, <1>3, PTL DEF PipelineSpec
----------------------------------------------------------------------------
(***************************************************************************)
(* No block gets the stack of a later one while its own is to come         *)
(***************************************************************************)

\* The block events that there are, before and after they are queued.
BlockEvents == (UNION {Elements(Line(c)) : c \in Cpus}) \cup Bpfs

\* The JVM events that were thrown away or put into a pair.
UsedStacks == trashed \cup InRet \cup InReports

OwnJvmQueues == \A t \in Tids : \A j \in Elements(jvmEvents[t]) : j.tid = t

\* The stack of block n of thread t is at place i of a queue, at place i of the
\* file, being written or still to be taken; and none of a later block of the
\* thread is ahead of it.
NoneLater(J, n, t) == \A j \in J : j.tid = t => j.id <= n
Ahead(s, i) == {s[k] : k \in 1..(i - 1)}
IsQueued(n, t, i) ==
  /\ i \in 1..Len(jvmEvents[t]) /\ jvmEvents[t][i].id = n
  /\ NoneLater(UsedStacks \cup Ahead(jvmEvents[t], i), n, t)
IsInFile(n, t, i) ==
  /\ i \in 1..Len(file) /\ file[i].id = n /\ file[i].tid = t
  /\ NoneLater(OldStacks \cup Ahead(file, i), n, t)
IsWritten(n, t) ==
  /\ half # NoJvm /\ half.id = n /\ half.tid = t
  /\ NoneLater(OldStacks \cup Elements(file), n, t)
IsPending(n, t) == sigprof[t] = n /\ NoneLater(Stacks, n, t)

\* Or else it is lost, or has been used.
IsGone(n) == n \in noStack \cup unsignalled \/ \E j \in UsedStacks : j.id = n

OnItsWay(n, t) ==
  \/ IsGone(n) \/ IsPending(n, t) \/ IsWritten(n, t)
  \/ (\E i \in Nat : IsInFile(n, t, i)) \/ (\E i \in Nat : IsQueued(n, t, i))

OwnInv == OwnJvmQueues /\ \A e \in BlockEvents : OnItsWay(e.id, e.tid)

LEMMA UsedAre ==
  /\ OldStacks = Queued(jvmEvents) \cup UsedStacks
  /\ OldStacks' = Queued(jvmEvents') \cup UsedStacks'
BY DEF OldStacks, UsedStacks, InRet, InReports, Queued

LEMMA StacksParts ==
  /\ Stacks = Queued(jvmEvents) \cup UsedStacks \cup Elements(file) \cup ({half} \ {NoJvm})
  /\ Stacks' = Queued(jvmEvents') \cup UsedStacks' \cup Elements(file') \cup ({half'} \ {NoJvm})
BY DEF Stacks, UsedStacks, InRet, InReports, Queued, Elements

\* A step of sweep leaves the JVM events where they are, or uses up the front
\* of a queue.
LEMMA SweepUses ==
  ASSUME TypeOK, Sweep
  PROVE  \/ jvmEvents' = jvmEvents /\ UsedStacks' = UsedStacks
         \/ \E t \in Tids : /\ jvmEvents[t] # <<>> /\ jvmEvents' = Popped(jvmEvents, t)
                            /\ UsedStacks' = UsedStacks \cup {Head(jvmEvents[t])}
<1>1. CASE SweepBegin \/ SweepTid \/ LeaveTid
  <2>1. UNCHANGED <<jvmEvents, ret, reported, trashed>>
    BY <1>1 DEF SweepBegin, SweepTid, LeaveTid, TypeOK
  <2> QED BY <2>1 DEF UsedStacks, InRet, InReports, RetPairs
<1>2. CASE TrashJvm
  <2>1. /\ cur \in Tids /\ jvmEvents[cur] # <<>> /\ jvmEvents' = Popped(jvmEvents, cur)
        /\ trashed' = trashed \cup {Head(jvmEvents[cur])} /\ UNCHANGED <<ret, reported>>
    BY <1>2, InLoopType DEF TrashJvm, Popped, JvmQueue, loopVars
  <2>2. UsedStacks' = UsedStacks \cup {Head(jvmEvents[cur])}
    BY <2>1 DEF UsedStacks, InRet, InReports, RetPairs
  <2> QED BY <2>1, <2>2
<1>3. CASE TakeOver
  <2>1. UNCHANGED <<jvmEvents, reported, trashed>> /\ InRet' = InRet
    BY <1>3, TakeOverMoves DEF TakeOver
  <2> QED BY <2>1 DEF UsedStacks, InReports
<1>4. CASE Match
  <2>1. /\ InLoop /\ cur \in Tids /\ jvmEvents[cur] # <<>> /\ jvmEvents' = Popped(jvmEvents, cur)
        /\ UNCHANGED <<reported, trashed>> /\ PopBpfInto(ret, Head(jvmEvents[cur]))
    BY <1>4, InLoopType DEF Match, Popped, JvmQueue
  <2>2. PICK j : j = Head(jvmEvents[cur])
    OBVIOUS
  <2>3. j \in JvmEvent /\ j # NoJvm
    BY <2>1, <2>2, InLoopType, HeadTailType, NoJvmAssumption
  <2>4. InRet' = InRet \cup {j}
    BY <2>1, <2>2, <2>3, PushPair
  <2>5. UsedStacks' = UsedStacks \cup {j}
    BY <2>1, <2>4 DEF UsedStacks, InReports
  <2> QED BY <2>1, <2>2, <2>5
<1>5. CASE ReportUnmatched
  <2>1. UNCHANGED <<jvmEvents, reported, trashed>> /\ InLoop /\ PopBpfInto(ret, NoJvm)
    BY <1>5 DEF ReportUnmatched
  <2>2. InRet' = InRet
    BY <2>1, PushPair
  <2> QED BY <2>1, <2>2 DEF UsedStacks, InReports
<1>6. CASE SweepReturn
  <2>1. /\ jvmEvents' = jvmEvents /\ trashed' = trashed
        /\ RetPairs' = {} /\ reported' = reported \cup RetPairs
    BY <1>6 DEF SweepReturn, RetPairs
  <2> QED BY <2>1 DEF UsedStacks, InRet, InReports
<1> QED BY <1>1, <1>2, <1>3, <1>4, <1>5, <1>6 DEF Sweep

LEMMA StacksTyped == PipelineTypeOK => \A j \in Stacks : j \in JvmEvent
<1> SUFFICES ASSUME PipelineTypeOK PROVE \A j \in Stacks : j \in JvmEvent
  OBVIOUS
<1>1. \A t \in Tids : Elements(jvmEvents[t]) \subseteq JvmEvent
  BY DEF PipelineTypeOK, TypeOK, Elements
<1>2. Queued(jvmEvents) \subseteq JvmEvent
  BY <1>1, QueuedIn
<1>3. RetPairs \subseteq Pair /\ reported \subseteq Pair /\ trashed \subseteq JvmEvent
  BY DEF PipelineTypeOK, TypeOK, RetPairs
<1>4. InRet \subseteq JvmEvent /\ InReports \subseteq JvmEvent
  BY <1>3 DEF InRet, InReports, Pair
<1>5. Elements(file) \subseteq JvmEvent /\ {half} \ {NoJvm} \subseteq JvmEvent
  BY DEF PipelineTypeOK, Elements
<1> QED BY <1>2, <1>3, <1>4, <1>5, StacksParts DEF UsedStacks

LEMMA EventsTyped ==
  PipelineTypeOK /\ StampInv
  => \A e \in BlockEvents : e.tid \in Tids /\ e.id \in 1..Len(ends)
<1> SUFFICES ASSUME PipelineTypeOK, StampInv, NEW e \in BlockEvents
             PROVE  e.tid \in Tids /\ e.id \in 1..Len(ends)
  OBVIOUS
<1>1. CASE e \in Bpfs
  BY <1>1, BpfsTyped DEF PipelineTypeOK, StampInv, KnownInv, BpfEvent
<1>2. CASE \E c \in Cpus : e \in Elements(Line(c))
  <2>1. PICK c \in Cpus : e \in Elements(Line(c))
    BY <1>2
  <2>2. e \in BlockEvent
    BY <2>1, LineType DEF Elements
  <2> QED BY <2>1, <2>2, LineKnown DEF BlockEvent
<1> QED BY <1>1, <1>2 DEF BlockEvents

\* No step but the end of a block makes a block event: the others at most move
\* it on, with its id and its thread.
LEMMA EventsKept ==
  ASSUME PipelineTypeOK, StampInv, StackInv, [PipelineNext]_pipelineVars,
         ~ \E t \in Tids, c \in Cpus : Block(t, c)
  PROVE  \A e \in BlockEvents' : \E f \in BlockEvents : f.id = e.id /\ f.tid = e.tid
<1>1. BlockEvents' = (UNION {Elements(Line(c)') : c \in Cpus}) \cup Bpfs'
  BY DEF BlockEvents, Elements
<1>2. ASSUME NEW c \in Cpus, AddEvent(c)
      PROVE  \A e \in BlockEvents' : \E f \in BlockEvents : f.id = e.id /\ f.tid = e.tid
  <2>1. PICK e : e = Head(bpfResults[c])
    OBVIOUS
  <2>2. PICK b : b = [id |-> e.id, tid |-> e.tid, timestamp |-> Stamp(e)]
    OBVIOUS
  <2>3. b \in BpfEvent /\ AddBpfEvent(b) /\ b.id = e.id /\ b.tid = e.tid
    BY <1>2, <2>1, <2>2, AddedType DEF AddEvent
  <2>4. /\ \A d \in Cpus \ {c} : Line(d)' = Line(d)
        /\ Len(Line(c)) \in Nat \ {0} /\ Line(c)[1] = e
        /\ Len(Line(c)') = Len(Line(c)) - 1
        /\ \A i \in 1..Len(Line(c)') : Line(c)'[i] = Line(c)[i + 1]
    BY <1>2, <2>1, LineOfAdd
  <2>5. Elements(Line(c)') \subseteq Elements(Line(c)) /\ e \in Elements(Line(c))
    <3>1. 1 \in 1..Len(Line(c)) /\ \A i \in 1..Len(Line(c)') : i + 1 \in 1..Len(Line(c))
      BY <2>4
    <3> QED BY <2>4, <3>1 DEF Elements
  <2>6. Bpfs' \subseteq Bpfs \cup {b}
    <3>1. Queued(bpfEvents)' \subseteq Queued(bpfEvents) \cup {b}
      BY <2>3, QueuedAppend DEF PipelineTypeOK
    <3>2. UNCHANGED <<ret, reported>>
      BY <2>3 DEF AddBpfEvent, loopVars
    <3> QED BY <3>1, <3>2 DEF Bpfs, RetPairs
  <2>7. \A d \in Cpus : Elements(Line(d)') \subseteq Elements(Line(d))
    BY <2>4, <2>5
  <2>8. BlockEvents' \subseteq BlockEvents \cup {b} /\ e \in BlockEvents
    BY <1>1, <2>5, <2>6, <2>7 DEF BlockEvents
  <2> QED BY <2>3, <2>8
<1>3. ASSUME \A c \in Cpus : Line(c)' = Line(c), UNCHANGED <<bpfEvents, ret, reported>>
      PROVE  \A e \in BlockEvents' : \E f \in BlockEvents : f.id = e.id /\ f.tid = e.tid
  BY <1>1, <1>3, BpfsSame DEF BlockEvents
<1>4. CASE \E c \in Cpus : Reading(c)
  <2>1. PICK c \in Cpus : Reading(c)
    BY <1>4
  <2>2. UNCHANGED <<bpfEvents, ret, reported>>
    BY <2>1 DEF Reading, ReadEvents, ReadGivesUp, kernelVars, vars, loopVars
  <2> QED BY <1>3, <2>1, <2>2, LineOfReading
<1>5. CASE StartRound
  <2>1. /\ UNCHANGED <<bpfEvents, ret, reported, buffers>> /\ pc = "main"
        /\ bpfResults' = [c \in Cpus |-> NotRead]
    BY <1>5 DEF StartRound, BeginProcess, loopVars, kernelVars
  <2>2. \A c \in Cpus : Results(c)' = <<>> /\ Results(c) = <<>>
    BY <2>1 DEF Results, StackInv, LineInv
  <2>3. \A c \in Cpus : Line(c)' = Line(c)
    BY <2>1, <2>2 DEF Line
  <2> QED BY <1>3, <2>1, <2>3
<1>6. CASE \/ Exit \/ EndAdding \/ OpenBuffer \/ ReadHalfLine \/ ReadLine \/ Pass
           \/ (\E t \in Tids : TakeSignal(t)) \/ WriteLine
           \/ (\E c \in Cpus : ReadKtime(c)) \/ UNCHANGED pipelineVars
  <2>1. UNCHANGED <<bpfEvents, ret, reported, buffers, bpfResults>>
    BY <1>6
    DEF Exit, EndAdding, OpenBuffer, ReadHalfLine, ReadLine, FillQueue, TakeSignal, WriteLine,
        Pass, ReadKtime, pipelineVars, Quit, EndBpf, matching, vars, loopVars, kernelVars,
        readVars
  <2> QED BY <1>3, <2>1, LineSame
<1>7. CASE SweepSteps
  <2>1. Bpfs' \subseteq Bpfs
    BY <1>7, SweepKeeps DEF SweepSteps, PipelineTypeOK
  <2>2. \A c \in Cpus : Line(c)' = Line(c)
    BY <1>7, LineSame DEF SweepSteps, kernelVars, readVars
  <2>3. BlockEvents' \subseteq BlockEvents
    BY <1>1, <2>1, <2>2 DEF BlockEvents
  <2> QED BY <2>3
<1> QED
  BY <1>2, <1>4, <1>5, <1>6, <1>7 DEF PipelineNext, Environment, Process

\* A step that moves no stack.
LEMMA WayKept ==
  ASSUME NEW n, NEW t \in Tids, OnItsWay(n, t),
         UNCHANGED <<jvmEvents, file, half, sigprof>>, UsedStacks' = UsedStacks,
         noStack \subseteq noStack', unsignalled \subseteq unsignalled'
  PROVE  OnItsWay(n, t)'
<1>1. Stacks' = Stacks /\ OldStacks' = OldStacks
  BY StacksParts, UsedAre
<1>2. IsGone(n) => IsGone(n)'
  BY DEF IsGone
<1>3. IsPending(n, t) => IsPending(n, t)'
  BY <1>1 DEF IsPending, NoneLater
<1>4. IsWritten(n, t) => IsWritten(n, t)'
  BY <1>1 DEF IsWritten, NoneLater, Elements
<1>5. \A i \in Nat : IsInFile(n, t, i) => IsInFile(n, t, i)'
  BY <1>1 DEF IsInFile, NoneLater, Ahead
<1>6. \A i \in Nat : IsQueued(n, t, i) => IsQueued(n, t, i)'
  BY <1>1 DEF IsQueued, NoneLater, Ahead
<1> QED BY <1>2, <1>3, <1>4, <1>5, <1>6 DEF OnItsWay

\* A signal of the thread that is still pending is lost when the next is sent.
LEMMA WayOfBlock ==
  ASSUME PipelineTypeOK, NEW t \in Tids, NEW c \in Cpus, Block(t, c),
         NEW n \in Nat \ {0}, NEW u \in Tids, OnItsWay(n, u)
  PROVE  OnItsWay(n, u)'
<1>1. /\ UNCHANGED <<file, half, jvmEvents, ret, reported, trashed>>
      /\ sigprof \in [Tids -> 0..Len(ends)]
  BY DEF Block, fileVars, vars, loopVars, PipelineTypeOK
<1>2. UsedStacks' = UsedStacks
  BY <1>1 DEF UsedStacks, InRet, InReports, RetPairs
<1>3. noStack \subseteq noStack' /\ unsignalled \subseteq unsignalled'
  BY DEF Block, Signal
<1>4. CASE IsPending(n, u)
  <2>1. Stacks' = Stacks
    BY <1>1, <1>2, StacksParts
  <2>2. sigprof'[u] = n \/ n \in noStack'
    BY <1>1, <1>4 DEF Block, Signal, IsPending
  <2>3. IsPending(n, u)' \/ IsGone(n)'
    BY <1>4, <2>1, <2>2 DEF IsPending, IsGone, NoneLater
  <2> QED BY <2>3 DEF OnItsWay
<1>5. CASE ~IsPending(n, u)
  <2>1. Stacks' = Stacks /\ OldStacks' = OldStacks
    BY <1>1, <1>2, StacksParts, UsedAre
  <2>2. IsGone(n) => IsGone(n)'
    BY <1>2, <1>3 DEF IsGone
  <2>3. IsWritten(n, u) => IsWritten(n, u)'
    BY <1>1, <2>1 DEF IsWritten, NoneLater, Elements
  <2>4. \A i \in Nat : IsInFile(n, u, i) => IsInFile(n, u, i)'
    BY <1>1, <2>1 DEF IsInFile, NoneLater, Ahead
  <2>5. \A i \in Nat : IsQueued(n, u, i) => IsQueued(n, u, i)'
    BY <1>1, <1>2 DEF IsQueued, NoneLater, Ahead
  <2> QED BY <1>5, <2>2, <2>3, <2>4, <2>5 DEF OnItsWay
<1> QED BY <1>4, <1>5

\* A thread takes its own pending signal before the process's.
LEMMA WayOfTakeSignal ==
  ASSUME PipelineTypeOK, NEW t \in Tids, TakeSignal(t),
         NEW n \in Nat \ {0}, NEW u \in Tids, OnItsWay(n, u)
  PROVE  OnItsWay(n, u)'
<1>1. PICK m \in {sigprof[t], killed} \ {0} :
        Takes(t, m) /\ half' = [id |-> m, tid |-> t, timestamp |-> now]
  BY DEF TakeSignal
<1>2. PICK h : h = [id |-> m, tid |-> t, timestamp |-> now]
  OBVIOUS
<1>3. /\ UNCHANGED <<file, jvmEvents, ret, reported, trashed, noStack, unsignalled>>
      /\ half = NoJvm /\ half' = h /\ h.id = m /\ h.tid = t
      /\ sigprof \in [Tids -> 0..Len(ends)]
  BY <1>1, <1>2 DEF TakeSignal, vars, loopVars, PipelineTypeOK
<1>4. h # NoJvm
  <2>1. m \in Nat /\ now \in Nat
    BY <1>1, <1>3 DEF PipelineTypeOK, TypeOK
  <2>2. h \in JvmEvent
    BY <1>2, <2>1 DEF JvmEvent
  <2> QED BY <2>2, NoJvmAssumption
<1>5. UsedStacks' = UsedStacks
  BY <1>3 DEF UsedStacks, InRet, InReports, RetPairs
<1>6. /\ OldStacks' = OldStacks /\ Stacks = OldStacks \cup Elements(file)
      /\ Stacks' = Stacks \cup {h}
  BY <1>3, <1>4, <1>5, StacksParts, UsedAre
<1>7. CASE IsPending(n, u)
  <2>1. CASE t = u
    <3>1. m = n
      BY <1>1, <1>7, <2>1 DEF IsPending, Takes
    <3>2. IsWritten(n, u)'
      BY <1>3, <1>4, <1>6, <1>7, <2>1, <3>1 DEF IsPending, IsWritten, NoneLater, Elements
    <3> QED BY <3>2 DEF OnItsWay
  <2>2. CASE t # u
    <3>1. sigprof'[u] = n
      BY <1>1, <1>3, <1>7, <2>2 DEF IsPending, Takes
    <3>2. IsPending(n, u)'
      BY <1>3, <1>6, <1>7, <2>2, <3>1 DEF IsPending, NoneLater
    <3> QED BY <3>2 DEF OnItsWay
  <2> QED BY <2>1, <2>2
<1>8. CASE ~IsPending(n, u)
  <2>1. IsGone(n) => IsGone(n)'
    BY <1>3, <1>5 DEF IsGone
  <2>2. ~IsWritten(n, u)
    BY <1>3 DEF IsWritten
  <2>3. \A i \in Nat : IsInFile(n, u, i) => IsInFile(n, u, i)'
    BY <1>3, <1>6 DEF IsInFile, NoneLater, Ahead
  <2>4. \A i \in Nat : IsQueued(n, u, i) => IsQueued(n, u, i)'
    BY <1>3, <1>5 DEF IsQueued, NoneLater, Ahead
  <2> QED BY <1>8, <2>1, <2>2, <2>3, <2>4 DEF OnItsWay
<1> QED BY <1>7, <1>8

\* The line that is written is the last of the file, or lost.
LEMMA WayOfWriteLine ==
  ASSUME PipelineTypeOK, WriteLine, NEW n \in Nat \ {0}, NEW u \in Tids, OnItsWay(n, u)
  PROVE  OnItsWay(n, u)'
<1>1. /\ half \in JvmEvent /\ half # NoJvm /\ half' = NoJvm /\ file \in Seq(JvmEvent)
      /\ \/ file' = file /\ noStack' = noStack \cup {half.id}
         \/ file' = Append(file, half) /\ noStack' = noStack
      /\ UNCHANGED <<unsignalled, sigprof, jvmEvents, ret, reported, trashed>>
  BY DEF WriteLine, PipelineTypeOK, kernelVars, signals, vars, loopVars
<1>2. UsedStacks' = UsedStacks
  BY <1>1 DEF UsedStacks, InRet, InReports, RetPairs
<1>3. /\ Elements(file') \subseteq Elements(file) \cup {half}
      /\ Len(file) \in Nat
      /\ \A i \in 1..Len(file) : i \in 1..Len(file') /\ file'[i] = file[i]
                                 /\ Ahead(file', i) = Ahead(file, i)
  <2>1. Elements(Append(file, half)) = Elements(file) \cup {half}
    BY <1>1, AppendElements
  <2>2. Len(file) \in Nat /\ \A i \in 1..Len(file) : i \in 1..Len(file') /\ file'[i] = file[i]
    BY <1>1
  <2>3. \A i \in 1..Len(file) : \A k \in 1..(i - 1) : k \in 1..Len(file)
    BY <2>2
  <2>4. \A i \in 1..Len(file) : Ahead(file', i) = Ahead(file, i)
    BY <2>2, <2>3 DEF Ahead
  <2> QED BY <1>1, <2>1, <2>2, <2>4
<1>4. OldStacks' = OldStacks /\ Stacks' \subseteq Stacks
  BY <1>1, <1>2, <1>3, StacksParts, UsedAre
<1>5. IsGone(n) => IsGone(n)'
  BY <1>1, <1>2 DEF IsGone
<1>6. IsPending(n, u) => IsPending(n, u)'
  BY <1>1, <1>4 DEF IsPending, NoneLater
<1>7. IsWritten(n, u) => IsGone(n)' \/ \E i \in Nat : IsInFile(n, u, i)'
  <2>1. SUFFICES ASSUME IsWritten(n, u), file' = Append(file, half)
                 PROVE  \E i \in Nat : IsInFile(n, u, i)'
    BY <1>1 DEF IsWritten, IsGone
  <2>2. /\ Len(file) + 1 \in 1..Len(file') /\ file'[Len(file) + 1] = half
        /\ \A k \in 1..Len(file) : file'[k] = file[k]
    BY <1>1, <2>1
  <2>3. PICK i \in Nat : i = Len(file) + 1
    BY <1>3
  <2>4. Ahead(file', i) \subseteq Elements(file)
    <3>1. 1..(i - 1) = 1..Len(file)
      BY <1>3, <2>3
    <3> QED BY <2>2, <3>1 DEF Ahead, Elements
  <2>5. NoneLater(OldStacks' \cup Ahead(file', i), n, u)
    BY <1>4, <2>1, <2>4 DEF IsWritten, NoneLater
  <2>6. i \in 1..Len(file') /\ file'[i].id = n /\ file'[i].tid = u
    BY <2>1, <2>2, <2>3 DEF IsWritten
  <2>7. IsInFile(n, u, i)'
    BY <2>5, <2>6 DEF IsInFile, NoneLater, Ahead
  <2> QED BY <2>7
<1>8. \A i \in Nat : IsInFile(n, u, i) => IsInFile(n, u, i)'
  BY <1>3, <1>4 DEF IsInFile, NoneLater, Ahead
<1>9. \A i \in Nat : IsQueued(n, u, i) => IsQueued(n, u, i)'
  BY <1>1, <1>2 DEF IsQueued, NoneLater, Ahead
<1> QED BY <1>5, <1>6, <1>7, <1>8, <1>9 DEF OnItsWay

\* fill_queue moves the first line of the file to the queue of its thread.
LEMMA WayOfReadLine ==
  ASSUME PipelineTypeOK, ReadLine, NEW n \in Nat \ {0}, NEW u \in Tids, OnItsWay(n, u)
  PROVE  OnItsWay(n, u)'
<1>1. PICK j : j = Head(file)
  OBVIOUS
<1>2. /\ file # <<>> /\ file \in Seq(JvmEvent) /\ file' = Tail(file) /\ j \in JvmEvent
      /\ j.tid \in Tids /\ jvmEvents \in Queues(JvmEvent)
      /\ jvmEvents' = Pushed(jvmEvents, j.tid, j)
      /\ UNCHANGED <<unsignalled, noStack, sigprof, half, ret, reported, trashed>>
  <2>1. file # <<>> /\ file \in Seq(JvmEvent) /\ file' = Tail(file) /\ FillQueue(j)
    BY <1>1 DEF ReadLine, PipelineTypeOK
  <2>2. j \in JvmEvent
    BY <1>1, <2>1, HeadTailType
  <2>3. jvmEvents \in Queues(JvmEvent) /\ jvmEvents' = Pushed(jvmEvents, j.tid, j)
    BY <2>1 DEF PipelineTypeOK, TypeOK, FillQueue, Queues, Pushed
  <2>4. UNCHANGED <<unsignalled, noStack, sigprof, half, ret, reported, trashed>>
    BY <2>1 DEF ReadLine, FillQueue, kernelVars, signals, loopVars
  <2> QED BY <2>1, <2>2, <2>3, <2>4 DEF JvmEvent
<1>3. Elements(file) = Elements(file') \cup {j}
  BY <1>1, <1>2, TailElements
<1>4. Queued(jvmEvents') = Queued(jvmEvents) \cup {j}
  BY <1>2, AppendTo
<1>5. UsedStacks' = UsedStacks
  BY <1>2 DEF UsedStacks, InRet, InReports, RetPairs
<1>6. Stacks' = Stacks /\ OldStacks' = OldStacks \cup {j}
  BY <1>2, <1>3, <1>4, <1>5, StacksParts, UsedAre
<1>7. IsGone(n) => IsGone(n)'
  BY <1>2, <1>5 DEF IsGone
<1>8. IsPending(n, u) => IsPending(n, u)'
  BY <1>2, <1>6 DEF IsPending, NoneLater
<1>9. IsWritten(n, u) => IsWritten(n, u)'
  BY <1>2, <1>3, <1>6 DEF IsWritten, NoneLater, Elements
<1>10. /\ Len(file) \in Nat \ {0} /\ Len(file') = Len(file) - 1 /\ j = file[1]
       /\ \A k \in 1..Len(file') : file'[k] = file[k + 1]
  BY <1>1, <1>2, HeadTailType
<1>11. ASSUME NEW i \in Nat, IsInFile(n, u, i), i # 1 PROVE IsInFile(n, u, i - 1)'
  <2>1. i \in 1..Len(file) /\ i - 1 \in 1..Len(file') /\ file'[i - 1] = file[i]
    BY <1>10, <1>11 DEF IsInFile
  <2>2. {j} \cup Ahead(file', i - 1) \subseteq Ahead(file, i)
    <3>1. \A k \in 1..(i - 1 - 1) : k \in 1..Len(file') /\ k + 1 \in 1..(i - 1)
      BY <2>1
    <3>2. 1 \in 1..(i - 1)
      BY <1>11, <2>1
    <3> QED BY <1>10, <3>1, <3>2 DEF Ahead
  <2>3. NoneLater(OldStacks' \cup Ahead(file', i - 1), n, u)
    BY <1>6, <1>11, <2>2 DEF IsInFile, NoneLater
  <2> QED BY <1>11, <2>1, <2>3 DEF IsInFile, NoneLater, Ahead
<1>12. ASSUME IsInFile(n, u, 1) PROVE \E i \in Nat : IsQueued(n, u, i)'
  <2>1. j.id = n /\ j.tid = u /\ NoneLater(OldStacks, n, u)
    BY <1>10, <1>12 DEF IsInFile, NoneLater
  <2>2. jvmEvents[u] \in Seq(JvmEvent) /\ jvmEvents'[u] = Append(jvmEvents[u], j)
    BY <1>2, <2>1 DEF Queues, Pushed
  <2>3. PICK i \in Nat : i = Len(jvmEvents[u]) + 1
    BY <2>2
  <2>4. /\ i \in 1..Len(jvmEvents'[u]) /\ jvmEvents'[u][i] = j
        /\ \A k \in 1..(i - 1) : k \in 1..Len(jvmEvents[u]) /\ jvmEvents'[u][k] = jvmEvents[u][k]
    BY <1>2, <2>2, <2>3
  <2>5. Ahead(jvmEvents'[u], i) \subseteq OldStacks /\ UsedStacks \subseteq OldStacks
    <3>1. Ahead(jvmEvents'[u], i) \subseteq Elements(jvmEvents[u])
      BY <2>4 DEF Ahead, Elements
    <3> QED BY <3>1, QueuedIn, UsedAre
  <2>6. NoneLater(UsedStacks' \cup Ahead(jvmEvents'[u], i), n, u)
    BY <1>5, <2>1, <2>5 DEF NoneLater
  <2>7. IsQueued(n, u, i)'
    BY <2>1, <2>4, <2>6 DEF IsQueued, NoneLater, Ahead
  <2> QED BY <2>7
<1>13. ASSUME NEW i \in Nat, IsQueued(n, u, i) PROVE IsQueued(n, u, i)'
  <2>1. PICK q \in Seq(JvmEvent) : q = jvmEvents[u]
    BY <1>2 DEF Queues
  <2>2. jvmEvents'[u] = q \/ jvmEvents'[u] = Append(q, j)
    BY <1>2, <2>1 DEF Queues, Pushed
  <2>3. /\ i \in 1..Len(jvmEvents'[u]) /\ jvmEvents'[u][i] = jvmEvents[u][i]
        /\ \A k \in 1..(i - 1) : jvmEvents'[u][k] = jvmEvents[u][k]
    <3>1. i \in 1..Len(q) /\ \A k \in 1..(i - 1) : k \in 1..Len(q)
      BY <1>13, <2>1 DEF IsQueued
    <3>2. /\ i \in 1..Len(Append(q, j))
          /\ \A k \in 1..Len(q) : Append(q, j)[k] = q[k]
      BY <1>2, <3>1
    <3> QED BY <2>1, <2>2, <3>1, <3>2
  <2>4. Ahead(jvmEvents'[u], i) = Ahead(jvmEvents[u], i)
    BY <2>3 DEF Ahead
  <2> QED BY <1>5, <1>13, <2>3, <2>4 DEF IsQueued, NoneLater, Ahead
<1>14. (\E i \in Nat : IsInFile(n, u, i)) => OnItsWay(n, u)'
  <2>1. SUFFICES ASSUME NEW i \in Nat, IsInFile(n, u, i), i # 1
                 PROVE  \E k \in Nat : IsInFile(n, u, k)'
    BY <1>12 DEF OnItsWay
  <2>2. i - 1 \in Nat
    BY <2>1 DEF IsInFile
  <2>3. PICK k \in Nat : k = i - 1
    BY <2>2
  <2>4. IsInFile(n, u, k)'
    BY <1>11, <2>1, <2>3 DEF IsInFile
  <2> QED BY <2>4
<1> QED BY <1>7, <1>8, <1>9, <1>13, <1>14 DEF OnItsWay

\* sweep uses up the first of the queued stacks of a thread, or none.
LEMMA WayOfSweep ==
  ASSUME PipelineTypeOK, OwnJvmQueues, SweepSteps,
         NEW n \in Nat \ {0}, NEW u \in Tids, OnItsWay(n, u)
  PROVE  OnItsWay(n, u)'
<1>1. /\ TypeOK /\ Sweep
      /\ UNCHANGED <<unsignalled, noStack, sigprof, file, half>>
  BY DEF SweepSteps, PipelineTypeOK, kernelVars, fileVars, signals
<1>2. CASE jvmEvents' = jvmEvents /\ UsedStacks' = UsedStacks
  BY <1>1, <1>2, WayKept
<1>3. ASSUME NEW t \in Tids, jvmEvents[t] # <<>>, jvmEvents' = Popped(jvmEvents, t),
             UsedStacks' = UsedStacks \cup {Head(jvmEvents[t])}
      PROVE  OnItsWay(n, u)'
  <2>1. PICK j : j = Head(jvmEvents[t])
    OBVIOUS
  <2>2. PICK q \in Seq(JvmEvent) : q = jvmEvents[t]
    BY <1>1 DEF TypeOK
  <2>3. /\ jvmEvents'[t] = Tail(q) /\ q # <<>> /\ j = Head(q)
        /\ \A v \in Tids \ {t} : jvmEvents'[v] = jvmEvents[v]
    BY <1>1, <1>3, <2>1, <2>2 DEF TypeOK, Popped
  <2>4. /\ Len(q) \in Nat \ {0} /\ Len(Tail(q)) = Len(q) - 1 /\ j = q[1]
        /\ \A k \in 1..Len(Tail(q)) : Tail(q)[k] = q[k + 1]
    BY <2>3, HeadTailType
  <2>5. j.tid = t
    <3>1. 1 \in 1..Len(q)
      BY <2>4
    <3> QED BY <2>2, <2>4, <3>1 DEF OwnJvmQueues, Elements
  <2>6. Queued(jvmEvents) = Queued(jvmEvents') \cup {j}
    <3>1. jvmEvents \in Queues(JvmEvent)
      BY <1>1 DEF TypeOK, Queues
    <3> QED BY <1>3, <2>1, <3>1, PopFrom
  <2>7. Stacks' = Stacks /\ OldStacks' = OldStacks
    BY <1>1, <1>3, <2>1, <2>6, StacksParts, UsedAre
  <2>8. IsGone(n) => IsGone(n)'
    BY <1>1, <1>3 DEF IsGone
  <2>9. IsPending(n, u) => IsPending(n, u)'
    BY <1>1, <2>7 DEF IsPending, NoneLater
  <2>10. IsWritten(n, u) => IsWritten(n, u)'
    BY <1>1, <2>7 DEF IsWritten, NoneLater, Elements
  <2>11. \A i \in Nat : IsInFile(n, u, i) => IsInFile(n, u, i)'
    BY <1>1, <2>7 DEF IsInFile, NoneLater, Ahead
  <2>12. ASSUME NEW i \in Nat, IsQueued(n, u, i), u # t PROVE IsQueued(n, u, i)'
    <3>1. jvmEvents'[u] = jvmEvents[u]
      BY <2>3, <2>12
    <3> QED BY <1>3, <2>1, <2>5, <2>12, <3>1 DEF IsQueued, NoneLater, Ahead
  <2>13. ASSUME IsQueued(n, u, 1), u = t PROVE IsGone(n)'
    <3>1. j.id = n /\ j \in UsedStacks'
      BY <1>3, <2>1, <2>2, <2>4, <2>13 DEF IsQueued
    <3> QED BY <3>1 DEF IsGone
  <2>14. ASSUME NEW i \in Nat, IsQueued(n, u, i), u = t, i # 1
         PROVE  \E k \in Nat : IsQueued(n, u, k)'
    <3>1. i \in 1..Len(q) /\ q[i].id = n /\ NoneLater(UsedStacks \cup Ahead(q, i), n, u)
      BY <2>2, <2>14 DEF IsQueued
    <3>2. PICK k \in Nat : k = i - 1
      BY <3>1
    <3>3. k \in 1..Len(Tail(q)) /\ Tail(q)[k] = q[i]
      BY <2>4, <2>14, <3>1, <3>2
    <3>4. {j} \cup Ahead(Tail(q), k) \subseteq Ahead(q, i)
      <4>1. \A m \in 1..(k - 1) : m \in 1..Len(Tail(q)) /\ m + 1 \in 1..(i - 1)
        BY <3>2, <3>3
      <4>2. 1 \in 1..(i - 1)
        BY <2>14, <3>1
      <4> QED BY <2>4, <4>1, <4>2 DEF Ahead
    <3>5. NoneLater(UsedStacks' \cup Ahead(jvmEvents'[u], k), n, u)
      BY <1>3, <2>1, <2>3, <2>14, <3>1, <3>4 DEF NoneLater
    <3>6. k \in 1..Len(jvmEvents'[u]) /\ jvmEvents'[u][k].id = n
      BY <2>3, <2>14, <3>1, <3>3
    <3>7. IsQueued(n, u, k)'
      BY <3>5, <3>6 DEF IsQueued, NoneLater, Ahead
    <3> QED BY <3>7
  <2> QED BY <2>8, <2>9, <2>10, <2>11, <2>12, <2>13, <2>14 DEF OnItsWay
<1> QED BY <1>1, <1>2, <1>3, SweepUses

LEMMA OwnInit == PipelineInit => OwnInv
<1> SUFFICES ASSUME PipelineInit PROVE OwnInv
  OBVIOUS
<1>1. Init /\ buffers = [c \in Cpus |-> <<>>] /\ bpfResults = [c \in Cpus |-> NotRead]
  BY DEF PipelineInit
<1>2. Elements(<<>>) = {}
  BY DEF Elements
<1>3. \A t \in Tids : jvmEvents[t] = <<>> /\ bpfEvents[t] = <<>>
  BY <1>1 DEF Init
<1>4. BlockEvents = {}
  <2>1. \A c \in Cpus : Line(c) = <<>>
    <3>1. \A c \in Cpus : Results(c) = <<>> /\ buffers[c] = <<>>
      BY <1>1 DEF Results
    <3> QED BY <3>1, ConcatEmptySeq DEF Line
  <2>2. Bpfs = {}
    <3>1. Queued(bpfEvents) = {}
      BY <1>2, <1>3, QueuedIn
    <3> QED BY <1>1, <3>1 DEF Bpfs, Init, RetPairs
  <2> QED BY <1>2, <2>1, <2>2 DEF BlockEvents
<1> QED BY <1>2, <1>3, <1>4 DEF OwnInv, OwnJvmQueues

\* The queue of a thread has its stacks only.
LEMMA OwnJvmQueuesStep ==
  ASSUME PipelineTypeOK, OwnJvmQueues, [PipelineNext]_pipelineVars
  PROVE  OwnJvmQueues'
<1>0. ASSUME jvmEvents' = jvmEvents PROVE OwnJvmQueues'
  BY <1>0 DEF OwnJvmQueues, Elements
<1>1. CASE ReadLine
  <2>1. PICK j : j = Head(file)
    OBVIOUS
  <2>2. j \in JvmEvent /\ j.tid \in Tids /\ jvmEvents' = [jvmEvents EXCEPT ![j.tid] = Append(@, j)]
    <3>1. file # <<>> /\ file \in Seq(JvmEvent) /\ FillQueue(j)
      BY <1>1, <2>1 DEF ReadLine, PipelineTypeOK
    <3>2. j \in JvmEvent
      BY <2>1, <3>1, HeadTailType
    <3>3. j.tid \in Tids
      BY <3>2 DEF JvmEvent
    <3> QED BY <3>1, <3>2, <3>3 DEF FillQueue
  <2>3. jvmEvents \in [Tids -> Seq(JvmEvent)]
    BY DEF PipelineTypeOK, TypeOK
  <2>4. \A t \in Tids : \A k \in Elements(jvmEvents'[t]) : k.tid = t
    <3>1. Elements(Append(jvmEvents[j.tid], j)) = Elements(jvmEvents[j.tid]) \cup {j}
      BY <2>2, <2>3, AppendElements
    <3> QED BY <2>2, <2>3, <3>1 DEF OwnJvmQueues
  <2> QED BY <2>4 DEF OwnJvmQueues, Elements
<1>2. CASE SweepSteps
  <2>1. /\ TypeOK /\ jvmEvents \in [Tids -> Seq(JvmEvent)]
        /\ \/ jvmEvents' = jvmEvents
           \/ \E t \in Tids : jvmEvents[t] # <<>> /\ jvmEvents' = Popped(jvmEvents, t)
    BY <1>2, SweepUses DEF SweepSteps, PipelineTypeOK, TypeOK
  <2>2. ASSUME NEW t \in Tids, jvmEvents[t] # <<>>, jvmEvents' = Popped(jvmEvents, t)
        PROVE  OwnJvmQueues'
    <3>1. Elements(Tail(jvmEvents[t])) \subseteq Elements(jvmEvents[t])
      BY <2>1, <2>2, TailElements
    <3>2. \A v \in Tids : \A k \in Elements(jvmEvents'[v]) : k.tid = v
      BY <2>1, <2>2, <3>1 DEF OwnJvmQueues, Popped
    <3> QED BY <3>2 DEF OwnJvmQueues, Elements
  <2> QED BY <1>0, <2>1, <2>2
<1>3. CASE ~ReadLine /\ ~SweepSteps
  <2>1. CASE Environment
    BY <1>0, <2>1 DEF Environment, Block, TakeSignal, WriteLine, Pass, vars, matching
  <2>2. CASE Process
    BY <1>0, <1>3, <2>2
    DEF Process, OpenBuffer, StartRound, BeginProcess, Reading, ReadEvents, ReadGivesUp,
        ReadKtime, AddEvent, AddBpfEvent, EndAdding, EndBpf, ReadHalfLine, vars
  <2>3. CASE Exit \/ UNCHANGED pipelineVars
    BY <1>0, <2>3 DEF Exit, Quit, pipelineVars, vars
  <2> QED BY <2>1, <2>2, <2>3 DEF PipelineNext
<1> QED BY <1>1, <1>2, <1>3

\* The event of a block that ends: its signal is pending, and all stacks that
\* there are are of earlier blocks; or it could not be sent.
LEMMA WayOfNewBlock ==
  ASSUME PipelineTypeOK, StackInv, NEW t \in Tids, NEW c \in Cpus, Block(t, c),
         NEW n \in Nat, n = Len(ends) + 1
  PROVE  OnItsWay(n, t)'
<1>1. n \in Nat /\ n = Len(ends) + 1
  OBVIOUS
<1>2. CASE Signal(t, n)
  <2>1. sigprof'[t] = n
    BY <1>2 DEF Signal, PipelineTypeOK
  <2>2. UNCHANGED <<jvmEvents, file, half, ret, reported, trashed>>
    BY DEF Block, vars, fileVars, loopVars
  <2>3. Stacks' = Stacks
    <3>1. UsedStacks' = UsedStacks
      BY <2>2 DEF UsedStacks, InRet, InReports, RetPairs
    <3> QED BY <2>2, <3>1, StacksParts
  <2>4. \A j \in Stacks : j.id <= n
    BY <1>1 DEF StackInv, UnaskedInv, PipelineTypeOK
  <2>5. IsPending(n, t)'
    BY <2>1, <2>3, <2>4 DEF IsPending, NoneLater
  <2> QED BY <2>5 DEF OnItsWay
<1>3. CASE unsignalled' = unsignalled \cup {n}
  <2>1. IsGone(n)'
    BY <1>3 DEF IsGone
  <2> QED BY <2>1 DEF OnItsWay
<1> QED BY <1>1, <1>2, <1>3 DEF Block

\* The events after the end of a block: those that there were, and its own.
LEMMA EventsOfBlock ==
  ASSUME PipelineTypeOK, NEW t \in Tids, NEW c \in Cpus, Block(t, c)
  PROVE  \A e \in BlockEvents' : e \in BlockEvents \/ (e.id = Len(ends) + 1 /\ e.tid = t)
<1> DEFINE e == [id |-> Len(ends) + 1, tid |-> t, t_end |-> ktime]
<1>1. /\ e \in BlockEvent /\ \A d \in Cpus \ {c} : Line(d)' = Line(d)
      /\ Line(c)' = Line(c) \/ Line(c)' = Append(Line(c), e)
      /\ e.id = Len(ends) + 1 /\ e.tid = t
  BY LineOfBlock
<1> HIDE DEF e
<1>2. \A d \in Cpus : Elements(Line(d)') \subseteq Elements(Line(d)) \cup {e}
  <2>1. Line(c) \in Seq(BlockEvent)
    BY LineType
  <2>2. Elements(Append(Line(c), e)) = Elements(Line(c)) \cup {e}
    BY <1>1, <2>1, AppendElements
  <2> QED BY <1>1, <2>2
<1>3. Bpfs' = Bpfs
  BY BpfsSame DEF Block, vars, loopVars
<1>4. BlockEvents' = (UNION {Elements(Line(d)') : d \in Cpus}) \cup Bpfs'
  BY DEF BlockEvents, Elements
<1> QED BY <1>1, <1>2, <1>3, <1>4 DEF BlockEvents

\* Steps of the control program that move no stack.
LEMMA WayOfControl ==
  ASSUME NEW n, NEW u \in Tids, OnItsWay(n, u),
         \/ Exit \/ EndAdding \/ StartRound \/ OpenBuffer \/ ReadHalfLine \/ Pass
         \/ (\E c \in Cpus : Reading(c) \/ ReadKtime(c) \/ AddEvent(c))
         \/ UNCHANGED pipelineVars
  PROVE  OnItsWay(n, u)'
<1>1. UNCHANGED <<jvmEvents, trashed, sigprof, unsignalled, noStack, file, half, ret, reported>>
  BY DEF Exit, EndAdding, StartRound, OpenBuffer, ReadHalfLine, Pass, Reading, ReadEvents,
         ReadGivesUp, ReadKtime, AddEvent, pipelineVars, Quit, EndBpf, BeginProcess, AddBpfEvent,
         matching, vars, loopVars, kernelVars, signals, fileVars
<1>2. UsedStacks' = UsedStacks
  BY <1>1 DEF UsedStacks, InRet, InReports, RetPairs
<1> QED BY <1>1, <1>2, WayKept

LEMMA OwnStep ==
  ASSUME PipelineTypeOK, StampInv, StackInv, OwnInv, [PipelineNext]_pipelineVars
  PROVE  OwnInv'
<1>1. OwnJvmQueues'
  BY OwnJvmQueuesStep DEF OwnInv
<1>2. ASSUME NEW n \in Nat \ {0}, NEW u \in Tids, OnItsWay(n, u) PROVE OnItsWay(n, u)'
  <2>1. CASE Environment
    BY <1>2, <2>1, WayOfBlock, WayOfTakeSignal, WayOfWriteLine, WayOfControl DEF Environment
  <2>2. CASE Process
    BY <1>2, <2>2, WayOfReadLine, WayOfSweep, WayOfControl DEF Process, OwnInv
  <2>3. CASE Exit \/ UNCHANGED pipelineVars
    BY <1>2, <2>3, WayOfControl
  <2> QED BY <2>1, <2>2, <2>3 DEF PipelineNext
<1>3. ASSUME NEW e \in BlockEvents' PROVE OnItsWay(e.id, e.tid)'
  <2>1. ASSUME NEW f \in BlockEvents PROVE OnItsWay(f.id, f.tid)'
    <3>1. f.tid \in Tids /\ f.id \in Nat \ {0}
      BY EventsTyped DEF PipelineTypeOK
    <3>2. PICK n \in Nat \ {0}, u \in Tids : n = f.id /\ u = f.tid
      BY <3>1
    <3>3. OnItsWay(n, u)
      BY <3>2 DEF OwnInv
    <3>4. OnItsWay(n, u)'
      BY <1>2, <3>3
    <3> QED BY <3>2, <3>4
  <2>2. CASE \E t \in Tids, c \in Cpus : Block(t, c)
    <3>1. PICK t \in Tids, c \in Cpus : Block(t, c)
      BY <2>2
    <3>2. e \in BlockEvents \/ (e.id = Len(ends) + 1 /\ e.tid = t)
      BY <3>1, EventsOfBlock
    <3>3. CASE e.id = Len(ends) + 1 /\ e.tid = t
      <4>1. PICK n \in Nat : n = Len(ends) + 1
        BY DEF PipelineTypeOK
      <4>2. OnItsWay(n, t)'
        BY <3>1, <4>1, WayOfNewBlock
      <4> QED BY <3>3, <4>1, <4>2
    <3> QED BY <2>1, <3>2, <3>3
  <2>3. CASE ~ \E t \in Tids, c \in Cpus : Block(t, c)
    <3>1. PICK f \in BlockEvents : f.id = e.id /\ f.tid = e.tid
      BY <2>3, EventsKept
    <3> QED BY <2>1, <3>1
  <2> QED BY <2>2, <2>3
<1> QED BY <1>1, <1>3 DEF OwnInv

LEMMA OwnMeans == PipelineTypeOK /\ StampInv /\ OwnInv => OwnStack
<1> SUFFICES ASSUME PipelineTypeOK, StampInv, OwnInv, NEW p \in reported,
                    p.jvm # NoJvm, p.jvm.tid = p.bpf.tid, p.jvm.id > p.bpf.id,
                    ~IsGone(p.bpf.id)
             PROVE  FALSE
  BY DEF OwnStack, IsGone, UsedStacks, InRet, InReports
<1>1. PICK b, k : b = p.bpf /\ k = p.jvm
  OBVIOUS
<1>2. /\ b \in BlockEvents /\ k.tid = b.tid /\ k.id > b.id
      /\ k \in UsedStacks /\ k \in OldStacks /\ k \in Stacks
  BY <1>1, UsedAre, StacksParts DEF BlockEvents, Bpfs, UsedStacks, InReports
<1>3. /\ ~NoneLater(Stacks, b.id, b.tid)
      /\ \A S : ~NoneLater(OldStacks \cup S, b.id, b.tid)
      /\ \A S : ~NoneLater(UsedStacks \cup S, b.id, b.tid)
  <2>1. b.id \in Nat /\ k.id \in Nat
    <3>1. b.id \in 1..Len(ends) /\ Len(ends) \in Nat
      BY <1>2, EventsTyped DEF PipelineTypeOK
    <3>2. k \in JvmEvent
      BY <1>2, StacksTyped
    <3> QED BY <3>1, <3>2 DEF JvmEvent
  <2>2. ~(k.id <= b.id)
    BY <1>2, <2>1
  <2> QED BY <1>2, <2>2 DEF NoneLater
<1>4. OnItsWay(b.id, b.tid)
  BY <1>2 DEF OwnInv
<1> QED
  BY <1>1, <1>3, <1>4 DEF OnItsWay, IsPending, IsWritten, IsInFile, IsQueued

\* A block is never reported with the stack of a later block of its thread
\* while its own stack is still to come or waits to be matched, whatever the
\* signals, the profiler's lines, the reads and the rounds do (lib.rs:161-169,
\* 347-386; async_profiler.rs:90-118): with either variant and for any MinBlock.
THEOREM NoStackOfLaterBlock == PipelineSpec => []OwnStack
<1> DEFINE Inv == PipelineTypeOK /\ StampInv /\ StackInv /\ OwnInv
<1>1. PipelineInit => Inv
  BY PipelineInitInv, StackInit, OwnInit
<1>2. Inv /\ [PipelineNext]_pipelineVars => Inv'
  BY PipelineStep, StackStep, OwnStep
<1>3. Inv => OwnStack
  BY OwnMeans
<1> QED BY <1>1, <1>2, <1>3, PTL DEF PipelineSpec
=============================================================================
