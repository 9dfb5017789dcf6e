--------------------------- MODULE MatchingProofs ---------------------------
(***************************************************************************)
(* Why EventStream loses no block event, reports none twice and uses no    *)
(* JVM event twice, and so keeps the promise of BlockReport.               *)
(***************************************************************************)
EXTENDS EventStreamProofs

\* No two places of a set of queues hold an event of the same id.
Apart(qs) ==
  \A t, u \in Tids : \A i \in 1..Len(qs[t]), k \in 1..Len(qs[u]) :
    qs[t][i].id = qs[u][k].id => t = u /\ i = k

Queues(S) == [Tids -> Seq(S)]
Popped(qs, t) == [qs EXCEPT ![t] = Tail(@)]
Pushed(qs, t, e) == [qs EXCEPT ![t] = Append(@, e)]

\* BpfReportedOnce, but for its first conjunct: no block event is in two places.
BpfApart ==
  /\ Apart(bpfEvents)
  /\ \A i, k \in 1..Len(ret) : ret[i].bpf.id = ret[k].bpf.id => i = k
  /\ \A p, q \in reported : p.bpf.id = q.bpf.id => p = q
  /\ \A p \in RetPairs \cup reported, b \in Queued(bpfEvents) : p.bpf.id # b.id
  /\ \A p \in RetPairs, q \in reported : p.bpf.id # q.bpf.id
----------------------------------------------------------------------------
(***************************************************************************)
(* Lemmas                                                                  *)
(***************************************************************************)

\* pop_front on the queue of a thread.
LEMMA PopFrom ==
  ASSUME NEW S, NEW qs \in Queues(S), NEW t \in Tids, qs[t] # <<>>
  PROVE  /\ Queued(qs) = Queued(Popped(qs, t)) \cup {Head(qs[t])}
         /\ Apart(qs) => /\ Apart(Popped(qs, t))
                         /\ \A e \in Queued(Popped(qs, t)) : e.id # Head(qs[t]).id
<1>. PICK new : new = Popped(qs, t)
  OBVIOUS
<1>0. qs \in [Tids -> Seq(S)] /\ new = [qs EXCEPT ![t] = Tail(@)]
  BY DEF Queues, Popped
<1> USE <1>0
<1>1. /\ new \in [Tids -> Seq(S)] /\ new[t] = Tail(qs[t])
      /\ \A u \in Tids \ {t} : new[u] = qs[u]
  BY HeadTailType
<1>2. /\ qs[t] \in Seq(S) /\ Len(qs[t]) \in Nat \ {0} /\ Len(new[t]) = Len(qs[t]) - 1
      /\ \A i \in 1..Len(new[t]) : new[t][i] = qs[t][i + 1]
      /\ Head(qs[t]) = qs[t][1]
  BY <1>1, HeadTailType
<1>3. Elements(qs[t]) = Elements(new[t]) \cup {Head(qs[t])}
  BY <1>1, <1>2, TailElements
<1>4. Queued(qs) = Queued(new) \cup {Head(qs[t])}
  <2>1. ASSUME NEW e PROVE e \in Queued(qs) <=> e \in Queued(new) \cup {Head(qs[t])}
    BY <1>1, <1>3, QueuedIn
  <2> QED BY <2>1
<1>5. ASSUME Apart(qs)
      PROVE  Apart(new) /\ \A e \in Queued(new) : e.id # Head(qs[t]).id
  <2> DEFINE From(u, i) == IF u = t THEN i + 1 ELSE i
  <2>1. \A u \in Tids : \A i \in 1..Len(new[u]) :
          /\ From(u, i) \in 1..Len(qs[u]) /\ new[u][i] = qs[u][From(u, i)]
          /\ u = t => From(u, i) # 1
    BY <1>1, <1>2
  <2>2. \A u, v \in Tids : \A i \in 1..Len(new[u]), k \in 1..Len(new[v]) :
          new[u][i].id = new[v][k].id => u = v /\ i = k
    <3>1. TAKE u, v \in Tids
    <3>2. TAKE i \in 1..Len(new[u]), k \in 1..Len(new[v])
    <3>3. HAVE new[u][i].id = new[v][k].id
    <3>4. u = v /\ From(u, i) = From(v, k)
      BY <1>5, <2>1, <3>3 DEF Apart
    <3> QED BY <3>4
  <2>3. ASSUME NEW e \in Queued(new) PROVE e.id # Head(qs[t]).id
    <3>1. PICK u \in Tids : e \in Elements(new[u])
      BY QueuedIn
    <3>2. PICK i \in 1..Len(new[u]) : e = new[u][i]
      BY <3>1 DEF Elements
    <3>3. 1 \in 1..Len(qs[t])
      BY <1>2
    <3> QED BY <1>2, <1>5, <2>1, <3>2, <3>3 DEF Apart
  <2>4. Apart(new)
    BY Zenon, <2>2 DEF Apart
  <2> QED BY <2>3, <2>4
<1> QED BY <1>4, <1>5

\* push_back on the queue of a thread.
LEMMA AppendTo ==
  ASSUME NEW S, NEW qs \in Queues(S), NEW t \in Tids, NEW e \in S
  PROVE  /\ Queued(Pushed(qs, t, e)) = Queued(qs) \cup {e}
         /\ Apart(qs) /\ (\A x \in Queued(qs) : x.id # e.id) => Apart(Pushed(qs, t, e))
<1>. PICK new : new = Pushed(qs, t, e)
  OBVIOUS
<1>0. qs \in [Tids -> Seq(S)] /\ new = [qs EXCEPT ![t] = Append(@, e)]
  BY DEF Queues, Pushed
<1> USE <1>0
<1>1. /\ new[t] = Append(qs[t], e) /\ qs[t] \in Seq(S) /\ Len(qs[t]) \in Nat
      /\ \A u \in Tids \ {t} : new[u] = qs[u]
  OBVIOUS
<1>2. /\ Len(new[t]) = Len(qs[t]) + 1
      /\ \A i \in 1..Len(qs[t]) : new[t][i] = qs[t][i]
      /\ new[t][Len(qs[t]) + 1] = e
  BY <1>1
<1>3. Elements(new[t]) = Elements(qs[t]) \cup {e}
  BY <1>1, AppendElements
<1>4. Queued(new) = Queued(qs) \cup {e}
  <2>1. ASSUME NEW x PROVE x \in Queued(new) <=> x \in Queued(qs) \cup {e}
    BY <1>1, <1>3, QueuedIn
  <2> QED BY <2>1
<1>5. ASSUME Apart(qs), \A x \in Queued(qs) : x.id # e.id PROVE Apart(new)
  <2>1. \A w \in Tids : \A m \in 1..Len(new[w]) :
          \/ m \in 1..Len(qs[w]) /\ new[w][m] = qs[w][m] /\ new[w][m].id # e.id
          \/ w = t /\ m = Len(qs[t]) + 1 /\ new[w][m] = e
    <3>1. ASSUME NEW w \in Tids, NEW m, m \in 1..Len(qs[w]) PROVE qs[w][m] \in Queued(qs)
      <4>1. qs[w][m] \in Elements(qs[w])
        BY <3>1 DEF Elements
      <4> QED BY <4>1, QueuedIn
    <3>2. ASSUME NEW w \in Tids \ {t}, NEW m, m \in 1..Len(new[w])
          PROVE  m \in 1..Len(qs[w]) /\ new[w][m] = qs[w][m] /\ new[w][m].id # e.id
      BY <1>1, <1>5, <3>1, <3>2
    <3>3. ASSUME NEW m, m \in 1..Len(new[t])
          PROVE  \/ m \in 1..Len(qs[t]) /\ new[t][m] = qs[t][m] /\ new[t][m].id # e.id
                 \/ m = Len(qs[t]) + 1 /\ new[t][m] = e
      <4>1. m \in 1..Len(qs[t]) \/ m = Len(qs[t]) + 1
        BY <1>1, <1>2, <3>3
      <4> QED BY <1>2, <1>5, <3>1, <4>1
    <3> QED BY <3>2, <3>3
  <2>2. \A u, v \in Tids : \A i \in 1..Len(new[u]), k \in 1..Len(new[v]) :
          new[u][i].id = new[v][k].id => u = v /\ i = k
    <3>1. TAKE u, v \in Tids
    <3>2. TAKE i \in 1..Len(new[u]), k \in 1..Len(new[v])
    <3>3. HAVE new[u][i].id = new[v][k].id
    <3> QED BY <1>5, <2>1, <3>3 DEF Apart
  <2> QED BY Zenon, <2>2 DEF Apart
<1> QED BY <1>4, <1>5

\* The front of the block queue moves into the result, whose earlier pairs
\* keep their block events.
LEMMA PopApart ==
  ASSUME TypeOK, BpfApart, InLoop, NEW r \in Seq(Pair), NEW jvm \in JvmEvent \cup {NoJvm},
         PopBpfInto(r, jvm), reported' = reported,
         Len(r) = Len(ret), \A i \in 1..Len(ret) : r[i].bpf = ret[i].bpf
  PROVE  BpfApart' /\ Bpfs' = Bpfs
<1> DEFINE new == [bpf |-> Front, jvm |-> jvm]
<1>1. /\ Queued(bpfEvents) = Queued(bpfEvents') \cup {Front}
      /\ Apart(bpfEvents') /\ \A e \in Queued(bpfEvents') : e.id # Front.id
  <2>1. bpfEvents \in Queues(BpfEvent) /\ cur \in Tids /\ bpfEvents[cur] # <<>>
    BY InLoopType DEF TypeOK, Queues
  <2>2. bpfEvents' = Popped(bpfEvents, cur)
    BY DEF PopBpfInto, Popped
  <2> QED BY <2>1, <2>2, PopFrom DEF Front, BpfApart
<1>2. RetPairs' = Elements(r) \cup {new}
  BY PushedPairs
<1>3. {p.bpf : p \in Elements(r)} = {p.bpf : p \in RetPairs}
  BY DEF Elements, RetPairs
<1>4. {p.bpf : p \in RetPairs'} = {p.bpf : p \in RetPairs} \cup {Front}
  <2>1. new.bpf = Front
    OBVIOUS
  <2> HIDE DEF new
  <2> QED BY <1>2, <1>3, <2>1
<1>5. Queued(bpfEvents)' = Queued(bpfEvents')
  BY DEF Queued
<1>6. \A p \in RetPairs \cup reported : p.bpf.id # Front.id
  BY <1>1 DEF BpfApart
<1>7. ASSUME NEW i \in 1..Len(ret'), NEW k \in 1..Len(ret'), ret'[i].bpf.id = ret'[k].bpf.id
      PROVE  i = k
  <2>1. /\ ret' = Append(r, new) /\ new \in Pair /\ ret \in Seq(Pair)
    BY InLoopType DEF PopBpfInto, Pair, TypeOK
  <2>2. \A m \in 1..Len(ret') :
          \/ m \in 1..Len(ret) /\ ret'[m].bpf = ret[m].bpf /\ ret[m] \in RetPairs
          \/ m = Len(ret) + 1 /\ ret'[m].bpf = Front
    BY <2>1 DEF RetPairs
  <2> QED BY <1>6, <1>7, <2>1, <2>2 DEF BpfApart
<1>8. Bpfs' = Bpfs
  <2> HIDE DEF new
  <2>1. Bpfs = Queued(bpfEvents) \cup {p.bpf : p \in RetPairs} \cup {p.bpf : p \in reported}
    BY DEF Bpfs
  <2>2. Bpfs' = Queued(bpfEvents') \cup {p.bpf : p \in RetPairs'} \cup {p.bpf : p \in reported}
    BY <1>5 DEF Bpfs
  <2> QED BY Zenon, <1>1, <1>4, <2>1, <2>2
<1>9. /\ \A p \in RetPairs' \cup reported, b \in Queued(bpfEvents') : p.bpf.id # b.id
      /\ \A p \in RetPairs', q \in reported : p.bpf.id # q.bpf.id
  <2> HIDE DEF new
  <2>1. \A p \in RetPairs' : p.bpf = Front \/ \E q \in RetPairs : p.bpf = q.bpf
    BY <1>4
  <2> QED BY <1>1, <1>6, <2>1 DEF BpfApart
<1>10. Apart(bpfEvents)'
  BY <1>1 DEF Apart
<1> QED BY <1>5, <1>7, <1>8, <1>9, <1>10 DEF BpfApart

\* No step of sweep loses a block event, doubles one or makes one.
LEMMA SweepApart == TypeOK /\ BpfApart /\ Sweep => BpfApart' /\ Bpfs' = Bpfs
<1> SUFFICES ASSUME TypeOK, BpfApart, Sweep PROVE BpfApart' /\ Bpfs' = Bpfs
  OBVIOUS
<1>1. CASE SweepBegin \/ SweepTid \/ LeaveTid \/ TrashJvm
  <2>1. UNCHANGED <<bpfEvents, ret, reported>>
    BY <1>1 DEF SweepBegin, SweepTid, LeaveTid, TrashJvm, loopVars, TypeOK
  <2> QED BY <2>1 DEF BpfApart, Apart, Bpfs, Queued, RetPairs
<1>2. CASE TakeOver
  <2>1. PICK r \in Seq(Pair) : r = [ret EXCEPT ![Len(ret)].jvm = NoJvm]
    BY <1>2, TakeOverType DEF TakeOver
  <2>2. /\ LastPair.jvm \in JvmEvent /\ InLoop /\ reported' = reported
        /\ PopBpfInto(r, LastPair.jvm)
    BY <1>2, <2>1, TakeOverType DEF TakeOver
  <2>3. Len(r) = Len(ret) /\ \A i \in 1..Len(ret) : r[i].bpf = ret[i].bpf
    BY <2>1 DEF TypeOK, Pair
  <2> QED BY <2>2, <2>3, PopApart
<1>3. CASE Match
  <2>1. JvmQueue # <<>> /\ Head(JvmQueue) \in JvmEvent
    BY <1>3, InLoopType, HeadTailType DEF Match, JvmQueue
  <2> QED BY <1>3, <2>1, PopApart DEF Match, TypeOK
<1>4. CASE ReportUnmatched
  BY <1>4, PopApart DEF ReportUnmatched, TypeOK
<1>5. CASE SweepReturn
  <2>1. /\ RetPairs' = {} /\ reported' = reported \cup RetPairs
        /\ ret' = <<>> /\ bpfEvents' = bpfEvents
    BY <1>5 DEF SweepReturn, RetPairs
  <2>2. \A p, q \in RetPairs : p.bpf.id = q.bpf.id => p = q
    BY DEF BpfApart, RetPairs
  <2>3. \A p, q \in reported' : p.bpf.id = q.bpf.id => p = q
    BY <2>1, <2>2 DEF BpfApart
  <2>4. Queued(bpfEvents)' = Queued(bpfEvents) /\ Apart(bpfEvents)'
    BY <2>1 DEF Queued, Apart, BpfApart
  <2> QED BY <2>1, <2>3, <2>4 DEF BpfApart, Bpfs
<1> QED BY <1>1, <1>2, <1>3, <1>4, <1>5 DEF Sweep

\* A block event of a new id is queued.
LEMMA AddApart ==
  ASSUME TypeOK, BpfApart, NEW b \in BpfEvent, AddBpfEvent(b), \A e \in Bpfs : e.id # b.id
  PROVE  BpfApart' /\ Bpfs' = Bpfs \cup {b}
<1>1. bpfEvents \in Queues(BpfEvent) /\ b.tid \in Tids
  BY DEF TypeOK, Queues, BpfEvent
<1>2. bpfEvents' = Pushed(bpfEvents, b.tid, b) /\ UNCHANGED <<ret, reported>>
  BY DEF AddBpfEvent, Pushed, loopVars
<1>3. /\ Queued(bpfEvents') = Queued(bpfEvents) \cup {b}
      /\ Apart(bpfEvents')
  BY <1>1, <1>2, AppendTo DEF BpfApart, Bpfs
<1>4. /\ Queued(bpfEvents)' = Queued(bpfEvents') /\ Apart(bpfEvents)' = Apart(bpfEvents')
      /\ RetPairs' = RetPairs
  BY <1>2 DEF Queued, Apart, RetPairs
<1>5. \A p \in RetPairs \cup reported : p.bpf.id # b.id
  BY DEF Bpfs
<1> QED BY <1>2, <1>3, <1>4, <1>5 DEF BpfApart, Bpfs
----------------------------------------------------------------------------
(***************************************************************************)
(* Every block event is reported once                                      *)
(***************************************************************************)

\* The ids given out are those of the block events there are.
BpfIds == {b.id : b \in Bpfs} = 1..nBpf

LEMMA BpfOnceStep == TypeOK /\ BpfApart /\ BpfIds /\ [Next]_vars => BpfApart' /\ BpfIds'
<1> SUFFICES ASSUME TypeOK, BpfApart, BpfIds, [Next]_vars PROVE BpfApart' /\ BpfIds'
  OBVIOUS
<1>1. CASE ReceiveBpf
  <2>1. PICK t \in Tids, ts \in 0..now :
          AddBpfEvent([id |-> nBpf + 1, tid |-> t, timestamp |-> ts])
    BY <1>1 DEF ReceiveBpf
  <2>2. PICK b : b = [id |-> nBpf + 1, tid |-> t, timestamp |-> ts]
    OBVIOUS
  <2>3. b \in BpfEvent /\ b.id = nBpf + 1 /\ nBpf \in Nat /\ nBpf' = nBpf + 1
    BY <2>1, <2>2 DEF TypeOK, BpfEvent, AddBpfEvent
  <2>4. \A e \in Bpfs : e.id # b.id
    BY <2>3 DEF BpfIds
  <2>5. BpfApart' /\ Bpfs' = Bpfs \cup {b}
    BY <2>1, <2>2, <2>3, <2>4, AddApart
  <2>6. {e.id : e \in Bpfs'} = {e.id : e \in Bpfs} \cup {b.id}
    BY <2>5
  <2> QED BY <2>3, <2>5, <2>6 DEF BpfIds
<1>2. CASE Sweep
  <2>1. nBpf' = nBpf
    BY <1>2 DEF Sweep, SweepBegin, SweepTid, TakeOver, TrashJvm, Match, ReportUnmatched,
                LeaveTid, SweepReturn
  <2> QED BY <1>2, <2>1, SweepApart DEF BpfIds
<1>3. CASE \/ BeginProcess \/ Quit \/ EndBpf \/ ReceiveJvm \/ Tick \/ StepBack
           \/ UNCHANGED vars
  <2>1. UNCHANGED <<bpfEvents, ret, reported, nBpf>>
    BY <1>3 DEF BeginProcess, Quit, EndBpf, ReceiveJvm, FillQueue, Tick, StepBack, vars,
                loopVars
  <2> QED BY <2>1 DEF BpfApart, Apart, BpfIds, Bpfs, Queued, RetPairs
<1> QED BY <1>1, <1>2, <1>3 DEF Next

LEMMA BpfOnceInit == Init => BpfApart /\ BpfIds
<1> SUFFICES ASSUME Init PROVE BpfApart /\ BpfIds
  OBVIOUS
<1>1. \A t \in Tids : Len(bpfEvents[t]) = 0
  BY DEF Init
<1>2. RetPairs = {} /\ reported = {} /\ Len(ret) = 0 /\ nBpf = 0
  BY DEF Init, RetPairs
<1>3. Queued(bpfEvents) = {}
  BY <1>1, QueuedIn DEF Elements
<1>4. Apart(bpfEvents)
  BY <1>1 DEF Apart
<1> QED BY <1>2, <1>3, <1>4 DEF BpfApart, BpfIds, Bpfs

LEMMA BpfOnceMeans == BpfApart /\ BpfIds => BpfReportedOnce
BY DEF BpfApart, Apart, BpfIds, BpfReportedOnce

\* Every block event received is queued, in the running sweep's result or in
\* the reports, and in one place only: sweep neither drops it nor reports it
\* twice, whichever branches it takes and however often events wait.
THEOREM BlocksReportedOnce == Spec => []BpfReportedOnce
BY TypeCorrect, BpfOnceInit, BpfOnceStep, BpfOnceMeans, PTL DEF Spec
----------------------------------------------------------------------------
(***************************************************************************)
(* No JVM event is used twice                                              *)
(***************************************************************************)

\* The JVM events in the result of the running sweep, and in the reports.
InRet == {p.jvm : p \in RetPairs} \ {NoJvm}
InReports == {p.jvm : p \in reported} \ {NoJvm}

RetJvmOnce ==
  \A i, k \in 1..Len(ret) :
    ret[i].jvm # NoJvm /\ ret[k].jvm # NoJvm /\ ret[i].jvm.id = ret[k].jvm.id => i = k

\* JvmUsedOnce by its parts.
JvmApart ==
  /\ Apart(jvmEvents)
  /\ RetJvmOnce
  /\ \A p, q \in reported :
       p.jvm # NoJvm /\ q.jvm # NoJvm /\ p.jvm.id = q.jvm.id => p = q
  /\ \A j \in InRet, k \in InReports \cup trashed : j.id # k.id
  /\ \A j \in InReports, k \in trashed : j.id # k.id
  /\ \A j \in Queued(jvmEvents), k \in InRet \cup InReports \cup trashed : j.id # k.id

LEMMA JvmApartMeans == JvmApart <=> JvmUsedOnce
BY DEF JvmApart, JvmUsedOnce, Apart, RetJvmOnce, InRet, InReports

LEMMA SeenJvmIs ==
  /\ SeenJvm = Queued(jvmEvents) \cup trashed \cup InRet \cup InReports
  /\ SeenJvm' = Queued(jvmEvents)' \cup trashed' \cup InRet' \cup InReports'
BY DEF SeenJvm, InRet, InReports

\* The front of the JVM queue leaves it.
LEMMA PopJvm ==
  ASSUME TypeOK, JvmApart, InLoop, JvmQueue # <<>>,
         jvmEvents' = Popped(jvmEvents, cur)
  PROVE  /\ Head(JvmQueue) \in JvmEvent
         /\ Queued(jvmEvents) = Queued(jvmEvents)' \cup {Head(JvmQueue)}
         /\ Apart(jvmEvents)'
         /\ \A e \in Queued(jvmEvents)' : e.id # Head(JvmQueue).id
         /\ \A k \in InRet \cup InReports \cup trashed : k.id # Head(JvmQueue).id
<1>1. jvmEvents \in Queues(JvmEvent) /\ cur \in Tids /\ jvmEvents[cur] # <<>>
  BY InLoopType DEF TypeOK, Queues, JvmQueue
<1>2. Queued(jvmEvents)' = Queued(jvmEvents') /\ Apart(jvmEvents)' = Apart(jvmEvents')
  BY DEF Queued, Apart
<1>3. /\ Queued(jvmEvents) = Queued(jvmEvents') \cup {Head(JvmQueue)}
      /\ Apart(jvmEvents') /\ \A e \in Queued(jvmEvents') : e.id # Head(JvmQueue).id
  <2>1. Apart(jvmEvents)
    BY DEF JvmApart
  <2> QED BY <1>1, <2>1, PopFrom DEF JvmQueue
<1>4. Head(JvmQueue) \in JvmEvent
  BY <1>1, InLoopType, HeadTailType DEF JvmQueue
<1> QED BY <1>2, <1>3, <1>4 DEF JvmApart

\* A pair is pushed on the result, with no JVM event or with one, which should
\* be of an id that the result does not have.
LEMMA PushPair ==
  ASSUME TypeOK, InLoop, NEW jvm \in JvmEvent \cup {NoJvm}, PopBpfInto(ret, jvm)
  PROVE  /\ InRet' = InRet \cup ({jvm} \ {NoJvm})
         /\ RetJvmOnce /\ (jvm # NoJvm => \A j \in InRet : j.id # jvm.id) => RetJvmOnce'
<1> DEFINE new == [bpf |-> Front, jvm |-> jvm]
<1>1. ret' = Append(ret, new) /\ new \in Pair /\ ret \in Seq(Pair) /\ new.jvm = jvm
  BY InLoopType DEF PopBpfInto, Pair, TypeOK
<1> HIDE DEF new
<1>2. \A m \in 1..Len(ret') :
        \/ m \in 1..Len(ret) /\ ret'[m] = ret[m] /\ (ret[m].jvm # NoJvm => ret[m].jvm \in InRet)
        \/ m = Len(ret) + 1 /\ ret'[m].jvm = jvm
  BY <1>1 DEF RetPairs, InRet
<1>3. ASSUME RetJvmOnce, jvm # NoJvm => \A j \in InRet : j.id # jvm.id PROVE RetJvmOnce'
  BY <1>1, <1>2, <1>3 DEF RetJvmOnce
<1>4. RetPairs' = RetPairs \cup {new}
  BY PushedPairs DEF TypeOK, RetPairs, Elements, new
<1>5. InRet' = InRet \cup ({jvm} \ {NoJvm})
  BY <1>1, <1>4 DEF InRet
<1> QED BY <1>3, <1>5

\* A take-over moves the JVM event of the last pair to the new pair.
LEMMA TakeOverMoves ==
  ASSUME TypeOK, TakeOver
  PROVE  InRet' = InRet /\ (RetJvmOnce => RetJvmOnce')
<1>1. PICK r \in Seq(Pair) : r = [ret EXCEPT ![Len(ret)].jvm = NoJvm]
  BY TakeOverType DEF TakeOver
<1>2. PICK j : j = LastPair.jvm
  OBVIOUS
<1>3. /\ j \in JvmEvent /\ j # NoJvm /\ Len(ret) \in 1..Len(ret) /\ ret[Len(ret)].jvm = j
      /\ InLoop /\ PopBpfInto(r, j) /\ ret \in Seq(Pair)
  BY <1>1, <1>2, TakeOverType DEF TakeOver, CanTakeOver, TypeOK, LastPair
<1>4. /\ Len(r) = Len(ret) /\ r[Len(ret)].jvm = NoJvm
      /\ \A i \in 1..Len(ret) : i # Len(ret) => r[i] = ret[i]
  BY <1>1, <1>3 DEF Pair
<1>5. PICK new : new = [bpf |-> Front, jvm |-> j]
  OBVIOUS
<1>6. ret' = Append(r, new) /\ new \in Pair /\ new.jvm = j
  BY <1>3, <1>5, InLoopType DEF PopBpfInto, Pair
<1>7. /\ Len(ret') = Len(ret) + 1 /\ ret'[Len(ret) + 1].jvm = j /\ ret'[Len(ret)].jvm = NoJvm
      /\ \A i \in 1..Len(ret) : i # Len(ret) => ret'[i] = ret[i]
  <2>1. /\ Len(ret') = Len(r) + 1 /\ ret'[Len(r) + 1] = new
        /\ \A i \in 1..Len(r) : ret'[i] = r[i]
    BY <1>6
  <2> QED BY <1>3, <1>4, <1>6, <2>1
<1>8. ASSUME RetJvmOnce PROVE RetJvmOnce'
  <2>1. \A m \in 1..Len(ret') :
          \/ m \in 1..Len(ret) /\ m # Len(ret) /\ ret'[m].jvm = ret[m].jvm
          \/ m = Len(ret) /\ ret'[m].jvm = NoJvm
          \/ m = Len(ret) + 1 /\ ret'[m].jvm = j
    BY <1>3, <1>7
  <2>2. SUFFICES ASSUME NEW i \in 1..Len(ret'), NEW k \in 1..Len(ret'),
                        ret'[i].jvm # NoJvm, ret'[k].jvm # NoJvm,
                        ret'[i].jvm.id = ret'[k].jvm.id
                 PROVE  i = k
    BY DEF RetJvmOnce
  <2> QED BY <1>3, <1>8, <2>1, <2>2 DEF RetJvmOnce
<1>9. InRet' = InRet
  <2>1. InRet' = {ret'[i].jvm : i \in 1..Len(ret')} \ {NoJvm}
    BY DEF InRet, RetPairs
  <2>2. InRet = {ret[i].jvm : i \in 1..Len(ret)} \ {NoJvm}
    BY DEF InRet, RetPairs
  <2>3. ASSUME NEW i \in 1..Len(ret') PROVE ret'[i].jvm \in InRet \cup {NoJvm}
    BY <1>3, <1>7, <2>2
  <2>4. ASSUME NEW i \in 1..Len(ret) PROVE ret[i].jvm \in InRet' \cup {NoJvm}
    <3>1. CASE i = Len(ret)
      <4>1. Len(ret) + 1 \in 1..Len(ret')
        BY <1>3, <1>7
      <4> QED BY <1>3, <1>7, <2>1, <3>1, <4>1
    <3>2. CASE i # Len(ret)
      BY <1>3, <1>7, <2>1, <3>2
    <3> QED BY <3>1, <3>2
  <2> QED BY <2>1, <2>2, <2>3, <2>4
<1> QED BY <1>8, <1>9

\* What the abstract specification calls available.
Available == Queued(jvmEvents) \cup InRet

\* The steps that make a pair move JVM events, and no more.
LEMMA MovesJvm ==
  ASSUME TypeOK, JvmApart, TakeOver \/ Match \/ ReportUnmatched
  PROVE  JvmApart' /\ Available' = Available
<1>1. UNCHANGED <<reported, trashed>> /\ InReports' = InReports /\ RetJvmOnce /\ TypeOK
  BY DEF TakeOver, Match, ReportUnmatched, InReports, JvmApart
<1>2. CASE TakeOver
  <2>1. RetJvmOnce' /\ InRet' = InRet
    BY <1>1, <1>2, TakeOverMoves
  <2>2. Queued(jvmEvents)' = Queued(jvmEvents) /\ Apart(jvmEvents)' = Apart(jvmEvents)
    BY <1>2 DEF TakeOver, Queued, Apart
  <2> QED BY <1>1, <2>1, <2>2 DEF JvmApart, Available
<1>3. CASE Match
  <2>1. /\ InLoop /\ JvmQueue # <<>> /\ jvmEvents' = Popped(jvmEvents, cur)
        /\ PopBpfInto(ret, Head(JvmQueue))
    BY <1>3 DEF Match, Popped
  <2>2. PICK j : j = Head(JvmQueue)
    OBVIOUS
  <2>3. /\ j \in JvmEvent
        /\ Queued(jvmEvents) = Queued(jvmEvents)' \cup {j}
        /\ Apart(jvmEvents)'
        /\ \A e \in Queued(jvmEvents)' : e.id # j.id
        /\ \A k \in InRet \cup InReports \cup trashed : k.id # j.id
    BY <2>1, <2>2, PopJvm
  <2>4. RetJvmOnce' /\ InRet' = InRet \cup {j}
    <3>1. j # NoJvm
      BY <2>3, NoJvmAssumption
    <3> QED BY <1>1, <2>1, <2>2, <2>3, <3>1, PushPair
  <2> QED BY <1>1, <2>3, <2>4 DEF JvmApart, Available
<1>4. CASE ReportUnmatched
  <2>1. InLoop /\ PopBpfInto(ret, NoJvm)
    BY <1>4 DEF ReportUnmatched
  <2>2. RetJvmOnce' /\ InRet' = InRet
    BY <1>1, <2>1, PushPair
  <2>3. Queued(jvmEvents)' = Queued(jvmEvents) /\ Apart(jvmEvents)' = Apart(jvmEvents)
    BY <1>4 DEF ReportUnmatched, Queued, Apart
  <2> QED BY <1>1, <2>2, <2>3 DEF JvmApart, Available
<1> QED BY <1>2, <1>3, <1>4

LEMMA TrashesJvm ==
  ASSUME TypeOK, JvmApart, TrashJvm
  PROVE  /\ JvmApart' /\ InReports' = InReports /\ InRet' = InRet
         /\ trashed' = trashed \cup {Head(JvmQueue)}
         /\ Available = Available' \cup {Head(JvmQueue)} /\ Head(JvmQueue) \notin Available'
<1>1. /\ InLoop /\ JvmQueue # <<>> /\ jvmEvents' = Popped(jvmEvents, cur)
      /\ trashed' = trashed \cup {Head(JvmQueue)} /\ UNCHANGED <<ret, reported>>
  BY DEF TrashJvm, Popped, loopVars
<1>2. PICK j : j = Head(JvmQueue)
  OBVIOUS
<1>3. /\ j \in JvmEvent
      /\ Queued(jvmEvents) = Queued(jvmEvents)' \cup {j}
      /\ Apart(jvmEvents)'
      /\ \A e \in Queued(jvmEvents)' : e.id # j.id
      /\ \A k \in InRet \cup InReports \cup trashed : k.id # j.id
  BY <1>1, <1>2, PopJvm
<1>4. InRet' = InRet /\ InReports' = InReports /\ RetJvmOnce' = RetJvmOnce
  BY <1>1 DEF InRet, InReports, RetPairs, RetJvmOnce
<1>5. JvmApart'
  BY <1>1, <1>2, <1>3, <1>4 DEF JvmApart
<1>6. Available = Available' \cup {j} /\ j \notin Available'
  BY <1>3, <1>4 DEF Available
<1> QED BY <1>1, <1>2, <1>4, <1>5, <1>6

LEMMA ReturnsJvm ==
  ASSUME TypeOK, JvmApart, SweepReturn
  PROVE  /\ JvmApart' /\ trashed' = trashed
         /\ InRet' = {} /\ InReports' = InReports \cup InRet
         /\ Queued(jvmEvents)' = Queued(jvmEvents)
<1>1. /\ RetPairs' = {} /\ reported' = reported \cup RetPairs
      /\ ret' = <<>> /\ UNCHANGED <<jvmEvents, trashed>>
  BY DEF SweepReturn, RetPairs
<1>2. InRet' = {} /\ InReports' = InReports \cup InRet /\ RetJvmOnce'
  BY <1>1 DEF InRet, InReports, RetJvmOnce
<1>3. Queued(jvmEvents)' = Queued(jvmEvents) /\ Apart(jvmEvents)' = Apart(jvmEvents)
  BY <1>1 DEF Queued, Apart
<1>4. ASSUME NEW p \in reported', NEW q \in reported',
             p.jvm # NoJvm, q.jvm # NoJvm, p.jvm.id = q.jvm.id
      PROVE  p = q
  <2>1. CASE p \in RetPairs /\ q \in RetPairs
    BY <1>4, <2>1 DEF JvmApart, RetJvmOnce, RetPairs
  <2>2. CASE p \in reported /\ q \in reported
    BY <1>4, <2>2 DEF JvmApart
  <2>3. CASE ~(p \in RetPairs /\ q \in RetPairs) /\ ~(p \in reported /\ q \in reported)
    BY <1>1, <1>4, <2>3 DEF JvmApart, InRet, InReports
  <2> QED BY <2>1, <2>2, <2>3
<1>5. JvmApart'
  BY <1>1, <1>2, <1>3, <1>4 DEF JvmApart
<1> QED BY <1>1, <1>2, <1>3, <1>5

\* The other steps of sweep leave the JVM events where they are.
LEMMA LeavesJvm ==
  ASSUME UNCHANGED <<jvmEvents, ret, reported, trashed>>
  PROVE  /\ JvmApart' = JvmApart /\ Available' = Available /\ InRet' = InRet
         /\ InReports' = InReports /\ SeenJvm' = SeenJvm
BY DEF JvmApart, Apart, Queued, RetJvmOnce, InRet, InReports, RetPairs, Available, SeenJvm

\* No step of sweep makes or loses a JVM event, counting those it throws away.
LEMMA SweepJvm == TypeOK /\ JvmApart /\ Sweep => JvmApart' /\ SeenJvm' = SeenJvm
<1> SUFFICES ASSUME TypeOK, JvmApart, Sweep PROVE JvmApart' /\ SeenJvm' = SeenJvm
  OBVIOUS
<1>1. CASE SweepBegin \/ SweepTid \/ LeaveTid
  <2>1. UNCHANGED <<jvmEvents, ret, reported, trashed>>
    BY <1>1 DEF SweepBegin, SweepTid, LeaveTid, loopVars, TypeOK
  <2> QED BY <2>1, LeavesJvm
<1>2. CASE TakeOver \/ Match \/ ReportUnmatched
  <2>1. UNCHANGED <<reported, trashed>> /\ InReports' = InReports
    BY <1>2 DEF TakeOver, Match, ReportUnmatched, InReports
  <2>2. JvmApart' /\ Available' = Available
    BY <1>2, MovesJvm
  <2> QED BY <2>1, <2>2, SeenJvmIs DEF Available
<1>3. CASE TrashJvm
  BY <1>3, TrashesJvm, SeenJvmIs DEF Available
<1>4. CASE SweepReturn
  BY <1>4, ReturnsJvm, SeenJvmIs
<1> QED BY <1>1, <1>2, <1>3, <1>4 DEF Sweep

LEMMA AddJvm ==
  ASSUME TypeOK, JvmApart, NEW j \in JvmEvent, FillQueue(j), \A k \in SeenJvm : k.id # j.id
  PROVE  JvmApart' /\ SeenJvm' = SeenJvm \cup {j} /\ Available' = Available \cup {j}
<1>1. jvmEvents \in Queues(JvmEvent) /\ j.tid \in Tids
  BY DEF TypeOK, Queues, JvmEvent
<1>2. jvmEvents' = Pushed(jvmEvents, j.tid, j) /\ UNCHANGED <<ret, reported, trashed>>
  BY DEF FillQueue, Pushed, loopVars
<1>3. Queued(jvmEvents') = Queued(jvmEvents) \cup {j} /\ Apart(jvmEvents')
  BY <1>1, <1>2, AppendTo DEF JvmApart, SeenJvm
<1>4. /\ Queued(jvmEvents)' = Queued(jvmEvents') /\ Apart(jvmEvents)' = Apart(jvmEvents')
      /\ InRet' = InRet /\ InReports' = InReports /\ RetJvmOnce' = RetJvmOnce
  BY <1>2 DEF Queued, Apart, InRet, InReports, RetPairs, RetJvmOnce
<1>5. \A k \in InRet \cup InReports \cup trashed : k.id # j.id
  BY SeenJvmIs
<1> QED BY <1>2, <1>3, <1>4, <1>5, SeenJvmIs DEF JvmApart, Available

\* The ids of the JVM events seen were given out.
JvmIds == \A j \in SeenJvm : j.id \in 1..nJvm

LEMMA JvmOnceStep == TypeOK /\ JvmApart /\ JvmIds /\ [Next]_vars => JvmApart' /\ JvmIds'
<1> SUFFICES ASSUME TypeOK, JvmApart, JvmIds, [Next]_vars PROVE JvmApart' /\ JvmIds'
  OBVIOUS
<1>1. CASE ReceiveJvm
  <2>1. PICK t \in Tids, ts \in 0..(now + MaxStepBack) :
          FillQueue([id |-> nJvm + 1, tid |-> t, timestamp |-> ts])
    BY <1>1 DEF ReceiveJvm
  <2>2. PICK j : j = [id |-> nJvm + 1, tid |-> t, timestamp |-> ts]
    OBVIOUS
  <2>3. j \in JvmEvent /\ j.id = nJvm + 1 /\ nJvm \in Nat /\ nJvm' = nJvm + 1
    BY <2>1, <2>2 DEF TypeOK, JvmEvent, FillQueue
  <2>4. \A k \in SeenJvm : k.id # j.id
    BY <2>3 DEF JvmIds
  <2>5. JvmApart' /\ SeenJvm' = SeenJvm \cup {j}
    BY <2>1, <2>2, <2>3, <2>4, AddJvm
  <2> QED BY <2>3, <2>5 DEF JvmIds
<1>2. CASE Sweep
  <2>1. nJvm' = nJvm
    BY <1>2 DEF Sweep, SweepBegin, SweepTid, TakeOver, TrashJvm, Match, ReportUnmatched,
                LeaveTid, SweepReturn
  <2> QED BY <1>2, <2>1, SweepJvm DEF JvmIds
<1>3. CASE \/ BeginProcess \/ Quit \/ EndBpf \/ ReceiveBpf \/ Tick \/ StepBack
           \/ UNCHANGED vars
  <2>1. UNCHANGED <<jvmEvents, ret, reported, trashed, nJvm>>
    BY <1>3 DEF BeginProcess, Quit, EndBpf, ReceiveBpf, AddBpfEvent, Tick, StepBack, vars,
                loopVars
  <2> QED BY <2>1, LeavesJvm DEF JvmIds
<1> QED BY <1>1, <1>2, <1>3 DEF Next

LEMMA JvmOnceInit == Init => JvmApart /\ JvmIds
<1> SUFFICES ASSUME Init PROVE JvmApart /\ JvmIds
  OBVIOUS
<1>1. \A t \in Tids : Len(jvmEvents[t]) = 0
  BY DEF Init
<1>2. InRet = {} /\ InReports = {} /\ trashed = {} /\ Len(ret) = 0 /\ reported = {}
  BY DEF Init, InRet, InReports, RetPairs
<1>3. Queued(jvmEvents) = {}
  BY <1>1, QueuedIn DEF Elements
<1>4. Apart(jvmEvents) /\ RetJvmOnce
  BY <1>1, <1>2 DEF Apart, RetJvmOnce
<1> QED BY <1>2, <1>3, <1>4, SeenJvmIs DEF JvmApart, JvmIds

\* A JVM event is used once: it is never in two reports, and never matched
\* when it was reported or trashed.  So a take-over moves it.
THEOREM JvmEventsUsedOnce == Spec => []JvmUsedOnce
BY TypeCorrect, JvmOnceInit, JvmOnceStep, JvmApartMeans, PTL DEF Spec
----------------------------------------------------------------------------
(***************************************************************************)
(* EventStream implements BlockReport                                      *)
(***************************************************************************)

\* What the abstract specification calls pending.
Pending == Queued(bpfEvents) \cup {p.bpf : p \in RetPairs}

LEMMA PromiseInit == Init => Promise!Init
<1> SUFFICES ASSUME Init PROVE Promise!Init
  OBVIOUS
<1>1. \A t \in Tids : Len(bpfEvents[t]) = 0 /\ Len(jvmEvents[t]) = 0
  BY DEF Init
<1>2. Queued(bpfEvents) = {} /\ Queued(jvmEvents) = {}
  BY <1>1, QueuedIn DEF Elements
<1>3. RetPairs = {} /\ reported = {}
  BY DEF Init, RetPairs
<1> QED BY <1>2, <1>3 DEF Promise!Init

\* A step that leaves what is pending, available and reported alone.
LEMMA PromiseStutter ==
  ASSUME Pending' = Pending, Available' = Available, reported' = reported
  PROVE  [Promise!Next]_(Promise!vars)
BY DEF Promise!vars, Pending, Available, InRet

\* The return of a sweep is one round of reports.
LEMMA PromiseReport ==
  ASSUME TypeOK, PairInWindow, BpfApart, JvmApart, SweepReturn
  PROVE  Promise!Report
<1>1. /\ RetPairs' = {} /\ reported' = reported \cup RetPairs
      /\ UNCHANGED <<bpfEvents, jvmEvents>>
  BY DEF SweepReturn, RetPairs
<1>2. reported' \ reported = RetPairs
  BY <1>1 DEF BpfApart
<1>3. Queued(bpfEvents)' = Queued(bpfEvents) /\ Queued(jvmEvents)' = Queued(jvmEvents)
  BY <1>1 DEF Queued
<1>4. Pending' = Queued(bpfEvents) /\ Available' = Queued(jvmEvents)
  BY <1>1, <1>3 DEF Pending, Available, InRet
<1>5. \A pair \in RetPairs : Promise!InWindow(pair)
  BY DEF PairInWindow, InWindow, Promise!InWindow
<1>6. \A p, q \in RetPairs : p.bpf = q.bpf => p = q
  BY DEF BpfApart, RetPairs
<1>7. \A p, q \in RetPairs : p.jvm = q.jvm /\ p.jvm # NoJvm => p = q
  BY DEF JvmApart, RetJvmOnce, RetPairs
<1>8. /\ {pair.bpf : pair \in RetPairs} \subseteq Pending
      /\ Pending' = Pending \ {pair.bpf : pair \in RetPairs}
  BY <1>4 DEF Pending, BpfApart
<1>9. InRet \subseteq Available /\ Available' = Available \ InRet
  <2>1. \A j \in Queued(jvmEvents), k \in InRet : j.id # k.id
    BY DEF JvmApart
  <2> QED BY <1>4, <2>1 DEF Available
<1> QED
  BY <1>1, <1>2, <1>5, <1>6, <1>7, <1>8, <1>9
  DEF Promise!Report, Pending, Available, InRet

\* Every step is a step of BlockReport, or leaves its variables alone.
LEMMA PromiseStep ==
  ASSUME TypeOK, PairInWindow, BpfApart, BpfIds, JvmApart, JvmIds, [Next]_vars
  PROVE  [Promise!Next]_(Promise!vars)
<1>1. CASE ReceiveBpf
  <2>1. PICK t \in Tids, ts \in 0..now :
          AddBpfEvent([id |-> nBpf + 1, tid |-> t, timestamp |-> ts])
    BY <1>1 DEF ReceiveBpf
  <2>2. PICK b : b = [id |-> nBpf + 1, tid |-> t, timestamp |-> ts]
    OBVIOUS
  <2>3. b \in BpfEvent /\ b.id = nBpf + 1 /\ nBpf \in Nat
    BY <2>1, <2>2 DEF TypeOK, BpfEvent
  <2>4. \A e \in Bpfs : e.id # b.id
    <3>1. b.id \notin {e.id : e \in Bpfs}
      BY <2>3 DEF BpfIds
    <3> QED BY <3>1
  <2>5. UNCHANGED <<jvmEvents, ret, reported, trashed>>
    BY <2>1 DEF AddBpfEvent, loopVars
  <2>6. Queued(bpfEvents)' = Queued(bpfEvents) \cup {b} /\ RetPairs' = RetPairs
    <3>1. bpfEvents \in Queues(BpfEvent) /\ b.tid \in Tids
      BY <2>3 DEF TypeOK, Queues, BpfEvent
    <3>2. bpfEvents' = Pushed(bpfEvents, b.tid, b)
      BY <2>1, <2>2 DEF AddBpfEvent, Pushed
    <3>3. Queued(bpfEvents') = Queued(bpfEvents) \cup {b}
      BY <2>3, <3>1, <3>2, AppendTo
    <3> QED BY <2>5, <3>3 DEF Queued, RetPairs
  <2>7. Pending' = Pending \cup {b} /\ b \notin Pending /\ ~Promise!Reported(b)
    BY <2>4, <2>6 DEF Pending, Bpfs, Promise!Reported
  <2>8. Available' = Available
    BY <2>5, LeavesJvm
  <2>9. Promise!ReceiveBpf
    BY <2>5, <2>7, <2>8 DEF Promise!ReceiveBpf, Pending, Available, InRet
  <2> QED BY <2>9 DEF Promise!Next
<1>2. CASE ReceiveJvm
  <2>1. PICK t \in Tids, ts \in 0..(now + MaxStepBack) :
          FillQueue([id |-> nJvm + 1, tid |-> t, timestamp |-> ts])
    BY <1>2 DEF ReceiveJvm
  <2>2. PICK j : j = [id |-> nJvm + 1, tid |-> t, timestamp |-> ts]
    OBVIOUS
  <2>3. j \in JvmEvent /\ j.id = nJvm + 1 /\ nJvm \in Nat
    BY <2>1, <2>2 DEF TypeOK, JvmEvent
  <2>4. \A k \in SeenJvm : k.id # j.id
    BY <2>3 DEF JvmIds
  <2>5. Available' = Available \cup {j}
    BY <2>1, <2>2, <2>3, <2>4, AddJvm
  <2>6. j \notin Available /\ j \notin InReports /\ j # NoJvm
    BY <2>3, <2>4, SeenJvmIs, NoJvmAssumption DEF Available
  <2>7. reported' = reported /\ Pending' = Pending
    BY <2>1 DEF FillQueue, loopVars, Pending, Queued, RetPairs
  <2>8. \A pair \in reported : pair.jvm # j
    BY <2>6 DEF InReports
  <2>9. Promise!ReceiveJvm
    BY <2>5, <2>6, <2>7, <2>8 DEF Promise!ReceiveJvm, Pending, Available, InRet
  <2> QED BY <2>9 DEF Promise!Next
<1>3. CASE TrashJvm
  <2>1. /\ Available = Available' \cup {Head(JvmQueue)}
        /\ Head(JvmQueue) \notin Available'
    BY <1>3, TrashesJvm
  <2>2. reported' = reported /\ Pending' = Pending
    BY <1>3 DEF TrashJvm, loopVars, Pending, Queued, RetPairs
  <2>3. Promise!Discard
    BY <2>1, <2>2 DEF Promise!Discard, Pending, Available, InRet
  <2> QED BY <2>3 DEF Promise!Next
<1>4. CASE TakeOver \/ Match \/ ReportUnmatched
  <2>1. Bpfs' = Bpfs /\ BpfApart'
    BY <1>4, SweepApart DEF Sweep
  <2>2. reported' = reported
    BY <1>4 DEF TakeOver, Match, ReportUnmatched
  <2>3. Pending' = Pending
    BY <2>1, <2>2 DEF Pending, Bpfs, BpfApart
  <2> QED BY <1>4, <2>2, <2>3, MovesJvm, PromiseStutter
<1>5. CASE SweepReturn
  BY <1>5, PromiseReport DEF Promise!Next
<1>6. CASE \/ BeginProcess \/ Quit \/ EndBpf \/ SweepBegin \/ SweepTid \/ LeaveTid
           \/ Tick \/ StepBack \/ UNCHANGED vars
  <2>1. UNCHANGED <<bpfEvents, jvmEvents, ret, reported, trashed>>
    BY <1>6 DEF BeginProcess, Quit, EndBpf, SweepBegin, SweepTid, LeaveTid, Tick, StepBack,
                vars, loopVars, TypeOK
  <2>2. Pending' = Pending /\ Available' = Available
    BY <2>1, LeavesJvm DEF Pending, Queued, RetPairs
  <2> QED BY <2>1, <2>2, PromiseStutter
<1> QED BY <1>1, <1>2, <1>3, <1>4, <1>5, <1>6 DEF Next, Sweep

\* EventStream implements BlockReport: whatever arrives, and however the clock
\* is set, each return of sweep makes one round of reports that uses up block
\* events and JVM events that were there and pairs them within the window.
THEOREM PromiseKept == Spec => KeepsPromise
<1>1. Init => Promise!Init
  BY PromiseInit
<1>2. /\ TypeOK /\ PairInWindow /\ BpfApart /\ BpfIds /\ JvmApart /\ JvmIds
      /\ [Next]_vars
      => [Promise!Next]_(Promise!vars)
  BY PromiseStep
<1> QED
  BY <1>1, <1>2, TypeCorrect, PairsInWindow, BpfOnceInit, BpfOnceStep, JvmOnceInit,
     JvmOnceStep, PTL DEF Spec, KeepsPromise, Promise!Spec
----------------------------------------------------------------------------
(***************************************************************************)
(* With a wall clock that is not set back: ages do not wrap, and a missing *)
(* stack has an explanation                                                *)
(***************************************************************************)

\* Steps of sweep only take from the queues.
LEMMA SweepQueues ==
  ASSUME TypeOK, Sweep, NEW t \in Tids
  PROVE  /\ Elements(bpfEvents'[t]) \subseteq Elements(bpfEvents[t])
         /\ Elements(jvmEvents'[t]) \subseteq Elements(jvmEvents[t])
<1>1. ASSUME InLoop, bpfEvents' = [bpfEvents EXCEPT ![cur] = Tail(@)]
      PROVE  Elements(bpfEvents'[t]) \subseteq Elements(bpfEvents[t])
  <2>1. /\ cur \in Tids /\ bpfEvents \in [Tids -> Seq(BpfEvent)]
        /\ bpfEvents[cur] \in Seq(BpfEvent) /\ bpfEvents[cur] # <<>>
    BY <1>1, InLoopType DEF TypeOK
  <2>2. Elements(bpfEvents[cur]) = Elements(Tail(bpfEvents[cur])) \cup {Head(bpfEvents[cur])}
    BY <2>1, TailElements
  <2> QED BY <1>1, <2>1, <2>2
<1>2. ASSUME InLoop, JvmQueue # <<>>, jvmEvents' = [jvmEvents EXCEPT ![cur] = Tail(@)]
      PROVE  Elements(jvmEvents'[t]) \subseteq Elements(jvmEvents[t])
  <2>1. /\ cur \in Tids /\ jvmEvents \in [Tids -> Seq(JvmEvent)]
        /\ jvmEvents[cur] \in Seq(JvmEvent) /\ jvmEvents[cur] # <<>>
    BY <1>2, InLoopType DEF TypeOK, JvmQueue
  <2>2. Elements(jvmEvents[cur]) = Elements(Tail(jvmEvents[cur])) \cup {Head(jvmEvents[cur])}
    BY <2>1, TailElements
  <2> QED BY <1>2, <2>1, <2>2
<1>3. /\ \/ UNCHANGED bpfEvents
         \/ InLoop /\ bpfEvents' = [bpfEvents EXCEPT ![cur] = Tail(@)]
      /\ \/ UNCHANGED jvmEvents
         \/ InLoop /\ JvmQueue # <<>> /\ jvmEvents' = [jvmEvents EXCEPT ![cur] = Tail(@)]
  BY DEF Sweep, SweepBegin, SweepTid, TakeOver, TrashJvm, Match, ReportUnmatched, LeaveTid,
         SweepReturn, PopBpfInto
<1> QED BY <1>1, <1>2, <1>3

\* An event is in the queue of its thread.
OwnQueues ==
  \A t \in Tids : /\ \A b \in Elements(bpfEvents[t]) : b.tid = t
                  /\ \A j \in Elements(jvmEvents[t]) : j.tid = t

\* No event is of the future, nor of the future of the running sweep.
PastInv ==
  /\ sweepNow <= now
  /\ \A b \in Queued(bpfEvents) : b.timestamp <= now
  /\ pc = "sweep" => \A b \in Queued(bpfEvents) : b.timestamp <= sweepNow

LEMMA OwnQueuesStep == TypeOK /\ OwnQueues /\ [Next]_vars => OwnQueues'
<1> SUFFICES ASSUME TypeOK, OwnQueues, [Next]_vars PROVE OwnQueues'
  OBVIOUS
<1>1. CASE ReceiveBpf
  <2>1. PICK t \in Tids, ts \in 0..now :
          AddBpfEvent([id |-> nBpf + 1, tid |-> t, timestamp |-> ts])
    BY <1>1 DEF ReceiveBpf
  <2>2. PICK b : b = [id |-> nBpf + 1, tid |-> t, timestamp |-> ts]
    OBVIOUS
  <2>3. /\ b \in BpfEvent /\ b.tid = t /\ UNCHANGED jvmEvents
        /\ bpfEvents' = [bpfEvents EXCEPT ![t] = Append(@, b)]
        /\ bpfEvents \in [Tids -> Seq(BpfEvent)]
    BY <2>1, <2>2 DEF TypeOK, BpfEvent, AddBpfEvent
  <2>4. \A u \in Tids : Elements(bpfEvents'[u])
          \subseteq Elements(bpfEvents[u]) \cup (IF u = t THEN {b} ELSE {})
    BY <2>3, AppendElements
  <2> QED BY <2>3, <2>4 DEF OwnQueues
<1>2. CASE ReceiveJvm
  <2>1. PICK t \in Tids, ts \in 0..(now + MaxStepBack) :
          FillQueue([id |-> nJvm + 1, tid |-> t, timestamp |-> ts])
    BY <1>2 DEF ReceiveJvm
  <2>2. PICK j : j = [id |-> nJvm + 1, tid |-> t, timestamp |-> ts]
    OBVIOUS
  <2>3. /\ j \in JvmEvent /\ j.tid = t /\ UNCHANGED bpfEvents
        /\ jvmEvents' = [jvmEvents EXCEPT ![t] = Append(@, j)]
        /\ jvmEvents \in [Tids -> Seq(JvmEvent)]
    BY <2>1, <2>2 DEF TypeOK, JvmEvent, FillQueue
  <2>4. \A u \in Tids : Elements(jvmEvents'[u])
          \subseteq Elements(jvmEvents[u]) \cup (IF u = t THEN {j} ELSE {})
    BY <2>3, AppendElements
  <2> QED BY <2>3, <2>4 DEF OwnQueues
<1>3. CASE Sweep
  BY <1>3, SweepQueues DEF OwnQueues
<1>4. CASE \/ BeginProcess \/ Quit \/ EndBpf \/ Tick \/ StepBack \/ UNCHANGED vars
  BY <1>4 DEF BeginProcess, Quit, EndBpf, Tick, StepBack, vars, OwnQueues
<1> QED BY <1>1, <1>2, <1>3, <1>4 DEF Next

LEMMA PastStep ==
  ASSUME MaxStepBack = 0, TypeOK, PastInv, [Next]_vars
  PROVE  PastInv'
<1>0. now \in Nat /\ sweepNow \in Nat /\ \A b \in Queued(bpfEvents) : b.timestamp \in Nat
  <2>1. \A t \in Tids : Elements(bpfEvents[t]) \subseteq BpfEvent
    BY DEF TypeOK, Elements
  <2> QED BY <2>1, QueuedIn DEF TypeOK, BpfEvent
<1>1. CASE ReceiveBpf
  <2>1. PICK t \in Tids, ts \in 0..now :
          AddBpfEvent([id |-> nBpf + 1, tid |-> t, timestamp |-> ts])
    BY <1>1 DEF ReceiveBpf
  <2>2. PICK b : b = [id |-> nBpf + 1, tid |-> t, timestamp |-> ts]
    OBVIOUS
  <2>3. b \in BpfEvent /\ b.timestamp \in Nat /\ b.timestamp <= now
    BY <2>1, <2>2 DEF TypeOK, BpfEvent
  <2>4. Queued(bpfEvents)' \subseteq Queued(bpfEvents) \cup {b}
    BY <2>1, <2>2, <2>3, QueuedAppend
  <2>5. UNCHANGED <<now, sweepNow, pc>> /\ pc = "bpf"
    BY <2>1 DEF AddBpfEvent, loopVars
  <2> QED BY <2>3, <2>4, <2>5 DEF PastInv
<1>2. CASE SweepBegin
  BY <1>0, <1>2 DEF SweepBegin, PastInv, Queued
<1>3. CASE Sweep /\ ~SweepBegin
  <2>1. Queued(bpfEvents') \subseteq Queued(bpfEvents)
    BY <1>3, SweepQueues, QueuedIn
  <2>2. UNCHANGED <<now, sweepNow>> /\ pc = "sweep"
    BY <1>3 DEF Sweep, SweepTid, TakeOver, TrashJvm, Match, ReportUnmatched, LeaveTid,
                SweepReturn, InLoop, loopVars
  <2> QED BY <2>1, <2>2 DEF PastInv, Queued
<1>4. CASE BeginProcess \/ Quit \/ EndBpf \/ ReceiveJvm \/ UNCHANGED vars
  <2>1. UNCHANGED <<now, sweepNow, bpfEvents>> /\ (pc' = "sweep" => pc = "sweep")
    BY <1>4 DEF BeginProcess, Quit, EndBpf, ReceiveJvm, FillQueue, vars, loopVars
  <2> QED BY <2>1 DEF PastInv, Queued
<1>5. CASE Tick
  BY <1>0, <1>5 DEF Tick, loopVars, PastInv, Queued
<1>6. CASE StepBack
  BY <1>6 DEF StepBack
<1> QED BY <1>1, <1>2, <1>3, <1>4, <1>5, <1>6 DEF Next, Sweep

LEMMA PastInit == Init => PastInv /\ OwnQueues
<1> SUFFICES ASSUME Init PROVE PastInv /\ OwnQueues
  OBVIOUS
<1>1. \A t \in Tids : Elements(bpfEvents[t]) = {} /\ Elements(jvmEvents[t]) = {}
  <2>1. \A t \in Tids : Len(bpfEvents[t]) = 0 /\ Len(jvmEvents[t]) = 0
    BY DEF Init
  <2>2. ASSUME NEW q, Len(q) = 0 PROVE Elements(q) = {}
    BY <2>2 DEF Elements
  <2> QED BY <2>1, <2>2
<1>2. Queued(bpfEvents) = {}
  BY <1>1, QueuedIn
<1> QED BY <1>1, <1>2 DEF Init, PastInv, OwnQueues

LEMMA FrontIsPast == TypeOK /\ PastInv => AgeNeverWraps
<1> SUFFICES ASSUME TypeOK, PastInv, InLoop PROVE Front.timestamp <= sweepNow
  BY DEF AgeNeverWraps
<1>1. Front \in Elements(bpfEvents[cur]) /\ cur \in Tids
  BY InLoopType, TailElements DEF Front
<1> QED BY <1>1, QueuedIn DEF PastInv, InLoop

\* If the wall clock is never set back, the unsigned subtraction with which
\* sweep measures the age of a block event does not wrap.
THEOREM AgesDoNotWrap == MaxStepBack = 0 => (Spec => []AgeNeverWraps)
<1>1. ASSUME MaxStepBack = 0 PROVE Spec => []AgeNeverWraps
  <2>1. TypeOK /\ PastInv /\ [Next]_vars => PastInv'
    BY <1>1, PastStep
  <2> QED BY <2>1, PastInit, FrontIsPast, TypeCorrect, PTL DEF Spec
<1> QED BY <1>1

\* Why the block event of a pair may have no JVM event: it is too old, a JVM
\* event too late for it was seen, or a later one of the pairs took its own.
GaveUp(p) == p.bpf.timestamp + GiveUp <= now
TooLateSeen(p) ==
  \E j \in SeenJvm : j.tid = p.bpf.tid /\ p.bpf.timestamp + Threshold <= j.timestamp
TakenFrom(p, q) ==
  q.jvm # NoJvm /\ InWindow(p.bpf, q.jvm) /\ p.bpf.timestamp < q.bpf.timestamp
Explained(p, pairs) == GaveUp(p) \/ TooLateSeen(p) \/ \E q \in pairs : TakenFrom(p, q)

\* MissingStackExplained, and the same for the result of a running sweep.
ExplainedInv ==
  /\ \A p \in reported : p.jvm = NoJvm => Explained(p, reported)
  /\ \A p \in RetPairs : p.jvm = NoJvm => Explained(p, RetPairs)

\* An explanation is not lost when time passes, when JVM events are seen and
\* when more pairs are made.
LEMMA StillExplained ==
  ASSUME TypeOK, now' \in Nat, now <= now', SeenJvm \subseteq SeenJvm',
         NEW pairs, NEW more, pairs \subseteq more, NEW p \in Pair, Explained(p, pairs)
  PROVE  Explained(p, more)'
<1>1. p.bpf.timestamp \in Nat /\ now \in Nat
  BY DEF TypeOK, Pair, BpfEvent
<1>2. CASE GaveUp(p)
  <2>1. p.bpf.timestamp + GiveUp <= now'
    BY <1>1, <1>2, ConstantAssumption DEF GaveUp
  <2> QED BY <2>1 DEF Explained, GaveUp
<1>3. CASE TooLateSeen(p)
  BY <1>3 DEF Explained, TooLateSeen
<1>4. CASE \E q \in pairs : TakenFrom(p, q)
  BY <1>4 DEF Explained, TakenFrom, InWindow
<1> QED BY <1>2, <1>3, <1>4 DEF Explained

\* The pairs that are there keep their explanations.
LEMMA ExplainedKept ==
  ASSUME TypeOK, ExplainedInv, now' \in Nat, now <= now', SeenJvm \subseteq SeenJvm',
         UNCHANGED <<ret, reported>>
  PROVE  ExplainedInv'
<1>1. RetPairs' = RetPairs /\ RetPairs \subseteq Pair /\ reported \subseteq Pair
  BY DEF RetPairs, TypeOK
<1>2. \A p \in reported : p.jvm = NoJvm => Explained(p, reported)'
  BY <1>1, StillExplained DEF ExplainedInv
<1>3. \A p \in RetPairs : p.jvm = NoJvm => Explained(p, RetPairs)'
  BY <1>1, StillExplained DEF ExplainedInv
<1> QED BY <1>1, <1>2, <1>3 DEF ExplainedInv

\* A pair without a JVM event is made only with an explanation.
LEMMA UnmatchedExplained ==
  ASSUME TypeOK, PastInv, OwnQueues, ReportUnmatched
  PROVE  GaveUp([bpf |-> Front, jvm |-> NoJvm]) \/ TooLateSeen([bpf |-> Front, jvm |-> NoJvm])
<1>1. /\ InLoop /\ cur \in Tids /\ Front \in BpfEvent /\ Front \in Elements(bpfEvents[cur])
      /\ Front.timestamp \in Nat /\ now \in Nat /\ sweepNow \in Nat
  <2>1. InLoop /\ cur \in Tids /\ Front \in BpfEvent /\ now \in Nat /\ sweepNow \in Nat
    BY InLoopType DEF ReportUnmatched, TypeOK
  <2>2. Front \in Elements(bpfEvents[cur])
    BY <2>1, InLoopType, TailElements DEF Front
  <2> QED BY <2>1, <2>2 DEF BpfEvent
<1>2. CASE JvmQueue # <<>>
  <2>1. PICK j : j = Head(JvmQueue)
    OBVIOUS
  <2>2. j \in JvmEvent /\ j \in Elements(jvmEvents[cur])
    BY <1>1, <1>2, <2>1, InLoopType, HeadTailType, TailElements DEF JvmQueue
  <2>3. j \in SeenJvm /\ j.tid = Front.tid
    <3>1. j \in Queued(jvmEvents)
      BY <1>1, <2>2, QueuedIn
    <3> QED BY <1>1, <2>2, <3>1 DEF OwnQueues, SeenJvm
  <2>4. ~(TsDiff(j) < Threshold)
    BY <1>2, <2>1 DEF ReportUnmatched, FindsNone, Close
  <2>5. Front.timestamp + Threshold <= j.timestamp
    BY <1>1, <2>2, <2>4, ConstantAssumption DEF TsDiff, JvmEvent
  <2> QED BY <2>3, <2>5 DEF TooLateSeen
<1>3. CASE JvmQueue = <<>>
  <2>1. Elapsed >= GiveUp
    BY <1>3 DEF ReportUnmatched, GivesUp
  <2>2. Front.timestamp <= sweepNow /\ sweepNow <= now
    BY <1>1, FrontIsPast DEF AgeNeverWraps, PastInv
  <2>3. Front.timestamp + GiveUp <= now
    BY <1>1, <2>1, <2>2, ConstantAssumption DEF Elapsed
  <2> QED BY <2>3 DEF GaveUp
<1> QED BY <1>2, <1>3

\* The pair that a take-over robs is explained by the pair that it makes; and
\* so are the pairs that the robbed pair explained.
LEMMA TakeOverExplained ==
  ASSUME TypeOK, PairInWindow, ExplainedInv, SeenJvm' = SeenJvm, TakeOver
  PROVE  \A p \in RetPairs' : p.jvm = NoJvm => Explained(p, RetPairs)'
<1>1. PICK r \in Seq(Pair) : r = [ret EXCEPT ![Len(ret)].jvm = NoJvm]
  BY TakeOverType DEF TakeOver
<1>2. PICK j : j = LastPair.jvm
  OBVIOUS
<1>3. PICK old : old = ret[Len(ret)]
  OBVIOUS
<1>4. PICK new : new = [bpf |-> Front, jvm |-> j]
  OBVIOUS
<1>5. /\ j \in JvmEvent /\ j # NoJvm /\ Len(ret) \in 1..Len(ret) /\ old.jvm = j
      /\ old \in RetPairs /\ InLoop /\ PopBpfInto(r, j) /\ ret \in Seq(Pair) /\ old \in Pair
  BY <1>1, <1>2, <1>3, TakeOverType
  DEF TakeOver, CanTakeOver, TypeOK, LastPair, RetPairs
<1>6. /\ Len(r) = Len(ret) /\ r[Len(ret)].jvm = NoJvm /\ r[Len(ret)].bpf = old.bpf
      /\ \A i \in 1..Len(ret) : i # Len(ret) => r[i] = ret[i]
  BY <1>1, <1>3, <1>5 DEF Pair
<1>7. RetPairs' = Elements(r) \cup {new} /\ now' = now
  BY <1>4, <1>5, PushedPairs DEF TakeOver
<1>8. /\ Front.timestamp \in Nat /\ old.bpf.timestamp \in Nat /\ j.timestamp \in Nat
      /\ old.bpf.timestamp < Front.timestamp
      /\ InWindow(old.bpf, j)
  <2>1. Front.timestamp \in Nat /\ old.bpf.timestamp \in Nat /\ j.timestamp \in Nat
    BY <1>5, InLoopType DEF Pair, BpfEvent, JvmEvent
  <2>2. j.timestamp - old.bpf.timestamp > j.timestamp - Front.timestamp
    BY <1>2, <1>3 DEF TakeOver, CanTakeOver, LastPair, TsDiff
  <2>3. InWindow(old.bpf, j)
    BY <1>5 DEF PairInWindow
  <2> QED BY <2>1, <2>2, <2>3
<1>9. \A q \in RetPairs : q = old \/ q.jvm = NoJvm \/ q \in RetPairs'
  BY <1>3, <1>6, <1>7 DEF RetPairs, Elements
<1>10. ASSUME NEW p \in RetPairs, p.jvm = NoJvm
       PROVE  Explained(p, RetPairs)'
  <2>1. Explained(p, RetPairs) /\ p.bpf.timestamp \in Nat
    <3>1. p \in Pair
      BY DEF RetPairs, TypeOK
    <3> QED BY <1>10, <3>1 DEF ExplainedInv, Pair, BpfEvent
  <2>2. CASE GaveUp(p) \/ TooLateSeen(p)
    BY <1>7, <2>2 DEF Explained, GaveUp, TooLateSeen
  <2>3. CASE \E q \in RetPairs : TakenFrom(p, q)
    <3>1. PICK q \in RetPairs : TakenFrom(p, q)
      BY <2>3
    <3>2. CASE q = old
      <4>1. TakenFrom(p, new) /\ new \in RetPairs'
        BY <1>4, <1>5, <1>7, <1>8, <2>1, <3>1, <3>2 DEF TakenFrom
      <4> QED BY <4>1 DEF Explained, TakenFrom, InWindow
    <3>3. CASE q # old
      <4>1. q \in RetPairs'
        BY <1>9, <3>1, <3>3 DEF TakenFrom
      <4> QED BY <3>1, <4>1 DEF Explained, TakenFrom, InWindow
    <3> QED BY <3>2, <3>3
  <2> QED BY <2>1, <2>2, <2>3 DEF Explained
<1>11. ASSUME NEW p, p.bpf = old.bpf, p.jvm = NoJvm
       PROVE  Explained(p, RetPairs)'
  <2>1. TakenFrom(p, new) /\ new \in RetPairs'
    BY <1>4, <1>5, <1>7, <1>8, <1>11 DEF TakenFrom
  <2> QED BY <2>1 DEF Explained, TakenFrom, InWindow
<1>12. ASSUME NEW p \in RetPairs', p.jvm = NoJvm
       PROVE  p \in RetPairs \/ p.bpf = old.bpf
  <2>1. p # new
    BY <1>4, <1>5, <1>12
  <2>2. PICK i \in 1..Len(r) : p = r[i]
    BY <1>7, <2>1 DEF Elements
  <2> QED BY <1>6, <2>2 DEF RetPairs
<1> QED BY <1>10, <1>11, <1>12

LEMMA ExplainedStep ==
  ASSUME MaxStepBack = 0, TypeOK, PairInWindow, JvmApart, PastInv, OwnQueues, ExplainedInv,
         [Next]_vars
  PROVE  ExplainedInv'
<1>0. /\ now \in Nat /\ RetPairs \subseteq Pair /\ reported \subseteq Pair
  BY DEF TypeOK, RetPairs
<1>1. CASE ReceiveJvm
  <2>1. UNCHANGED <<ret, reported, now, trashed>>
    BY <1>1 DEF ReceiveJvm, FillQueue, loopVars
  <2>2. \A t \in Tids : Elements(jvmEvents[t]) \subseteq Elements(jvmEvents'[t])
    <3>1. PICK t \in Tids, ts \in 0..(now + MaxStepBack) :
            FillQueue([id |-> nJvm + 1, tid |-> t, timestamp |-> ts])
      BY <1>1 DEF ReceiveJvm
    <3>2. PICK j : j = [id |-> nJvm + 1, tid |-> t, timestamp |-> ts]
      OBVIOUS
    <3>3. /\ j \in JvmEvent /\ jvmEvents' = [jvmEvents EXCEPT ![t] = Append(@, j)]
          /\ jvmEvents \in [Tids -> Seq(JvmEvent)]
      BY <3>1, <3>2 DEF TypeOK, JvmEvent, FillQueue
    <3> QED BY <3>3, AppendElements
  <2>3. SeenJvm \subseteq SeenJvm'
    <3>1. Queued(jvmEvents) \subseteq Queued(jvmEvents')
      BY <2>2, QueuedIn
    <3> QED BY <2>1, <3>1 DEF SeenJvm, Queued, RetPairs
  <2> QED BY <1>0, <2>1, <2>3, ExplainedKept
<1>2. CASE \/ BeginProcess \/ Quit \/ ReceiveBpf \/ EndBpf \/ Tick \/ StepBack
           \/ SweepBegin \/ SweepTid \/ LeaveTid \/ UNCHANGED vars
  <2>1. UNCHANGED <<ret, reported, jvmEvents, trashed>>
    BY <1>2 DEF BeginProcess, Quit, ReceiveBpf, AddBpfEvent, EndBpf, Tick, StepBack,
                SweepBegin, SweepTid, LeaveTid, vars, loopVars, TypeOK
  <2>2. now' \in Nat /\ now <= now'
    <3>1. ~StepBack
      BY <1>0 DEF StepBack
    <3>2. now' = now \/ now' = now + 1
      BY <1>2, <3>1 DEF BeginProcess, Quit, ReceiveBpf, AddBpfEvent, EndBpf, Tick, SweepBegin,
                        SweepTid, LeaveTid, vars, loopVars
    <3> QED BY <1>0, <3>2
  <2> QED BY <2>1, <2>2, LeavesJvm, ExplainedKept
<1>3. CASE TrashJvm
  <2>1. UNCHANGED <<ret, reported, now>> /\ SeenJvm' = SeenJvm
    BY <1>3, SweepJvm DEF TrashJvm, Sweep, loopVars
  <2> QED BY <1>0, <2>1, ExplainedKept
<1>4. CASE TakeOver \/ Match \/ ReportUnmatched
  <2>1. UNCHANGED <<reported, now>> /\ SeenJvm' = SeenJvm
    BY <1>4, SweepJvm DEF TakeOver, Match, ReportUnmatched, Sweep
  <2>2. \A p \in reported : p.jvm = NoJvm => Explained(p, reported)'
    BY <1>0, <2>1, StillExplained DEF ExplainedInv
  <2>3. CASE TakeOver
    BY <2>1, <2>2, <2>3, TakeOverExplained DEF ExplainedInv
  <2>4. CASE Match
    <3>1. JvmQueue # <<>> /\ Head(JvmQueue) \in JvmEvent
      BY <2>4, InLoopType, HeadTailType DEF Match, JvmQueue
    <3>2. RetPairs' = RetPairs \cup {[bpf |-> Front, jvm |-> Head(JvmQueue)]}
      BY <2>4, <3>1, PushedPairs DEF Match, TypeOK, RetPairs, Elements
    <3>3. \A p \in RetPairs : p.jvm = NoJvm => Explained(p, RetPairs)'
      BY <1>0, <2>1, <3>2, StillExplained DEF ExplainedInv
    <3>4. Head(JvmQueue) # NoJvm
      BY <3>1, NoJvmAssumption
    <3> QED BY <2>1, <2>2, <3>2, <3>3, <3>4 DEF ExplainedInv
  <2>5. CASE ReportUnmatched
    <3>1. RetPairs' = RetPairs \cup {[bpf |-> Front, jvm |-> NoJvm]}
      BY <2>5, PushedPairs DEF ReportUnmatched, TypeOK, RetPairs, Elements
    <3>2. \A p \in RetPairs : p.jvm = NoJvm => Explained(p, RetPairs)'
      BY <1>0, <2>1, <3>1, StillExplained DEF ExplainedInv
    <3>3. PICK new : new = [bpf |-> Front, jvm |-> NoJvm]
      OBVIOUS
    <3>4. GaveUp(new) \/ TooLateSeen(new)
      BY <2>5, <3>3, UnmatchedExplained
    <3>5. Explained(new, RetPairs)'
      BY <2>1, <3>4 DEF Explained, GaveUp, TooLateSeen
    <3> QED BY <2>1, <2>2, <3>1, <3>2, <3>3, <3>5 DEF ExplainedInv
  <2> QED BY <1>4, <2>3, <2>4, <2>5
<1>5. CASE SweepReturn
  <2>1. /\ RetPairs' = {} /\ reported' = reported \cup RetPairs /\ now' = now
        /\ SeenJvm' = SeenJvm
    BY <1>5, SweepJvm DEF SweepReturn, RetPairs, Sweep
  <2>2. \A p \in reported' : p.jvm = NoJvm => Explained(p, reported)'
    BY <1>0, <2>1, StillExplained DEF ExplainedInv
  <2> QED BY <2>1, <2>2 DEF ExplainedInv
<1> QED BY <1>1, <1>2, <1>3, <1>4, <1>5 DEF Next, Sweep

\* If the wall clock is never set back, a block is reported without a JVM
\* stack only when it is as old as the give-up time, when a JVM event of its
\* thread too late for it was seen, or when a later block took its stack.
THEOREM MissingStacksExplained == MaxStepBack = 0 => (Spec => []MissingStackExplained)
<1>1. ASSUME MaxStepBack = 0 PROVE Spec => []MissingStackExplained
  <2>1. TypeOK /\ PastInv /\ [Next]_vars => PastInv'
    BY <1>1, PastStep
  <2>2. /\ TypeOK /\ PairInWindow /\ JvmApart /\ PastInv /\ OwnQueues /\ ExplainedInv
        /\ [Next]_vars
        => ExplainedInv'
    BY <1>1, ExplainedStep
  <2>3. Init => ExplainedInv
    BY DEF Init, ExplainedInv, RetPairs
  <2>4. ExplainedInv => MissingStackExplained
    BY DEF ExplainedInv, MissingStackExplained, Explained, GaveUp, TooLateSeen, TakenFrom
  <2> QED
    BY <2>1, <2>2, <2>3, <2>4, PastInit, OwnQueuesStep, TypeCorrect, PairsInWindow,
       JvmOnceInit, JvmOnceStep, PTL DEF Spec
<1> QED BY <1>1
=============================================================================
