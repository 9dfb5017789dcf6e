---------------------------- MODULE EventStream ----------------------------
(***************************************************************************)
(* The matching engine of JBM's control program (jbm/src/lib.rs): the two  *)
(* per-thread queues of EventStream, filled by add_bpf_event and by        *)
(* fill_queue, and sweep(), which pairs the block events with the JVM      *)
(* events and hands the pairs to main().                                   *)
(*                                                                         *)
(* process() is sequential, so pc orders its phases.  Each iteration of    *)
(* sweep's loops is one action: the branch taken is the first in source    *)
(* order whose condition holds.  Events arrive with any timestamp up to    *)
(* the present: this module says nothing of where they come from.          *)
(***************************************************************************)
EXTENDS Integers, Sequences

CONSTANTS
  Tids,          \* the thread ids of the target JVM
  NoTid,         \* not a thread id: sweep is between two threads
  NoJvm,         \* the None of Option<JvmEvent>
  Threshold,     \* EVENT_MATCH_TIME_THRESHOLD_TIME, in ms
  GiveUp,        \* EVENT_MATCH_GIVEUP_TIME, in ms
  U64,           \* 2^64: unsigned subtraction wraps modulo this
  MaxBpf,        \* bound: block events received
  MaxJvm,        \* bound: JVM events received
  MaxNow,        \* bound: the wall clock, in ms
  LastArrival,   \* bound: no event is received after this time
  MaxStepBack    \* bound: how far the wall clock is ever set back (0: never)

ASSUME ConstantAssumption ==
  /\ NoTid \notin Tids
  /\ Threshold \in Nat
  /\ GiveUp \in Nat
  /\ U64 \in Nat
  /\ MaxBpf \in Nat /\ MaxJvm \in Nat
  /\ MaxNow \in Nat /\ LastArrival \in Nat /\ MaxStepBack \in Nat

\* id tells events apart; timestamps are wall-clock milliseconds.  The comm,
\* the duration and the frames an event carries play no part in matching.
BpfEvent == [id : Nat \ {0}, tid : Tids, timestamp : Nat]
JvmEvent == [id : Nat \ {0}, tid : Tids, timestamp : Nat]
Pair == [bpf : BpfEvent, jvm : JvmEvent \cup {NoJvm}]

ASSUME NoJvmAssumption == NoJvm \notin JvmEvent

VARIABLES
  now,         \* time_now()
  pc,          \* where main() and process() stand
  bpfEvents,   \* EventStream.bpf_events; an absent key is an empty queue
  jvmEvents,   \* EventStream.jvm_events; an absent key is an empty queue
  ret,         \* sweep's ret
  todo,        \* the tids sweep has still to visit
  cur,         \* the tid sweep is at
  sweepNow,    \* sweep's now
  reported,    \* history: the pairs sweep has returned
  trashed,     \* history: the JVM events thrown away
  nBpf, nJvm   \* history: how many events were received

loopVars == <<ret, todo, cur, sweepNow>>
vars == <<now, pc, bpfEvents, jvmEvents, loopVars, reported, trashed, nBpf, nJvm>>

Init ==
  /\ now = 0
  /\ pc = "main"
  /\ bpfEvents = [t \in Tids |-> <<>>]
  /\ jvmEvents = [t \in Tids |-> <<>>]
  /\ ret = <<>>
  /\ todo = {}
  /\ cur = NoTid
  /\ sweepNow = 0
  /\ reported = {}
  /\ trashed = {}
  /\ nBpf = 0
  /\ nJvm = 0
----------------------------------------------------------------------------
(***************************************************************************)
(* main() and the two filling phases of process()                          *)
(***************************************************************************)

\* main() calls process() again, which starts with the perf buffers.
BeginProcess ==
  /\ pc = "main"
  /\ pc' = "bpf"
  /\ UNCHANGED <<now, bpfEvents, jvmEvents, loopVars, reported, trashed, nBpf, nJvm>>

\* Ctrl-C or the end of the target, noticed at the head of main()'s loop; or
\* an error that `?` carries out of process() through main().  What is still
\* queued is dropped unreported.
Quit ==
  /\ pc \in {"main", "bpf", "jvm"}
  /\ pc' = "exited"
  /\ UNCHANGED <<now, bpfEvents, jvmEvents, loopVars, reported, trashed, nBpf, nJvm>>

AddBpfEvent(b) ==
  /\ pc = "bpf"
  /\ bpfEvents' = [bpfEvents EXCEPT ![b.tid] = Append(@, b)]
  /\ nBpf' = nBpf + 1
  /\ UNCHANGED <<now, pc, jvmEvents, loopVars, reported, trashed, nJvm>>

\* All perf buffers are read or timed out: process() turns to the JVM events.
EndBpf ==
  /\ pc = "bpf"
  /\ pc' = "jvm"
  /\ UNCHANGED <<now, bpfEvents, jvmEvents, loopVars, reported, trashed, nBpf, nJvm>>

\* Mutant: push_front() where the code has push_back().
FillQueueFront(j) ==
  /\ pc = "jvm"
  /\ jvmEvents' = [jvmEvents EXCEPT ![j.tid] = <<j>> \o @]
  /\ nJvm' = nJvm + 1
  /\ UNCHANGED <<now, pc, bpfEvents, loopVars, reported, trashed, nBpf>>

\* One well-formed line of the profiler's stream.
FillQueue(j) ==
  /\ pc = "jvm"
  /\ jvmEvents' = [jvmEvents EXCEPT ![j.tid] = Append(@, j)]
  /\ nJvm' = nJvm + 1
  /\ UNCHANGED <<now, pc, bpfEvents, loopVars, reported, trashed, nBpf>>
----------------------------------------------------------------------------
(***************************************************************************)
(* sweep()                                                                 *)
(***************************************************************************)

WithQueue(queues) == {t \in Tids : queues[t] # <<>>}

\* Mutant: sweep measures ages with the now of its previous run.
SweepBeginStaleNow ==
  /\ pc = "jvm"
  /\ pc' = "sweep"
  /\ todo' = WithQueue(bpfEvents)
  /\ ret' = <<>>
  /\ UNCHANGED <<now, bpfEvents, jvmEvents, cur, sweepNow, reported, trashed, nBpf, nJvm>>

\* now, the keys of bpf_events and the empty ret are taken at the start.
SweepBegin ==
  /\ pc = "jvm"
  /\ pc' = "sweep"
  /\ sweepNow' = now
  /\ todo' = WithQueue(bpfEvents)
  /\ ret' = <<>>
  /\ UNCHANGED <<now, bpfEvents, jvmEvents, cur, reported, trashed, nBpf, nJvm>>

\* The tids come in the order of a hash map: any order.
SweepTid ==
  /\ pc = "sweep" /\ cur = NoTid
  /\ \E t \in todo : cur' = t /\ todo' = todo \ {t}
  /\ UNCHANGED <<now, pc, bpfEvents, jvmEvents, ret, sweepNow, reported, trashed, nBpf, nJvm>>

Front == Head(bpfEvents[cur])
JvmQueue == jvmEvents[cur]
InLoop == pc = "sweep" /\ cur # NoTid /\ bpfEvents[cur] # <<>>

\* ts_diff of the JVM event j against the block event at the front.
TsDiff(j) == j.timestamp - Front.timestamp

\* now - bpf_event.timestamp, both u64.
Elapsed == LET d == sweepNow - Front.timestamp IN IF d < 0 THEN d + U64 ELSE d

LastPair == ret[Len(ret)]

\* Mutant: a JVM event older than the block event may be taken over.
CanTakeOverOlder ==
  /\ ret # <<>>
  /\ LastPair.jvm # NoJvm
  /\ LastPair.jvm.timestamp - LastPair.bpf.timestamp > TsDiff(LastPair.jvm)

\* The last pair's JVM event comes after this block event and is closer to it.
CanTakeOver ==
  /\ ret # <<>>
  /\ LastPair.jvm # NoJvm
  /\ TsDiff(LastPair.jvm) > 0
  /\ LastPair.jvm.timestamp - LastPair.bpf.timestamp > TsDiff(LastPair.jvm)

\* Mutant: front() where the code has pop_front().
PeekBpfInto(r, jvm) ==
  /\ ret' = Append(r, [bpf |-> Front, jvm |-> jvm])
  /\ UNCHANGED bpfEvents

\* The front of the queue leaves it as the next pair of sweep's result.
PopBpfInto(r, jvm) ==
  /\ bpfEvents' = [bpfEvents EXCEPT ![cur] = Tail(@)]
  /\ ret' = Append(r, [bpf |-> Front, jvm |-> jvm])

\* Mutant: clone() where the code has take().
TakeOverCopy ==
  /\ InLoop /\ CanTakeOver
  /\ PopBpfInto(ret, LastPair.jvm)
  /\ UNCHANGED <<now, pc, jvmEvents, todo, cur, sweepNow, reported, trashed, nBpf, nJvm>>

\* The JVM event of the last pair moves to this block event.
TakeOver ==
  /\ InLoop /\ CanTakeOver
  /\ PopBpfInto([ret EXCEPT ![Len(ret)].jvm = NoJvm], LastPair.jvm)
  /\ UNCHANGED <<now, pc, jvmEvents, todo, cur, sweepNow, reported, trashed, nBpf, nJvm>>

\* find_matching_jvm_event: a JVM event older than the block event is trashed.
TrashJvm ==
  /\ InLoop /\ ~CanTakeOver
  /\ JvmQueue # <<>> /\ TsDiff(Head(JvmQueue)) < 0
  /\ jvmEvents' = [jvmEvents EXCEPT ![cur] = Tail(@)]
  /\ trashed' = trashed \cup {Head(JvmQueue)}
  /\ UNCHANGED <<now, pc, bpfEvents, loopVars, reported, nBpf, nJvm>>

\* Mutant: the threshold itself is still a match.
CloseInclusive(j) == TsDiff(j) <= Threshold

Close(j) == TsDiff(j) < Threshold

\* find_matching_jvm_event: the first JVM event not older is close enough.
Match ==
  /\ InLoop /\ ~CanTakeOver
  /\ JvmQueue # <<>> /\ TsDiff(Head(JvmQueue)) >= 0 /\ Close(Head(JvmQueue))
  /\ PopBpfInto(ret, Head(JvmQueue))
  /\ jvmEvents' = [jvmEvents EXCEPT ![cur] = Tail(@)]
  /\ UNCHANGED <<now, pc, todo, cur, sweepNow, reported, trashed, nBpf, nJvm>>

\* find_matching_jvm_event returns None.
FindsNone ==
  JvmQueue # <<>> => TsDiff(Head(JvmQueue)) >= 0 /\ ~Close(Head(JvmQueue))

\* Mutants: the test for an empty queue is inverted; an event without a JVM
\* event waits for ever.
GivesUpWhenEmpty == JvmQueue = <<>> \/ Elapsed >= GiveUp
GivesUpOnLaterJvm == JvmQueue # <<>>

\* No match is to be expected: a later JVM event is there, or time is up.
GivesUp == JvmQueue # <<>> \/ Elapsed >= GiveUp

ReportUnmatched ==
  /\ InLoop /\ ~CanTakeOver /\ FindsNone /\ GivesUp
  /\ PopBpfInto(ret, NoJvm)
  /\ UNCHANGED <<now, pc, jvmEvents, todo, cur, sweepNow, reported, trashed, nBpf, nJvm>>

\* sweep is done with the thread: its queue is empty, or its front may still
\* get its JVM event and the queue waits.
LeaveTid ==
  /\ pc = "sweep" /\ cur # NoTid
  /\ \/ bpfEvents[cur] = <<>>
     \/ InLoop /\ ~CanTakeOver /\ FindsNone /\ ~GivesUp
  /\ cur' = NoTid
  /\ UNCHANGED <<now, pc, bpfEvents, jvmEvents, ret, todo, sweepNow, reported, trashed, nBpf, nJvm>>

\* Mutant: the result is a buffer that the next sweep finds as it was left.
SweepReturnKeepsRet ==
  /\ pc = "sweep" /\ cur = NoTid /\ todo = {}
  /\ pc' = "main"
  /\ reported' = reported \cup {ret[i] : i \in 1..Len(ret)}
  /\ UNCHANGED <<now, bpfEvents, jvmEvents, loopVars, trashed, nBpf, nJvm>>

\* sweep returns; main() prints every pair.
SweepReturn ==
  /\ pc = "sweep" /\ cur = NoTid /\ todo = {}
  /\ pc' = "main"
  /\ reported' = reported \cup {ret[i] : i \in 1..Len(ret)}
  /\ ret' = <<>>
  /\ UNCHANGED <<now, bpfEvents, jvmEvents, todo, cur, sweepNow, trashed, nBpf, nJvm>>
----------------------------------------------------------------------------
(***************************************************************************)
(* The outside world                                                       *)
(***************************************************************************)

ReceiveBpf ==
  /\ nBpf < MaxBpf /\ now <= LastArrival
  /\ \E t \in Tids, ts \in 0..now :
       AddBpfEvent([id |-> nBpf + 1, tid |-> t, timestamp |-> ts])

\* The clock may have been set back since the stack was taken.
ReceiveJvm ==
  /\ nJvm < MaxJvm /\ now <= LastArrival
  /\ \E t \in Tids, ts \in 0..(now + MaxStepBack) :
       FillQueue([id |-> nJvm + 1, tid |-> t, timestamp |-> ts])

Tick ==
  /\ pc # "exited" /\ now < MaxNow
  /\ now' = now + 1
  /\ UNCHANGED <<pc, bpfEvents, jvmEvents, loopVars, reported, trashed, nBpf, nJvm>>

\* The wall clock is set back, before the last arrivals.
StepBack ==
  /\ pc # "exited" /\ now <= LastArrival
  /\ \E d \in 1..MaxStepBack : d <= now /\ now' = now - d
  /\ UNCHANGED <<pc, bpfEvents, jvmEvents, loopVars, reported, trashed, nBpf, nJvm>>

Sweep ==
  \/ SweepBegin \/ SweepTid \/ TakeOver \/ TrashJvm \/ Match
  \/ ReportUnmatched \/ LeaveTid \/ SweepReturn

Next ==
  \/ BeginProcess \/ Quit \/ ReceiveBpf \/ EndBpf \/ ReceiveJvm
  \/ Sweep \/ Tick \/ StepBack

Spec == Init /\ [][Next]_vars

\* main() loops without pause and every wait in process() ends within a
\* second, so the loop goes on; and time passes.
Fairness ==
  /\ WF_vars(BeginProcess \/ EndBpf \/ Sweep)
  /\ WF_vars(Tick)

FairSpec == Spec /\ Fairness
----------------------------------------------------------------------------
(***************************************************************************)
(* Properties                                                              *)
(***************************************************************************)

RetPairs == {ret[i] : i \in 1..Len(ret)}
Queued(queues) == UNION {{queues[t][i] : i \in 1..Len(queues[t])} : t \in Tids}
Bpfs == Queued(bpfEvents) \cup {p.bpf : p \in RetPairs \cup reported}

\* Every variable has its type; ret and cur are in use only during a sweep.
TypeOK ==
  /\ now \in Nat /\ sweepNow \in Nat
  /\ pc \in {"main", "bpf", "jvm", "sweep", "exited"}
  /\ bpfEvents \in [Tids -> Seq(BpfEvent)]
  /\ jvmEvents \in [Tids -> Seq(JvmEvent)]
  /\ ret \in Seq(Pair)
  /\ todo \subseteq Tids
  /\ cur \in Tids \cup {NoTid}
  /\ reported \subseteq Pair
  /\ trashed \subseteq JvmEvent
  /\ nBpf \in Nat /\ nJvm \in Nat
  /\ pc # "sweep" => ret = <<>> /\ cur = NoTid /\ todo = {}

\* A pair's JVM stack was taken when its block had ended, and less than the
\* threshold later.  Both branches of sweep that pair events must keep this,
\* or the u64 subtraction of the take-over test (lib.rs:319) wraps.
InWindow(b, j) ==
  b.timestamp <= j.timestamp /\ j.timestamp < b.timestamp + Threshold
PairInWindow ==
  \A p \in reported \cup RetPairs : p.jvm # NoJvm => InWindow(p.bpf, p.jvm)

\* Every block event received is in exactly one place: its thread's queue,
\* the result of the running sweep, or the reports made.  It is neither
\* dropped nor reported twice, whichever branches sweep takes.
BpfReportedOnce ==
  /\ \A n \in 1..nBpf : \E b \in Bpfs : b.id = n
  /\ \A t, u \in Tids : \A i \in 1..Len(bpfEvents[t]), k \in 1..Len(bpfEvents[u]) :
       bpfEvents[t][i].id = bpfEvents[u][k].id => t = u /\ i = k
  /\ \A i, k \in 1..Len(ret) : ret[i].bpf.id = ret[k].bpf.id => i = k
  /\ \A p, q \in reported : p.bpf.id = q.bpf.id => p = q
  /\ \A p \in RetPairs \cup reported, b \in Queued(bpfEvents) : p.bpf.id # b.id
  /\ \A p \in RetPairs, q \in reported : p.bpf.id # q.bpf.id

\* No JVM event is in two places: it is never in two reports, and one that
\* was trashed or reported is not matched again.  The take-over in sweep
\* must move it and not copy it.
JvmUsedOnce ==
  LET inRet == {p.jvm : p \in RetPairs} \ {NoJvm}
      inReports == {p.jvm : p \in reported} \ {NoJvm}
  IN /\ \A t, u \in Tids : \A i \in 1..Len(jvmEvents[t]), k \in 1..Len(jvmEvents[u]) :
          jvmEvents[t][i].id = jvmEvents[u][k].id => t = u /\ i = k
     /\ \A i, k \in 1..Len(ret) :
          ret[i].jvm # NoJvm /\ ret[k].jvm # NoJvm /\ ret[i].jvm.id = ret[k].jvm.id => i = k
     /\ \A p, q \in reported :
          p.jvm # NoJvm /\ q.jvm # NoJvm /\ p.jvm.id = q.jvm.id => p = q
     /\ \A j \in inRet, k \in inReports \cup trashed : j.id # k.id
     /\ \A j \in inReports, k \in trashed : j.id # k.id
     /\ \A j \in Queued(jvmEvents), k \in inRet \cup inReports \cup trashed : j.id # k.id

\* A thread that sweep has visited is left with block events or with JVM
\* events queued, never with both; and its first block event, if it has one,
\* is younger than the give-up time.  So nothing that could be reported stays.
Visited == IF pc = "sweep" THEN Tids \ (todo \cup {cur}) ELSE {}
OneSideWaits ==
  \A t \in Visited :
    \/ bpfEvents[t] = <<>>
    \/ /\ jvmEvents[t] = <<>>
       /\ sweepNow < Head(bpfEvents[t]).timestamp + GiveUp

\* The age of an event that sweep looks at is not negative, so the unsigned
\* subtraction does not wrap and give the event up at once.  It needs a wall
\* clock that is never set back.
AgeNeverWraps == InLoop => Front.timestamp <= sweepNow

\* An event is reported without a JVM stack only if it is as old as the
\* give-up time, or a JVM event of its thread too late for it was seen, or a
\* later block event took its stack.
SeenJvm == Queued(jvmEvents) \cup trashed \cup ({p.jvm : p \in RetPairs \cup reported} \ {NoJvm})
MissingStackExplained ==
  \A p \in reported : p.jvm = NoJvm =>
    \/ p.bpf.timestamp + GiveUp <= now
    \/ \E j \in SeenJvm :
         j.tid = p.bpf.tid /\ p.bpf.timestamp + Threshold <= j.timestamp
    \/ \E q \in reported :
         /\ q.jvm # NoJvm /\ InWindow(p.bpf, q.jvm)
         /\ p.bpf.timestamp < q.bpf.timestamp

\* The two halves of a report are of the same thread, as the integration test
\* asserts (lib.rs:465).
SameThread == \A p \in reported : p.jvm # NoJvm => p.bpf.tid = p.jvm.tid

\* EventStream implements BlockReport: what is queued or in the result of the
\* running sweep is pending, and the reports are made when sweep returns.
Promise == INSTANCE BlockReport WITH
  pending <- Queued(bpfEvents) \cup {p.bpf : p \in RetPairs},
  available <- Queued(jvmEvents) \cup ({p.jvm : p \in RetPairs} \ {NoJvm})
KeepsPromise == Promise!Spec

\* A block event that is queued is reported in the end, with or without its
\* JVM stack, unless JBM exits first.
EventuallyReported ==
  \A n \in 1..MaxBpf :
    (\E b \in Queued(bpfEvents) : b.id = n)
      ~> (pc = "exited" \/ \E p \in reported : p.bpf.id = n)
=============================================================================
