------------------------------ MODULE Pipeline ------------------------------
(***************************************************************************)
(* The way of a block from the kernel to a report: the probe's perf        *)
(* buffers, SIGPROF and the JVM events that async-profiler writes to its   *)
(* file, the reads of process() (jbm/src/lib.rs) and of fill_queue()       *)
(* (jbm/src/async_profiler.rs), and sweep(), which is EventStream's.       *)
(*                                                                         *)
(* A block event and the JVM event that its signal causes have the same    *)
(* id.  kernel3x is the build variant in which the control program signals *)
(* too.  Covered: events lost in a full buffer, reads that fail or time    *)
(* out, signals that fail or coalesce, lines that are read half written.   *)
(***************************************************************************)
EXTENDS EventStream, Timestamps, FiniteSets

CONSTANTS
  NCpu,          \* the number of online CPUs, and of perf buffers
  BufsPerRead,   \* read_bufs: the most events that one read takes
  RingMax,       \* the events that a perf buffer holds
  NotRead,       \* the future of a perf buffer is not ready
  MinBlock,      \* min_block_us, in ns
  Offset,        \* by what the wall clock's milliseconds begin before the monotonic clock's
  MaxBlocks,     \* bound: blocks
  MaxKtime,      \* bound: the monotonic clock, in ns
  LastBlock      \* bound: after this time no block ends, nor is compute_timestamp
                 \*        held up between its two clock readings

Cpus == 1..NCpu

ASSUME PipelineAssumption ==
  /\ NCpu \in Nat /\ BufsPerRead \in Nat \ {0} /\ RingMax \in Nat
  /\ MinBlock \in Nat /\ MaxBlocks \in Nat /\ Offset \in 0..(NsPerMs - 1)
  /\ MaxKtime \in Nat /\ LastBlock \in Nat

\* What the control program uses of a BlockEvent.
BlockEvent == [id : Nat \ {0}, tid : Tids, t_end : Nat]

ASSUME NotReadAssumption == NotRead \notin Seq(BlockEvent)

NotStamped == -1

VARIABLES
  kernel3x,     \* cfg(kernel3x)
  ktime,        \* the monotonic clock; now is the wall clock
  ranAt,        \* when each thread was last seen on a CPU
  opened,       \* Jbm::new: the perf buffers of CPUs 1 to opened are open
  buffers,      \* the perf buffer of each CPU
  bpfResults,   \* process(): what each read of this round returned
  nowKtime,     \* compute_timestamp(): its first clock reading, or NotStamped
  sigprof,      \* the id of each thread's pending SIGPROF, or 0
  killed,       \* the id of the SIGPROF that is pending for the process, or 0
  file,         \* the lines of the profiler's file that are still to be read
  half,         \* the JVM event that is being written, or NoJvm
  headRead,     \* the beginning of half was taken for a line
  ends,         \* history: when each block ended, by id
  dropped,      \* history: the ids of the block events that found no room
  unsignalled,  \* history: the ids for which the probe's signal failed
  noStack       \* history: the ids whose signal coalesced or whose line was torn

kernelVars == <<ranAt, buffers, ends, dropped, unsignalled>>
readVars == <<opened, bpfResults, nowKtime>>
fileVars == <<file, half, headRead>>
signals == <<sigprof, killed>>
pipelineVars == <<vars, kernel3x, ktime, kernelVars, readVars, signals, fileVars, noStack>>
matching == <<pc, bpfEvents, jvmEvents, loopVars, reported, trashed, nBpf, nJvm>>

PipelineInit ==
  /\ Init
  /\ kernel3x \in BOOLEAN
  /\ ktime = 0
  /\ ranAt = [t \in Tids |-> -MinBlock]
  /\ opened = 0
  /\ buffers = [c \in Cpus |-> <<>>]
  /\ bpfResults = [c \in Cpus |-> NotRead]
  /\ nowKtime = NotStamped
  /\ sigprof = [t \in Tids |-> 0] /\ killed = 0
  /\ file = <<>> /\ half = NoJvm /\ headRead = FALSE
  /\ ends = <<>> /\ dropped = {} /\ unsignalled = {} /\ noStack = {}
----------------------------------------------------------------------------
(***************************************************************************)
(* The kernel and the target                                               *)
(***************************************************************************)

\* The wall clock when the monotonic clock is k.
Wall(k) == Millis(k + Offset)

\* SIGPROF for block n to thread t.  One that is pending coalesces with it:
\* the stack will be that of the later block.
Signal(t, n) ==
  /\ sigprof' = [sigprof EXCEPT ![t] = n]
  /\ noStack' = noStack \cup ({sigprof[t]} \ {0})

\* Thread t returns to CPU c after a block: the probe outputs the event, which
\* is lost if the buffer is full or not yet open, for the probe is attached
\* before it is; and it sends the signal, which may fail.
\* The clocks are past their first millisecond, as they are on any machine.
Block(t, c) ==
  LET n == Len(ends) + 1
  IN /\ n <= MaxBlocks /\ NsPerMs <= ktime /\ ktime <= LastBlock
     /\ ranAt[t] + MinBlock <= ktime
     /\ ranAt' = [ranAt EXCEPT ![t] = ktime]
     /\ ends' = Append(ends, ktime)
     /\ IF c <= opened /\ Len(buffers[c]) < RingMax
        THEN /\ buffers' = [buffers EXCEPT ![c] =
                              Append(@, [id |-> n, tid |-> t, t_end |-> ktime])]
             /\ UNCHANGED dropped
        ELSE /\ dropped' = dropped \cup {n}
             /\ UNCHANGED buffers
     /\ \/ Signal(t, n) /\ UNCHANGED unsignalled
        \/ unsignalled' = unsignalled \cup {n} /\ UNCHANGED <<sigprof, noStack>>
     /\ UNCHANGED <<vars, kernel3x, ktime, killed, readVars, fileVars>>

\* The thread takes the signal that is pending for it, or else the process's.
Takes(t, n) ==
  \/ n = sigprof[t] /\ sigprof' = [sigprof EXCEPT ![t] = 0] /\ UNCHANGED killed
  \/ n = killed /\ sigprof[t] = 0 /\ killed' = 0 /\ UNCHANGED sigprof

\* The handler runs on the thread, which is on a CPU: it takes the stack and
\* the time, and begins to write a line.  Lines are written one at a time.
TakeSignal(t) ==
  /\ half = NoJvm
  /\ \E n \in {sigprof[t], killed} \ {0} :
       /\ Takes(t, n)
       /\ half' = [id |-> n, tid |-> t, timestamp |-> now]
  /\ ranAt' = [ranAt EXCEPT ![t] = ktime]
  /\ UNCHANGED <<vars, kernel3x, ktime, buffers, ends, dropped, unsignalled, readVars, file, headRead, noStack>>

\* The end of the line is written.  If its beginning was read, the rest makes
\* a malformed line, which fill_queue skips.
WriteLine ==
  /\ half # NoJvm
  /\ half' = NoJvm /\ headRead' = FALSE
  /\ IF headRead
     THEN noStack' = noStack \cup {half.id} /\ UNCHANGED file
     ELSE file' = Append(file, half) /\ UNCHANGED noStack
  /\ UNCHANGED <<vars, kernel3x, ktime, kernelVars, readVars, signals>>

\* Both clocks run at the same rate.
Pass ==
  /\ ktime < MaxKtime
  /\ nowKtime # NotStamped => ktime < LastBlock
  /\ ktime' = ktime + 1
  /\ now' = Wall(ktime')
  /\ UNCHANGED <<matching, kernel3x, kernelVars, readVars, signals, fileVars, noStack>>
----------------------------------------------------------------------------
(***************************************************************************)
(* Jbm::new, when it has attached the probe, and process()                 *)
(***************************************************************************)

OpenBuffer ==
  /\ opened < NCpu
  /\ opened' = opened + 1
  /\ UNCHANGED <<vars, kernel3x, ktime, kernelVars, bpfResults, nowKtime, signals, fileVars, noStack>>

StartRound ==
  /\ opened = NCpu
  /\ BeginProcess
  /\ bpfResults' = [c \in Cpus |-> NotRead]
  /\ UNCHANGED <<kernel3x, ktime, kernelVars, opened, nowKtime, signals, fileVars, noStack>>

Waits(c) == pc = "bpf" /\ bpfResults[c] = NotRead

\* Mutant: the events that do not fit into read_bufs are gone.
TakeEventsAll(c, n) ==
  /\ bpfResults' = [bpfResults EXCEPT ![c] = SubSeq(buffers[c], 1, n)]
  /\ buffers' = [buffers EXCEPT ![c] = <<>>]

TakeEvents(c, n) ==
  /\ bpfResults' = [bpfResults EXCEPT ![c] = SubSeq(buffers[c], 1, n)]
  /\ buffers' = [buffers EXCEPT ![c] = SubSeq(@, n + 1, Len(@))]

\* The buffer's future finds events: it takes as many as it has room for.
ReadEvents(c) ==
  /\ Waits(c) /\ buffers[c] # <<>>
  /\ TakeEvents(c, IF Len(buffers[c]) < BufsPerRead THEN Len(buffers[c]) ELSE BufsPerRead)
  /\ UNCHANGED <<vars, kernel3x, ktime, ranAt, ends, dropped, unsignalled, opened, nowKtime, signals, fileVars, noStack>>

\* The future fails or times out, though events may just have come.  It takes
\* none: it waits only before it reads, and does not wait again once it has.
ReadGivesUp(c) ==
  /\ Waits(c)
  /\ bpfResults' = [bpfResults EXCEPT ![c] = <<>>]
  /\ UNCHANGED <<vars, kernel3x, ktime, kernelVars, opened, nowKtime, signals, fileVars, noStack>>

\* join_all has returned, and c's results are the first that have an event.
Adding(c) ==
  /\ pc = "bpf" /\ \A d \in Cpus : bpfResults[d] # NotRead
  /\ bpfResults[c] # <<>> /\ \A d \in 1..(c - 1) : bpfResults[d] = <<>>

\* kill() signals the process.  One that is pending coalesces with it.
Kill(n) == killed' = n

\* Mutant (kernel3x): the signal is sent before the event is added.
ReadKtimeAndSignal(c) ==
  /\ Adding(c) /\ nowKtime = NotStamped
  /\ nowKtime' = ktime
  /\ IF kernel3x THEN Kill(Head(bpfResults[c]).id) ELSE UNCHANGED killed
  /\ UNCHANGED <<vars, kernel3x, ktime, kernelVars, opened, bpfResults, sigprof, fileVars, noStack>>

\* compute_timestamp reads the monotonic clock.
ReadKtime(c) ==
  /\ Adding(c) /\ nowKtime = NotStamped
  /\ nowKtime' = ktime
  /\ UNCHANGED <<vars, kernel3x, ktime, kernelVars, opened, bpfResults, signals, fileVars, noStack>>

\* Mutant: the wall clock is read first.
StampWallFirst(e) == ComputeTimestamp(ktime, e.t_end, Millis(nowKtime))

\* compute_timestamp reads the wall clock.
Stamp(e) == ComputeTimestamp(nowKtime, e.t_end, now)

\* add_bpf_event queues the event; then, with kernel3x, send_signal does its
\* part.  Any thread of the process may take that signal.
AddEvent(c) ==
  LET e == Head(bpfResults[c])
  IN /\ Adding(c) /\ nowKtime # NotStamped
     /\ AddBpfEvent([id |-> e.id, tid |-> e.tid, timestamp |-> Stamp(e)])
     /\ bpfResults' = [bpfResults EXCEPT ![c] = Tail(@)]
     /\ nowKtime' = NotStamped
     /\ IF kernel3x THEN Kill(e.id) ELSE UNCHANGED killed
     /\ UNCHANGED <<kernel3x, ktime, kernelVars, opened, sigprof, fileVars, noStack>>

EndAdding ==
  /\ \A c \in Cpus : bpfResults[c] = <<>>
  /\ EndBpf
  /\ UNCHANGED <<kernel3x, ktime, kernelVars, readVars, signals, fileVars, noStack>>

\* fill_queue: the next line is a JVM event.
ReadLine ==
  /\ file # <<>>
  /\ FillQueue(Head(file))
  /\ file' = Tail(file)
  /\ UNCHANGED <<kernel3x, ktime, kernelVars, readVars, signals, half, headRead, noStack>>

\* fill_queue: next_line() returns what comes before the end of the file as a
\* line, though it has no end yet.  It is malformed, and skipped.
ReadHalfLine ==
  /\ pc = "jvm" /\ file = <<>> /\ half # NoJvm /\ ~headRead
  /\ headRead' = TRUE
  /\ UNCHANGED <<vars, kernel3x, ktime, kernelVars, readVars, signals, file, half, noStack>>

\* sweep() follows when fill_queue has come to the end of the file.
SweepSteps ==
  /\ pc = "jvm" => file = <<>>
  /\ Sweep
  /\ UNCHANGED <<kernel3x, ktime, kernelVars, readVars, signals, fileVars, noStack>>

\* main() exits between two rounds, or on the error of an event that is added
\* or of the file.  What is queued or read is dropped.
Exit ==
  /\ Quit
  /\ opened = NCpu /\ (pc = "bpf" => \E c \in Cpus : Adding(c))
  /\ UNCHANGED <<kernel3x, ktime, kernelVars, readVars, signals, fileVars, noStack>>

Environment ==
  \/ \E t \in Tids, c \in Cpus : Block(t, c)
  \/ \E t \in Tids : TakeSignal(t)
  \/ WriteLine \/ Pass

Reading(c) == ReadEvents(c) \/ ReadGivesUp(c)

Process ==
  \/ OpenBuffer \/ StartRound
  \/ \E c \in Cpus : Reading(c) \/ ReadKtime(c) \/ AddEvent(c)
  \/ EndAdding \/ ReadLine \/ ReadHalfLine \/ SweepSteps

PipelineNext == Environment \/ Process \/ Exit

PipelineSpec == PipelineInit /\ [][PipelineNext]_pipelineVars

\* The loop of main() does not pause, and the file comes to an end.  A buffer
\* that stays readable is not always timed out: its readiness is kept for the
\* next round.  Time passes.
PipelineFairness ==
  /\ WF_pipelineVars(Process)
  /\ \A c \in Cpus : SF_pipelineVars(ReadEvents(c))
  /\ WF_pipelineVars(Pass)

FairPipelineSpec == PipelineSpec /\ PipelineFairness
----------------------------------------------------------------------------
(***************************************************************************)
(* Properties                                                              *)
(***************************************************************************)

Results(c) == IF bpfResults[c] = NotRead THEN <<>> ELSE bpfResults[c]

\* Every variable has its type; only blocks that have ended are accounted for.
PipelineTypeOK ==
  /\ TypeOK
  /\ kernel3x \in BOOLEAN /\ headRead \in BOOLEAN
  /\ ktime \in Nat /\ now = Wall(ktime)
  /\ opened \in 0..NCpu
  /\ ranAt \in [Tids -> -MinBlock..ktime]
  /\ ends \in Seq(0..ktime)
  /\ buffers \in [Cpus -> Seq(BlockEvent)]
  /\ bpfResults \in [Cpus -> Seq(BlockEvent) \cup {NotRead}]
  /\ nowKtime \in {NotStamped} \cup 0..ktime
  /\ sigprof \in [Tids -> 0..Len(ends)] /\ killed \in 0..Len(ends)
  /\ file \in Seq(JvmEvent) /\ half \in JvmEvent \cup {NoJvm}
  /\ dropped \cup unsignalled \cup noStack \subseteq 1..Len(ends)

At(n, s) == {i \in 1..Len(s) : s[i].id = n}

\* A block is in one place: dropped for want of room, in a perf buffer, read in
\* this round, queued, in the result of the sweep, or reported.  So none is lost
\* and none is taken twice, though reads are cut off by their time-out and take
\* no more events than they have buffers, and a round ends with events unread.
Places(n) ==
  (UNION {{<<"buffer", c, i>> : i \in At(n, buffers[c])} : c \in Cpus})
  \cup (UNION {{<<"read", c, i>> : i \in At(n, Results(c))} : c \in Cpus})
  \cup (UNION {{<<"queue", t, i>> : i \in At(n, bpfEvents[t])} : t \in Tids})
  \cup {<<"ret", i>> : i \in {k \in 1..Len(ret) : ret[k].bpf.id = n}}
  \cup {<<"reported", p>> : p \in {q \in reported : q.bpf.id = n}}
  \cup {<<"dropped">> : d \in dropped \cap {n}}
BlockInOnePlace == \A n \in 1..Len(ends) : Cardinality(Places(n)) = 1

\* The time of a block event is less than two milliseconds before the end of
\* the block, however long the event waited to be read and whatever the time
\* between the two clock readings; and it is not in the future.
StampNearEnd ==
  \A b \in Bpfs : Wall(ends[b.id]) - 1 <= b.timestamp /\ b.timestamp <= now

\* "This calling order is important because event matching relies on timestamp
\* order before/after" (lib.rs:148): with kernel3x a block event is never later
\* than the JVM event that the control program's signal causes, whatever the
\* time between the clock readings, so that its stack is not trashed as too old.
Stacks ==
  Queued(jvmEvents) \cup trashed \cup {file[i] : i \in 1..Len(file)}
  \cup (({half} \cup {p.jvm : p \in RetPairs \cup reported}) \ {NoJvm})
StampBeforeStack ==
  kernel3x => \A b \in Bpfs, j \in Stacks :
                b.id = j.id /\ b.id \in unsignalled => b.timestamp <= j.timestamp

\* A block is reported with the stack of a later block of its thread only if
\* its own is lost (no signal, coalesced, half a line read), thrown away or in
\* another report: never while its own is still to come or waits in the queue.
\* With kernel3x the stacks that the control program asks for come in between.
OwnStack ==
  \A p \in reported :
    /\ p.jvm # NoJvm /\ p.jvm.tid = p.bpf.tid /\ p.jvm.id > p.bpf.id
    => \/ p.bpf.id \in noStack \cup unsignalled
       \/ \E j \in trashed : j.id = p.bpf.id
       \/ \E q \in RetPairs \cup reported : q.jvm # NoJvm /\ q.jvm.id = p.bpf.id

\* "There should be no corresponding event for this, trash it." (lib.rs:364): the
\* block event of a JVM event that is trashed is not waiting in a perf buffer,
\* in the results of the round or in a queue.
TrashedHasNoBlock ==
  \A j \in trashed :
    \A place \in Places(j.id) : place[1] \notin {"buffer", "read", "queue"}

\* When no more blocks come, every block event that found room in a perf buffer
\* is reported in the end, with or without a JVM stack, unless JBM exits first.
BlockEventuallyReported ==
  <>[](pc = "exited" \/ \A n \in 1..Len(ends) \ dropped : \E p \in reported : p.bpf.id = n)
=============================================================================
