----------------------------- MODULE BlockProbe -----------------------------
(***************************************************************************)
(* The eBPF program of JBM (jbm-ebpf/src/main.rs): the kprobe on           *)
(* finish_task_switch, which runs on a CPU each time it switches from a    *)
(* task prev to the current task, and the maps it shares with the other    *)
(* CPUs and with the control program.                                      *)
(*                                                                         *)
(* The kprobe runs before the kernel lets prev run anywhere else, so prev  *)
(* and the current task are the CPU's own until the kprobe returns.  What  *)
(* may interleave are its map operations with those of other CPUs, and     *)
(* time.  Threads are created and exit, and their ids are used again.      *)
(***************************************************************************)
EXTENDS Integers, Sequences, FiniteSets

CONSTANTS
  Cpus,
  Tids,           \* thread ids
  Idle,           \* any task that is not in Tids, such as the idle task
  Never,          \* no time: no entry in START_TIMES, or never off the CPU
  StartTimesMax,  \* max_entries of START_TIMES
  MinBlock,       \* CONFIG.min_block_us
  MaxBlock,       \* CONFIG.max_block_us
  NsPerUs,        \* 1000
  U64,            \* 2^64: unsigned subtraction wraps modulo this
  KernelStacks, UserStacks,
  NoStack,        \* an empty bucket of STACK_TRACES
  Bucket,         \* the bucket, and so the stack id, that each stack hashes to
  RingMax,        \* how many events fit in a CPU's perf buffer
  Skew,           \* how far the clocks of two CPUs may differ, in ns
  MaxNow,         \* bound: the clock, in ns
  MaxLive,        \* bound: the target's threads at any one time
  TargetReuse     \* may a new thread of the target get the id of an old one?

Stacks == KernelStacks \cup UserStacks
Buckets == {Bucket[s] : s \in Stacks}

ASSUME ProbeAssumption ==
  /\ Idle \notin Tids
  /\ Never \notin Nat
  /\ NoStack \notin Stacks
  /\ Bucket \in [Stacks -> Nat]
  /\ StartTimesMax \in Nat /\ RingMax \in Nat
  /\ MinBlock \in Nat /\ MaxBlock \in Nat
  /\ NsPerUs \in Nat \ {0} /\ U64 \in Nat
  /\ Skew \in Nat /\ MaxNow \in Nat /\ MaxLive \in Nat
  /\ TargetReuse \in BOOLEAN

Time == Nat \cup {Never}

\* left, kernel and user are history: when the thread had left the CPU, by the
\* clock reading taken then, and the stacks it had.  name is left out.
BlockEvent ==
  [pid : Tids, tgid : {"target"},
   user_stack_id : Buckets, kernel_stack_id : Buckets,
   offtime : Nat, t_start : Nat, t_end : Nat,
   left : Time, kernel : KernelStacks, user : UserStacks]

VARIABLES
  now,          \* the time, in ns
  skew,         \* what each CPU's clock adds to it
  owner,        \* whose thread has the id; "free": nobody's yet, "retired": nobody's any more
  left,         \* history: the clock reading when the thread last left its CPU
  running,      \* the current task of each CPU
  kprobe,       \* the kprobe running on each CPU: where it stands, and its locals
  startTimes,   \* the map START_TIMES
  stackTraces,  \* the map STACK_TRACES
  ring,         \* the events that the control program has still to add, by CPU
  sigpending,   \* the threads with SIGPROF pending
  lookups,      \* the stack ids that the control program has still to look up
  copied        \* the stack that it copies out of the bucket of the first of them

world == <<now, skew, owner, left>>
reader == <<lookups, copied>>
maps == <<startTimes, stackTraces, ring, sigpending, reader>>
vars == <<world, running, kprobe, maps>>

NotRunning ==
  [step |-> "idle", prev |-> Idle, t_start |-> 0, t_end |-> 0,
   kernel |-> NoStack, user |-> NoStack]

Init ==
  /\ now = 0
  /\ skew \in [Cpus -> 0..Skew]
  /\ owner \in [Tids -> {"target", "free"}]
  /\ Cardinality({t \in Tids : owner[t] = "target"}) <= MaxLive
  /\ left = [t \in Tids |-> Never]
  /\ running = [c \in Cpus |-> Idle]
  /\ kprobe = [c \in Cpus |-> NotRunning]
  /\ startTimes = [t \in Tids |-> Never]
  /\ stackTraces = [b \in Buckets |-> NoStack]
  /\ ring = [c \in Cpus |-> <<>>]
  /\ sigpending = {}
  /\ lookups = <<>> /\ copied = NoStack
----------------------------------------------------------------------------
(***************************************************************************)
(* The kernel and the control program                                      *)
(***************************************************************************)

\* bpf_ktime_get_ns() on a CPU.
Ktime(c) == now + skew[c]

At(c, s) == kprobe[c].step = s

\* The id is that of a thread that runs, or that a kprobe still has as prev.
OnCpu(t) == \E c \in Cpus : running[c] = t \/ (~At(c, "idle") /\ kprobe[c].prev = t)

Live(t) == owner[t] \in {"target", "other"}

\* The CPU switches to another task and runs the kprobe.
Switch(c) ==
  /\ At(c, "idle")
  /\ \E next \in {t \in Tids : Live(t) /\ ~OnCpu(t)} \cup {Idle} :
       /\ next # running[c]
       /\ running' = [running EXCEPT ![c] = next]
  /\ kprobe' = [kprobe EXCEPT ![c].step = "record", ![c].prev = running[c]]
  /\ UNCHANGED <<world, maps>>

\* The thread had left its CPU for the last time, to exit.
Exit(t) ==
  /\ Live(t) /\ ~OnCpu(t)
  /\ owner' = [owner EXCEPT ![t] = "retired"]
  /\ sigpending' = sigpending \ {t}
  /\ UNCHANGED <<now, skew, left, running, kprobe, startTimes, stackTraces, ring, reader>>

LiveInTarget == {t \in Tids : owner[t] = "target"}

Spawn(t, o) ==
  /\ owner[t] = "free" \/ (owner[t] = "retired" /\ (o = "target" => TargetReuse))
  /\ o = "target" => Cardinality(LiveInTarget) < MaxLive
  /\ owner' = [owner EXCEPT ![t] = o]
  /\ left' = [left EXCEPT ![t] = Never]
  /\ UNCHANGED <<now, skew, running, kprobe, maps>>

\* The running thread takes its signal: async-profiler records the JVM stack.
TakeSignal(c) ==
  /\ At(c, "idle") /\ running[c] \in sigpending
  /\ sigpending' = sigpending \ {running[c]}
  /\ UNCHANGED <<world, running, kprobe, startTimes, stackTraces, ring, reader>>

\* The control program takes the next event that it has read, to look up its
\* stacks: add_bpf_event().
ReadEvent(c) ==
  /\ lookups = <<>> /\ ring[c] # <<>>
  /\ lookups' = <<Head(ring[c]).kernel_stack_id, Head(ring[c]).user_stack_id>>
  /\ ring' = [ring EXCEPT ![c] = Tail(@)]
  /\ UNCHANGED <<world, running, kprobe, startTimes, stackTraces, sigpending, copied>>

\* The kernel takes the stack out of its bucket while it copies it ...
CopyOut ==
  /\ copied = NoStack /\ lookups # <<>> /\ stackTraces[Head(lookups)] # NoStack
  /\ copied' = stackTraces[Head(lookups)]
  /\ stackTraces' = [stackTraces EXCEPT ![Head(lookups)] = NoStack]
  /\ UNCHANGED <<world, running, kprobe, startTimes, ring, sigpending, lookups>>

\* Mutant: the control program removes the stack when it has it, to make room.
CopyBackRemoves ==
  /\ copied # NoStack
  /\ copied' = NoStack /\ lookups' = Tail(lookups)
  /\ UNCHANGED <<world, running, kprobe, startTimes, stackTraces, ring, sigpending>>

\* ... and puts it back, in place of any that a kprobe has stored meanwhile.
\* After the last stack of some events, the control program also counts the
\* stacks in the map, which copies each of them.
CopyBack ==
  /\ copied # NoStack
  /\ stackTraces' = [stackTraces EXCEPT ![Head(lookups)] = copied]
  /\ copied' = NoStack
  /\ \/ lookups' = Tail(lookups)
     \/ Len(lookups) = 1 /\ \E b \in Buckets : stackTraces'[b] # NoStack /\ lookups' = <<b>>
  /\ UNCHANGED <<world, running, kprobe, startTimes, ring, sigpending>>

Tick ==
  /\ now < MaxNow
  /\ now' = now + 1
  /\ UNCHANGED <<skew, owner, left, running, kprobe, maps>>
----------------------------------------------------------------------------
(***************************************************************************)
(* The kprobe: try_jbm()                                                   *)
(***************************************************************************)

Goto(c, s) == kprobe' = [kprobe EXCEPT ![c].step = s]
Return(c) == kprobe' = [kprobe EXCEPT ![c] = NotRunning]
Prev(c) == kprobe[c].prev
PrevInTarget(c) == Prev(c) \in Tids /\ owner[Prev(c)] = "target"

\* Mutant: START_TIMES.insert with BPF_NOEXIST keeps the entry that is there.
InsertNoExist(t, ts) ==
  IF startTimes[t] = Never THEN [startTimes EXCEPT ![t] = ts] ELSE startTimes

\* START_TIMES.insert replaces the entry that is there ...
Insert(t, ts) == [startTimes EXCEPT ![t] = ts]

\* ... and fails if there is none and the map is full.
Full == Cardinality({t \in Tids : startTimes[t] # Never}) >= StartTimesMax
InsertFails(t) == startTimes[t] = Never /\ Full

\* Record the time at which a thread of the target leaves the CPU.
RecordPrev(c) ==
  /\ At(c, "record") /\ PrevInTarget(c) /\ ~InsertFails(Prev(c))
  /\ left' = [left EXCEPT ![Prev(c)] = Ktime(c)]
  /\ startTimes' = Insert(Prev(c), Ktime(c))
  /\ Goto(c, "lookup")
  /\ UNCHANGED <<now, skew, owner, running, stackTraces, ring, sigpending, reader>>

\* The map is full: `?` ends the kprobe, for the current task too.
RecordFails(c) ==
  /\ At(c, "record") /\ PrevInTarget(c) /\ InsertFails(Prev(c))
  /\ left' = [left EXCEPT ![Prev(c)] = Ktime(c)]
  /\ Return(c)
  /\ UNCHANGED <<now, skew, owner, running, maps>>

RecordNothing(c) ==
  /\ At(c, "record") /\ ~PrevInTarget(c)
  /\ Goto(c, "lookup")
  /\ UNCHANGED <<world, running, maps>>

HasEntry(c) == running[c] \in Tids /\ startTimes[running[c]] # Never

LookupCurrent(c) ==
  /\ At(c, "lookup") /\ HasEntry(c)
  /\ kprobe' = [kprobe EXCEPT ![c].step = "remove",
                  ![c].t_start = startTimes[running[c]], ![c].t_end = Ktime(c)]
  /\ UNCHANGED <<world, running, maps>>

LookupNone(c) ==
  /\ At(c, "lookup") /\ ~HasEntry(c)
  /\ Return(c)
  /\ UNCHANGED <<world, running, maps>>

\* Mutant: without the test of tgid.
WrongProcessUnchecked(c) == FALSE

\* The id is now that of a thread of a different process.
WrongProcess(c) == owner[running[c]] # "target"

\* Mutant: without the test t_start > t_end.
ClockWentBackUnchecked(c) == FALSE

ClockWentBack(c) == kprobe[c].t_start > kprobe[c].t_end

\* (t_end - t_start) / 1000, all u64.
Offtime(c) ==
  LET d == kprobe[c].t_end - kprobe[c].t_start
  IN (IF d < 0 THEN d + U64 ELSE d) \div NsPerUs

\* Mutant: max_block_us itself is out of range.
InRangeOpen(offtime) == offtime >= MinBlock /\ offtime < MaxBlock

InRange(offtime) == offtime >= MinBlock /\ offtime <= MaxBlock

\* The entry is there to be removed, and it makes an event.
Reportable(c) ==
  HasEntry(c) /\ ~WrongProcess(c) /\ ~ClockWentBack(c) /\ InRange(Offtime(c))

Decide(c) == IF Reportable(c) THEN Goto(c, "kernel") ELSE Return(c)

\* Mutant: the entry is left in the map.
RemoveCurrentKeeps(c) ==
  /\ At(c, "remove")
  /\ Decide(c)
  /\ UNCHANGED <<world, running, maps>>

\* The entry is used up, whether or not it makes an event.
RemoveCurrent(c) ==
  /\ At(c, "remove")
  /\ startTimes' = [startTimes EXCEPT ![running[c]] = Never]
  /\ Decide(c)
  /\ UNCHANGED <<world, running, stackTraces, ring, sigpending, reader>>

Stored(s) == stackTraces[Bucket[s]] = s

\* get_stackid looks at the stack's bucket: it finds the stack there, or has
\* to store it if nothing is there.
StackFits(s) == stackTraces[Bucket[s]] \in {s, NoStack}

KernelStack(c) ==
  /\ At(c, "kernel")
  /\ \E s \in KernelStacks :
       /\ StackFits(s)
       /\ kprobe' = [kprobe EXCEPT ![c].kernel = s,
                       ![c].step = IF Stored(s) THEN "user" ELSE "store kernel"]
  /\ UNCHANGED <<world, running, maps>>

UserStack(c) ==
  /\ At(c, "user")
  /\ \E s \in UserStacks :
       /\ StackFits(s)
       /\ kprobe' = [kprobe EXCEPT ![c].user = s,
                       ![c].step = IF Stored(s) THEN "output" ELSE "store user"]
  /\ UNCHANGED <<world, running, maps>>

\* get_stackid stores the stack, in place of any that came since it looked.
Store(s) == stackTraces' = [stackTraces EXCEPT ![Bucket[s]] = s]

StoreKernel(c) ==
  /\ At(c, "store kernel")
  /\ Store(kprobe[c].kernel)
  /\ Goto(c, "user")
  /\ UNCHANGED <<world, running, startTimes, ring, sigpending, reader>>

StoreUser(c) ==
  /\ At(c, "store user")
  /\ Store(kprobe[c].user)
  /\ Goto(c, "output")
  /\ UNCHANGED <<world, running, startTimes, ring, sigpending, reader>>

\* `?` drops the event if get_stackid fails, for another stack is in the bucket,
\* or no bucket or no trace is to be had; or if bpf_get_current_comm does.
\* A kernel stack that was stored for it stays.
EventFails(c) ==
  /\ At(c, "kernel") \/ At(c, "user") \/ At(c, "output")
  /\ Return(c)
  /\ UNCHANGED <<world, running, maps>>

Event(c) ==
  LET k == kprobe[c] IN
  [pid |-> running[c], tgid |-> owner[running[c]],
   user_stack_id |-> Bucket[k.user], kernel_stack_id |-> Bucket[k.kernel],
   offtime |-> Offtime(c), t_start |-> k.t_start, t_end |-> k.t_end,
   left |-> left[running[c]], kernel |-> k.kernel, user |-> k.user]

\* The event is lost if the perf buffer is full: output has no result to test.
Output(c) ==
  /\ At(c, "output")
  /\ ring' = IF Len(ring[c]) < RingMax
             THEN [ring EXCEPT ![c] = Append(@, Event(c))] ELSE ring
  /\ Goto(c, "signal")
  /\ UNCHANGED <<world, running, startTimes, stackTraces, sigpending, reader>>

\* bpf_send_signal_thread(27); its result is not tested either.
SendSignal(c) ==
  /\ At(c, "signal")
  /\ \/ sigpending' = sigpending \cup {running[c]}
     \/ UNCHANGED sigpending
  /\ Return(c)
  /\ UNCHANGED <<world, running, startTimes, stackTraces, ring, reader>>

Kprobe(c) ==
  \/ RecordPrev(c) \/ RecordFails(c) \/ RecordNothing(c)
  \/ LookupCurrent(c) \/ LookupNone(c) \/ RemoveCurrent(c)
  \/ KernelStack(c) \/ StoreKernel(c) \/ UserStack(c) \/ StoreUser(c)
  \/ EventFails(c) \/ Output(c) \/ SendSignal(c)

ControlProgram == (\E c \in Cpus : ReadEvent(c)) \/ CopyOut \/ CopyBack

Next ==
  \/ \E c \in Cpus : Switch(c) \/ Kprobe(c) \/ TakeSignal(c)
  \/ \E t \in Tids : Exit(t) \/ \E o \in {"target", "other"} : Spawn(t, o)
  \/ ControlProgram
  \/ Tick

Spec == Init /\ [][Next]_vars
----------------------------------------------------------------------------
(***************************************************************************)
(* Properties                                                              *)
(***************************************************************************)

Steps ==
  {"idle", "record", "lookup", "remove",
   "kernel", "store kernel", "user", "store user", "output", "signal"}
Handler ==
  [step : Steps, prev : Tids \cup {Idle}, t_start : Nat, t_end : Nat,
   kernel : KernelStacks \cup {NoStack}, user : UserStacks \cup {NoStack}]

\* Every variable has its type; a perf buffer holds no more than it can, and
\* events of the target only.
TypeOK ==
  /\ now \in Nat
  /\ skew \in [Cpus -> 0..Skew]
  /\ owner \in [Tids -> {"target", "other", "free", "retired"}]
  /\ left \in [Tids -> Time]
  /\ running \in [Cpus -> Tids \cup {Idle}]
  /\ kprobe \in [Cpus -> Handler]
  /\ startTimes \in [Tids -> Time]
  /\ stackTraces \in [Buckets -> Stacks \cup {NoStack}]
  /\ ring \in [Cpus -> Seq(BlockEvent)]
  /\ \A c \in Cpus : Len(ring[c]) <= RingMax
  /\ sigpending \subseteq Tids
  /\ lookups \in Seq(Buckets)
  /\ copied \in Stacks \cup {NoStack} /\ (copied # NoStack => lookups # <<>>)

Events == UNION {{ring[c][i] : i \in 1..Len(ring[c])} : c \in Cpus}

\* An event is about a block that the thread really had: its t_start is the
\* time at which this very thread last left the CPU, not what an earlier
\* leaving or an earlier owner of the id put in START_TIMES.
BlockIsReal == \A e \in Events : e.left # Never /\ e.t_start = e.left

\* The duration of an event is no longer than the block: the unsigned
\* subtraction (main.rs:82) never wraps, though the two readings may come
\* from the clocks of two CPUs.
DurationIsReal == \A e \in Events : e.t_start + e.offtime * NsPerUs <= e.t_end

\* The bucket holds a stack, or it is being copied.
Readable(b) == stackTraces[b] # NoStack \/ (copied # NoStack /\ b = Head(lookups))

\* The control program finds a stack under every stack id of an event, however
\* long the event has waited and whatever events share the stack: a lookup that
\* found none would end process() (`?`, lib.rs:231 and 241), and JBM with it.
StacksReadable ==
  /\ \A e \in Events : Readable(e.kernel_stack_id) /\ Readable(e.user_stack_id)
  /\ \A i \in 1..Len(lookups) : Readable(lookups[i])

\* "... generates a backtrace from the kernel to userspace" (README.md:5): the
\* stack ids of an event that waits denote the stacks that the thread had.
EventStacksStay ==
  \A e \in Events :
    /\ stackTraces[e.kernel_stack_id] \in {e.kernel, NoStack}
    /\ stackTraces[e.user_stack_id] \in {e.user, NoStack}

\* A thread that runs has no entry: it was used up when it came back.  So a
\* live thread takes up room in the map only while it is off its CPU.
RunningHasNoEntry ==
  \A c \in Cpus :
    running[c] \in Tids /\ kprobe[c].step \notin {"record", "lookup", "remove"}
      => startTimes[running[c]] = Never

\* A thread runs on one CPU at most and not while a kprobe has it as prev, and
\* its id is its own as long as it runs.
OneCpu ==
  /\ \A c, d \in Cpus : running[c] \in Tids /\ running[c] = running[d] => c = d
  /\ \A c, d \in Cpus : ~At(c, "idle") /\ Prev(c) \in Tids => Prev(c) # running[d]
  /\ \A c \in Cpus : running[c] \in Tids => Live(running[c])

Detected(c) ==
  kprobe[c].step \in {"kernel", "store kernel", "user", "store user", "output", "signal"}

\* What a kprobe knows at each step, whatever the other CPUs do meanwhile.
Knows(c) ==
  /\ At(c, "remove") \/ Detected(c) => running[c] \in Tids
  /\ Detected(c) => owner[running[c]] = "target"
  /\ Detected(c) => kprobe[c].t_start <= kprobe[c].t_end
  /\ kprobe[c].step \in {"store kernel", "user", "store user", "output"} =>
       kprobe[c].kernel \in KernelStacks
  /\ kprobe[c].step \in {"user", "store user", "output"} => Readable(Bucket[kprobe[c].kernel])
  /\ kprobe[c].step \in {"store user", "output"} => kprobe[c].user \in UserStacks
  /\ At(c, "output") => Readable(Bucket[kprobe[c].user])
KprobeInv == \A c \in Cpus : Knows(c)

\* No entry of START_TIMES is an old one, and no t_start that was read from it.
EntriesFresh ==
  /\ \A t \in Tids : owner[t] = "free" => startTimes[t] = Never
  /\ \A t \in Tids :
       owner[t] = "target" /\ startTimes[t] # Never => startTimes[t] = left[t]
  /\ \A c \in Cpus :
       (At(c, "remove") \/ Detected(c)) /\ owner[running[c]] = "target"
         => kprobe[c].t_start = left[running[c]]

\* The current task of the CPU is a thread of the target that comes back from
\* a block whose length is in range.
BlockDue(c) ==
  LET t == running[c]
      end == IF kprobe[c].step \in {"record", "lookup"} THEN Ktime(c) ELSE kprobe[c].t_end
  IN /\ t \in Tids /\ owner[t] = "target" /\ left[t] # Never
     /\ left[t] + MinBlock * NsPerUs <= end
     /\ end < left[t] + (MaxBlock + 1) * NsPerUs

\* The kprobe never returns before it has detected a block that is due.
NoMissedBlock ==
  [][\A c \in Cpus :
       kprobe[c].step \in {"record", "lookup", "remove"} /\ kprobe'[c].step = "idle"
         => ~BlockDue(c)]_vars

\* A block that was detected is not dropped because the bucket of one of its
\* stacks is taken, as the control program's warning has it (lib.rs:275: "some
\* stacks may be missing in output").
DetectedIsOutput ==
  [][\A c \in Cpus :
       \/ At(c, "kernel") /\ \E s \in KernelStacks : ~StackFits(s)
       \/ At(c, "user") /\ \E s \in UserStacks : ~StackFits(s)
       => kprobe'[c].step # "idle"]_vars
=============================================================================
