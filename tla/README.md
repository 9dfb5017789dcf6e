# JBM: specifications and proofs

TLA+ models of [JBM](../src/README.md), the Java Blocking Monitor, checked with
TLC, with theorems checked by TLAPS. File and line numbers refer to the
repository; `lib.rs` is `src/jbm/src/lib.rs`, the eBPF program is
`src/jbm-ebpf/src/main.rs`.

## The system

JBM watches one JVM process. Each time a CPU switches tasks, an eBPF program
records when a thread of the target leaves the CPU; when the thread comes back
after a time in a configured range, the program stores its stacks, puts an event
in the CPU's perf buffer and sends the thread SIGPROF. A custom async-profiler
in the target answers the signal with a line of JSON, the thread's JVM stack, in
a file. The control program reads the perf buffers and the file, pairs block
events with JVM events of the same thread by their time, and prints the pairs.

    scheduler --kprobe--> eBPF program --perf buffers--> process() --+
                              |  START_TIMES, STACK_TRACES           +--> sweep() --> main() prints
                              +--SIGPROF--> async-profiler --file----+

| Component | State | Operations | Hard part |
|---|---|---|---|
| eBPF program (`jbm-ebpf/src/main.rs`) | START_TIMES (10240 thread ids), STACK_TRACES, EVENTS | `try_jbm`, on every CPU | runs on all CPUs at once on shared maps; maps fill up; clocks differ; thread ids are used again; every `?` ends it halfway |
| Event matching (`EventStream`, lib.rs:204-393) | one queue of block events and one of JVM events per thread | `add_bpf_event`, `sweep`, `find_matching_jvm_event` | the two streams arrive late, out of order and with gaps; take-over; unsigned times; waiting and giving up |
| `Jbm::process` (lib.rs:103-160) | perf buffers | one round of reading and sweeping | reads five events per buffer and round; time-outs; `?` drops a round |
| async-profiler provider (`async_profiler.rs`) | the output file and a reader | `start`, `fill_queue`, `Drop` | a line may be read before it is whole; the profiler outlives a crash of JBM |
| `Jbm::new`, `load_bpf` (lib.rs:42-101) | the loaded program | load, retry with more locked memory, attach | order with the profiler's start |
| `main` (`jbm/src/main.rs`) | - | loop until Ctrl-C or the end of the target | what is queued at exit is dropped |
| `compute_timestamp`, `time_now` (lib.rs:284-299, 399-404) | - | monotonic to wall-clock time | two clocks, truncation, a wall clock that is set |
| Symbol resolver (`symbol.rs`) | - | `resolve` | fails when the target is gone; not modelled |
| xtask, `vmlinux.rs`, the Java test app | - | build, generated types, test | none; not modelled |

What makes each correct:

- eBPF program: an event is about a block that the thread really had, with its
  real duration and with stacks that can be looked up; and a block in range is not
  missed.
- Event matching: every block event is reported once; a JVM event goes into one
  report at most, of its own thread, taken just after the block; nothing waits
  for ever.
- process and provider: no event is lost between the buffers, the file and the
  queues, and a report does not carry a stack from before its block, nor that of a
  later block while its own is to come.
- conversion of times: the time of a block is less than 2 ms before its end, and not
  in the future.
- start-up and shutdown: the kprobe is never there without a profiler session, and
  a JBM that ends leaves none behind.

## The modules

| Module | Models |
|---|---|
| `BlockProbe` | the eBPF program, step by step on each CPU, with the kernel around it |
| `MCBlockProbe` | instances of it for TLC |
| `EventStream` | the queues, `sweep` one loop iteration at a time, the loop of `process` and `main` |
| `MCEventStream` | instances of it for TLC |
| `BlockReport` | what event matching promises; `EventStream` implements it |
| `Timestamps` | `compute_timestamp`, as an operator |
| `Pipeline` | extends `EventStream` with what feeds it: perf buffers, the reads of `process`, SIGPROF, the profiler's file, both clocks |
| `Lifecycle` | start, exit and death of JBM, launch after launch, and of the target |
| `BlockProbeProofs`, `EventStreamProofs`, `TimestampProofs`, `LifecycleProofs`, `PipelineProofs` | theorems about the module of that name |
| `MatchingProofs` | theorems about what `EventStream` does with each event, and its refinement of `BlockReport` |
| `PipelineStackProofs` | the theorem about `Pipeline`'s order of adding and signalling, on top of `PipelineProofs` |
| `PipelineReportProofs` | the theorems about the places of a block and about the stack it is reported with, on top of `PipelineStackProofs` and `MatchingProofs` |

An operator whose comment starts with "Mutant" is a wrong version of the
definition after it. No specification uses it: replacing the definition by it
must make a property fail, which shows that the property depends on that line of
code.

### BlockProbe

`kprobe[c]` is the invocation of `try_jbm` on CPU `c`: the next step and the
locals. The steps are the accesses to shared state, in source order:

| Action | Code |
|---|---|
| `Switch` | the kernel switches the CPU to another task and enters `finish_task_switch` |
| `RecordPrev`, `RecordFails`, `RecordNothing` | lines 56-60: `START_TIMES.insert`, its `?`, not a thread of the target |
| `LookupCurrent`, `LookupNone` | lines 62-72 |
| `RemoveCurrent` | lines 73-86: remove, then the tests of tgid, clock and range, which touch only locals |
| `KernelStack`, `UserStack` | lines 89-90: `get_stackid` looks at the stack's bucket, and is done if the stack is there |
| `StoreKernel`, `StoreUser` | it stores the stack, if it found the bucket empty |
| `EventFails` | the `?`s of lines 89, 90 and 97 |
| `Output`, `SendSignal` | lines 92-105; neither result is tested |
| `ReadEvent`, `CopyOut`, `CopyBack` | the control program's `add_bpf_event`, lib.rs:223-279: it takes an event and looks its two stacks up, then may count the stacks in the map |
| `Spawn`, `Exit`, `TakeSignal`, `Tick` | the target, other processes, the profiler, time |

The kernel is external. `Switch` uses one fact about it: a task that leaves a CPU
cannot run elsewhere before `finish_task_switch` has got past its entry
(`on_cpu` is cleared in it), so the kprobe's `prev` is still. `Exit` may take the
thread id of any thread that is off its CPU: its last leaving was the one that
ended it. A thread id goes from `"free"` (never used) to an owner to
`"retired"`; a retired id may go to a different process, and to the target only
if `TargetReuse`. `Ktime(c)` adds a fixed skew to the time: the code tests for
`t_start > t_end`, so clocks may differ. `left` is a history variable, the
reading taken when a thread left its CPU, reset when the id gets a new owner.

The buckets of STACK_TRACES are shared by the CPUs and the control program, and the
kernel reads and writes them without a lock, each access being atomic by itself.
`bpf_get_stackid` reads the bucket, fails if another stack is there, and if there is
none exchanges the bucket for its own stack in a later step, whatever is there by
then. A lookup (`bpf_stackmap_copy`) takes the stack out, copies it and exchanges the
bucket for it: meanwhile a kprobe may find the bucket empty and store another stack.
`EventFails` is possible at any of its steps, since `get_stackid` may fail for reasons
other than a collision; where only a collision matters, `DetectedIsOutput`, the
property says so. `ring` stands for the events in a perf buffer and for those that the
control program has read and not added yet. The counting at lib.rs:271-272 may follow
any event, while the code does it after every `STACK_STORAGE_SIZE_CHECK_COUNT` events.
The error returns of lines 50-52 are left out: the first argument of a kprobe is
always there, and `prev`'s fields are kernel memory, which can be read.

A stack is a model value, and `Bucket` says where it hashes to. An event carries,
besides the fields of `BlockEvent` (without `name`), the history it is compared
with: `left` and the two stacks.

### EventStream

`pc` is the place in `main` and `process`: `"main"`, reading perf buffers
(`"bpf"`), reading the profiler's file (`"jvm"`), `"sweep"`, `"exited"`. An event
has an `id`, a thread and a wall-clock time in ms; it arrives with any time up to
the present (a JVM event: up to the time before the clock was last set back) and in
any order. That stands for `compute_timestamp`, which guesses
the wall-clock time of a monotonic reading, for per-CPU buffers that are read one
after the other, and for a profiler that was late. An absent key of either
hash map is the empty queue, so lines 342-347 of `lib.rs`, which remove empty
queues, leave nothing to do.

An iteration of `sweep`'s inner loop is one of `TakeOver`, `Match`,
`ReportUnmatched`; one of `find_matching_jvm_event`'s loop is `TrashJvm`; the
guards make each the branch that the code takes. `LeaveTid` is the end of the
inner loop, `SweepTid` the outer loop's next thread, in any order since a
hash map yields them. Unsigned subtraction wraps modulo `U64`. `Quit` is the end
of `main`'s loop or an error carried out of `process`.

### Pipeline

`Pipeline` takes the actions of `EventStream` on the queues (`AddBpfEvent`,
`EndBpf`, `FillQueue`, `Sweep`, `Quit`) and replaces the arbitrary arrivals by the
way of the events; `EventStream`'s own `ReceiveBpf`, `ReceiveJvm` and `Tick` are
not used. A block and the JVM event that its signal causes have one id.

| Action | Code |
|---|---|
| `Block` | the probe's output and signal, main.rs:102-105; `BlockProbe` has the steps before. The event is lost if the buffer is full or not open yet |
| `TakeSignal`, `WriteLine` | async-profiler: stack and time are taken in the handler; the line is written in two parts |
| `Pass` | both clocks; the wall clock shows whole milliseconds, which begin `Offset` ns before those of the monotonic clock (`Wall`) |
| `OpenBuffer` | lib.rs:81-84, after the kprobe is attached (line 76) |
| `ReadEvents(c)`, `ReadGivesUp(c)` | the future of buffer `c`, lines 106-139: at most `BufsPerRead` events, or an error or the time-out and none |
| `ReadKtime`, `AddEvent` | lines 142-152, event by event in the order of the CPUs; the two clock readings of `compute_timestamp` are two steps; with `kernel3x`, `Kill` after it (lines 161-169) |
| `ReadLine`, `ReadHalfLine` | `fill_queue`, a line or the beginning of one, which is skipped as malformed, as is the rest later |
| `SweepSteps`, `Exit` | `sweep`; the `?`s of `process` and the end of `main`'s loop |

The read of a buffer waits only before it reads (aya's `read_events`), so that the
time-out cannot take effect after events were taken out. `kernel3x` is chosen at
the start: it stands for the build variant; the eBPF program is the same in both.
`kill()` signals the process, so any thread may take the signal: `killed` is the one that
is pending for the process, `sigprof[t]` that of the probe for thread `t`, which the
thread takes first, as the kernel does (`Takes`). The wall clock is not set back in
`Pipeline`; that is `EventStream`'s `StepBack`.
`ends`, `dropped`, `unsignalled` and `noStack` are history: when each block ended
and what became of its event, its signal and its line.

### Lifecycle

`pc[j]` is where invocation `j` of JBM stands, from `create` (the output file) over
`start` (the profiler's command), `load`, `retry`, `attach` and `open` to `loop`,
then `drop` (the fields of `Jbm`, `bpf` first), `stop` (`Drop` of the provider) and
`end`. Each `?` on the way goes to the drops of what exists by then. `session` is
the profiler session in the target and who started it; `asprof` refuses a second
one, and its stop command stops whichever there is. `Kill` is any end without
drops; it includes Ctrl-C before `main` first polls `ctrl_c()`, which installs the
handler. The target may exit at any time and is a zombie until its parent waits for
it; `kill(pid, 0)` succeeds meanwhile.

## What the runs check

| Run | Shows |
|---|---|
| `probe_safety` | Two CPUs with skewed clocks, START_TIMES with room for one thread only, stacks that collide, the default (unlimited) maximum: an event is about a block that its thread had (`BlockIsReal`), is no longer than it (`DurationIsReal`) and its stack ids can be looked up however long it waits (`StacksReadable`). |
| `probe_complete` | With room for every id: no block in range is missed (`NoMissedBlock`), a running thread takes up no room (`RunningHasNoEntry`), and an id that passes to a different process makes no event (`BlockIsReal`). |
| `probe_tid_reuse` | Finding: `BlockIsReal` fails when a new thread of the target gets an old id. |
| `probe_leak` | Finding: `NoMissedBlock` fails when entries of exited threads fill START_TIMES. |
| `probe_stacks` | Finding: a stack whose bucket is taken drops the whole event. |
| `probe_other_stack` | Finding: the stack id of an event that waits denotes another thread's stack. |
| `safety` | For any arrivals, and a wall clock that may be set back: `PairInWindow`, `BpfReportedOnce`, `JvmUsedOnce`, `OneSideWaits`. |
| `clock` | With a wall clock that is not set back: an event's age never wraps (`AgeNeverWraps`), a report without a JVM stack has a reason (`MissingStackExplained`), `EventStream` implements `BlockReport` (`KeepsPromise`), and every queued block event is reported in the end or JBM exits (`EventuallyReported`). |
| `same_thread` | Finding: a take-over pairs a block of one thread with the JVM stack of another. |
| `pipeline` | From the perf buffers of two CPUs to the reports, in both build variants: no block is lost or taken twice (`BlockInOnePlace`); its time is less than two milliseconds before its end and not in the future (`StampNearEnd`; it may be late by the time that passes between the clock readings); with `kernel3x` it is not later than the stack that the control program asks for (`StampBeforeStack`); no block gets the stack of a later one of its thread while its own is to come or queued (`OwnStack`); and it is reported in the end (`BlockEventuallyReported`). |
| `pipeline_trash` | Finding: a JVM event is thrown away while its block event waits for it. |
| `lifecycle` | One JBM at a time, launched three times: the kprobe is never there without a session (`ProfilerWhileAttached`), a JBM that ends by itself leaves no session (`NothingLeftBehind`), none outlives the target (`EndsWithTarget`). |

### Findings

1. `same_thread`. `sweep` compares with `ret.last_mut()`, the last pair of the
   whole result, and never compares thread ids (lib.rs:316-323). The integration
   test asserts that the ids of a report are equal (lib.rs:465).
2. `probe_tid_reuse`. A thread's last switch leaves an entry in START_TIMES. The
   test of tgid removes it if a different process gets the id; for a new thread of
   the target it makes an event, though the thread was never off its CPU.
3. `probe_leak`. The entries of exited threads are never removed. When they fill
   the map, `insert(..)?` fails for every thread that has no entry and ends the
   probe for the current thread as well, silently.
4. `probe_stacks`. The warning speaks of stacks missing in the output; a stack
   that does not fit drops the event and the signal.
5. `pipeline_trash`. A JVM event older than the block event at the front is thrown
   away: "There should be no corresponding event for this, trash it." (lib.rs:364).
   There may be one, for the time of a block event can be too late: time that
   passes between `compute_timestamp`'s clock readings (lib.rs:285, 290) is added to
   it, and crossing a millisecond is enough. The block then waits 30 s and is
   reported without a stack, or with that of a later block. The same follows when a
   thread's events are read from two buffers in the order of the CPUs, or stay in
   the buffer for the next round.
6. `probe_other_stack`. Two CPUs that find a bucket empty both store their stack in it;
   so do a kprobe and the lookup of the control program, which empties the bucket while
   it copies the stack. The event of the one that stored first has the id of the other's
   stack and is reported with that backtrace. What holds is `StacksReadable`: there is a
   stack under the id.

`OwnStack` is about later blocks of the thread. It does not say that a block never gets
the stack of an earlier one: a time may be almost two milliseconds too early
(`StampNearEnd`), and with blocks of one millisecond, the default `min_block_us`, a block
may be reported with the stack of the one before it while its own is still to come (TLC
finds it with `LastBlock` 5 and `MaxKtime` 7). Nothing in the repository claims
otherwise, so this is no finding. How old such a stack can be is the theorem
`StacksAfterBlocks`: less than two milliseconds older than the end of the block.

### Bounds

- `BlockProbe`: two CPUs and two threads are enough for a thread to move from one
  CPU to another while the other CPU's probe runs, and for one thread to be `prev`
  where the other is current; three ids in `probe_leak`, so that one can leak and
  two live threads still fit. `NsPerUs` is 2, so that rounding down loses
  something. `MaxNow` of 3 or 4 ns lets a block be shorter than, at, and (in
  `probe_complete`, whose maximum is 1 us, with 3 ns) above the limits. A skew of 1 ns makes
  readings go back. A ring of one event makes it lose events. `U64` is 64, larger
  than every time.
- `EventStream`: two threads are enough for a take-over across threads; three block
  events and two JVM events for a chain of take-overs and for a queue that waits
  behind its front. `Threshold` and `GiveUp` are small, 1 to 3 ms, so that events
  fall on, before and after both limits; the code's 1 s and 30 s are of no special
  kind. `LastArrival` leaves time for the give-up time to pass after the last
  event. `MaxStepBack` is 0 where a property needs a clock that never goes back,
  and the properties of `safety` are checked with 1.

- `Pipeline`: two CPUs, buffers of two events and reads of one, so that buffers are
  full, are read in part, and are read in another order than they were filled. Two
  blocks of one thread are enough for a block to get the other's stack; what threads
  do to each other is `EventStream`'s matter. A millisecond has two ticks, so that
  truncation loses something, and `MinBlock` is one millisecond, the default. `Offset`
  is one tick, so that the two clocks' milliseconds do not begin together. No block
  ends after `LastBlock`, nor does a pause between the clock readings go on, so that
  `MaxKtime` leaves the give-up time for every block. With `LastBlock` 6 and `MaxKtime`
  8 the safety properties and `StackAfterBlock` hold as well (14.6 million states, too
  long for a regular run); the mutant `CanTakeOverOlder` breaks `StackAfterBlock` with
  5 and 7.
- `Lifecycle`: three launches are a crash, the launch that is refused because of
  what the crash left, and one that works again.

Deadlock is not checked: JBM may exit, and time ends at its bound.

### Fairness

- `EventStream` (`clock`): `main` loops without a pause, the waits in `process` end
  after a second at most (lib.rs:106), and reading the profiler's file stops at its
  end: so the loop makes its next step, `WF(BeginProcess \/ EndBpf \/ Sweep)`. Time
  passes: `WF(Tick)`. Nothing is assumed of arrivals or of an exit.
- `Pipeline`: the same, `WF(Process)` and `WF(Pass)`, and `SF(ReadEvents(c))`: each
  round reads each buffer anew, and may time out just when an event comes; but a
  buffer that is readable stays so, and its future finds that in a later round. Of
  the target and the profiler nothing is assumed.
- `Lifecycle`: the steps of start and end wait for nothing but a command that
  returns, and each round of the loop, a second at most, looks at the target:
  `WF` of `Starting(j)`, `Ending(j)` and `NoticeEnd(j)`.

## What is proved

Theorems hold for any threads, CPUs, sizes, limits and clocks that the `ASSUME`s
of the modules admit: `ConstantAssumption` and `NoJvmAssumption` in
`EventStream`, `ProbeAssumption` in `BlockProbe`, `NsPerMsAssumption` in
`Timestamps`, `PipelineAssumption` and `NotReadAssumption` in `Pipeline`,
`LifecycleAssumption` in `Lifecycle`. TLC evaluates them in each run.

| Theorem | States |
|---|---|
| `EventStreamProofs!TypeCorrect` | `Spec => []TypeOK` |
| `EventStreamProofs!PairsInWindow` | `Spec => []PairInWindow` |
| `EventStreamProofs!NothingOverdue` | `Spec => []OneSideWaits` |
| `MatchingProofs!BlocksReportedOnce` | `Spec => []BpfReportedOnce` |
| `MatchingProofs!JvmEventsUsedOnce` | `Spec => []JvmUsedOnce` |
| `MatchingProofs!PromiseKept` | `Spec => KeepsPromise`: `EventStream` implements `BlockReport` |
| `MatchingProofs!AgesDoNotWrap` | `MaxStepBack = 0 => (Spec => []AgeNeverWraps)` |
| `MatchingProofs!MissingStacksExplained` | `MaxStepBack = 0 => (Spec => []MissingStackExplained)` |
| `BlockProbeProofs!ProbeTypeCorrect` | `Spec => []TypeOK` |
| `BlockProbeProofs!DurationsAreReal` | `Spec => []DurationIsReal` |
| `BlockProbeProofs!StacksStayReadable` | `Spec => []StacksReadable` |
| `BlockProbeProofs!BlocksAreReal` | `~TargetReuse => (Spec => []BlockIsReal)` |
| `BlockProbeProofs!EntriesUsedUp` | `RoomForAll => (Spec => []RunningHasNoEntry)` |
| `BlockProbeProofs!NoBlockIsMissed` | `RoomForAll => (Spec => NoMissedBlock)` |
| `TimestampProofs!TimestampError` | the time of a block is at most 1 ms too early, and too late by no more than the time between the two clock readings |
| `LifecycleProofs!LifecycleTypeCorrect` | `Spec => []TypeOK` |
| `LifecycleProofs!ProfilerIsThere` | `OneAtATime => (Spec => []ProfilerWhileAttached)` |
| `LifecycleProofs!NothingIsLeft` | `OneAtATime => (Spec => []NothingLeftBehind)` |
| `PipelineProofs!PipelineTypeCorrect` | `PipelineSpec => []PipelineTypeOK` |
| `PipelineProofs!StampsNearEnd` | `PipelineSpec => []StampNearEnd` |
| `PipelineStackProofs!StampsBeforeStacks` | `PipelineSpec => []StampBeforeStack` |
| `PipelineReportProofs!BlocksInOnePlace` | `PipelineSpec => []BlockInOnePlace` |
| `PipelineReportProofs!StacksAfterBlocks` | `PipelineSpec => []StackAfterBlock`: a stack is less than 2 ms older than the end of the block it is reported with |
| `PipelineReportProofs!NoStackOfLaterBlock` | `PipelineSpec => []OwnStack` |

`TypeOK` of `EventStream` is inductive by itself. `PairInWindow` is inductive with
it: in a take-over the new distance is positive and less than the old one, which
the invariant bounds. `OneSideWaits` is inductive with it too: sweep touches only
the queues of the thread it is at, and leaves it with `OneSideWaits` true of it;
an event from the future, whose age wraps, is not overdue if it is kept.

`BpfReportedOnce` follows from `BpfApart`, that no block event is in two places, and
`BpfIds`, that the ids given out are those of the events there are. `SweepApart`
carries the proof: a step of `sweep` leaves the set of block events as it is
and keeps them apart, because whatever takes an event from the front of a queue puts it
into the result (`PopApart`). `JvmUsedOnce` is inductive with
`JvmIds`, that an id is given out once; its critical step is the take-over, which moves an
event from the last pair to a new one (`TakeOverMoves`). `SweepJvm` states with it that no
step of `sweep` loses a JVM event.

`PromiseKept` maps each step of `EventStream` to a step of `BlockReport`: an arrival to
`ReceiveBpf` or `ReceiveJvm`, `TrashJvm` to `Discard`, `SweepReturn` to `Report` of the
pairs in the result, and the others to a stutter, as what they do is between the queues
and the result. `Report` asks for pairs in the window, which is `PairInWindow`, and for
pairs that share no event, which is the two invariants above. The run checks the
refinement with a clock that is not set back; the theorem holds for every clock.

`AgeNeverWraps` and `MissingStackExplained` need `MaxStepBack = 0`, a wall clock that is
never set back. Both use `PastInv`: no queued block event is from after the start of the
sweep. `ExplainedInv` is `MissingStackExplained` for the reports and for the result of
the running sweep alike. It survives a take-over, which takes from a pair the JVM event
that may have explained another pair, because the new pair has that event and is later
than both (`TakeOverExplained`).

`TypeOK` of `BlockProbe` is not inductive: it says that events are of the target,
and the owner of the id was tested three steps before. The proofs use

- `OneCpu`: a thread runs on one CPU, is not `prev` of another CPU's kprobe while
  it runs, and its id is its own;
- `KprobeInv`: what a kprobe has established at each step (`Knows`): from
  `"kernel"` on the current task is a thread of the target and
  `t_start <= t_end`; there is a stack under the ids it got;
- `EntriesFresh`, for `BlocksAreReal`: an entry of a live thread of the target is
  the time of its own last leaving, an id never used has no entry, and a `t_start`
  that was read is still that time.

`TypeOK /\ OneCpu /\ KprobeInv` is inductive, and `EntriesFresh` relative to it.
`RecordPrev` is the critical step: it changes an entry and `left` together, and
`OneCpu` says that the thread is not current on any CPU whose kprobe has read the
old ones. If the map is full neither the old entry nor a new one is there, for
the insert can only fail for a thread that has no entry. `NewEvents` reduces
every property of the perf buffers to the event that `Output` adds.

`EntriesUsedUp` and `NoBlockIsMissed` assume `RoomForAll`, that START_TIMES has room for
every thread id there is: `probe_leak` shows that blocks are missed when the entries of
exited threads fill it. They rest on `EntryInv`: a thread of the target that has left its
CPU has an entry with that time (`EntryThere`) until it is back, a kprobe that has read
the entry has the time in its locals (`StartRead`), and a thread that runs has none. With
`RoomForAll` no insert fails (`InsertWorks`), and `OneCpu` says that no second CPU takes
the entry.

`TimestampError` holds for every resolution `NsPerMs`, every offset between the
clocks and every time between the readings; it is `StampNearEnd` with the time
between the readings made explicit. The one nonlinear fact it needs is that
products with `NsPerMs` are ordered as their factors (`Scale`).

`PipelineTypeOK` is not inductive: `compute_timestamp` subtracts, and its result is a
natural number only because a block ends in or after the clocks' first millisecond
(`EndsInv`) and an event keeps the time its block ended at (`UnreadInv`). It is
inductive together with `StampInv`, which adds that the clock is read when the events
of the round are there (`ReadingInv`), that what is queued or written is about a block
that has ended (`KnownInv`), and `StampNearEnd`. `AddEvent` is the critical step, by
`TimestampError`; `sweep` makes no new block event (`SweepKeeps`).

`StampBeforeStack` follows from `StackInv`, inductive relative to these: a block has
one event in the perf buffers and the results of the round, at most (`LineInv`); and
while it is there, a block whose signal failed in the probe has neither a pending
signal nor a stack (`UnaskedInv`). So its stack is taken when the event is queued, and
no time that is queued is in the future.

`BlockInOnePlace` counts the places of a block, and is not inductive as it stands.
`PlacesInv` says it with sets of ids: those in the lines of the CPUs (what was read and
then the buffer), those queued, in the result or reported, and those dropped have no id
in common and are together all blocks that have ended. With `LineInv` and `BpfApart`,
that an id is in one place of its kind, this is inductive, for a read moves events within
a line and `sweep` changes none of the sets (`SweepApart`); `PlacesOne` gets the number
from it.

`StackAfterBlock` needs no more: the time of a block event is less than two milliseconds
before the end of the block (`StampNearEnd`), and a JVM event that it is paired with is
not before that time (`PairInWindow`, inductive here too), through any take-overs.

`OwnStack` follows from `OwnInv`, inductive relative to these for both variants and any
`MinBlock`: for every block event there is, the stack of its block is on its way
(`OnItsWay`). Either it is pending as a signal, being written, in the file or queued, and
then every stack of the thread that is further on its way is of the block or of an earlier
one (`NoneLater`); or it is gone: not signalled, lost, trashed, or in a pair. There is one
lemma for each step that moves a stack. In `WayOfBlock` a signal that coalesces is lost;
in `WayOfTakeSignal` the thread's own signal goes before the process's, so that the
stacks that `kernel3x` asks for do not overtake those of the probe; in `WayOfWriteLine`,
`WayOfReadLine` and `WayOfSweep` the file and the queue keep their order. A new block
(`WayOfNewBlock`) is later than all stacks there are (`UnaskedInv`). If a block were
reported with the stack of a later one, that stack would have passed its own, unless its
own is gone.

`StacksReadable` is inductive with `TypeOK` and `KprobeInv`: a bucket that has held a
stack holds one from then on, or its stack is with the control program, which puts it
back (`Readable`). That a kprobe may replace one stack by another, which
`probe_other_stack` shows, changes nothing of it.

`ProfilerWhileAttached` and `NothingLeftBehind` follow from `SessionInv`, which is
inductive with `TypeOK`: while the target lives there is a session wherever a JBM
is between the start command and the stop command, and where no JBM is at work only
one that was `left`. Both need `OneAtATime`, at most one JBM per target: the stop command of
a JBM stops whichever session there is (`StopProfiler`), also that of another JBM. No
doc says that two may work on one target.

## What is not covered

- Model-checked only: liveness, which is out of the prover's reach. Every safety
  property that a passing run checks is also proved.
- Not modelled: text (names, symbols, frames, the printed report, logging);
  `event_count` and STACK_STORAGE_SIZE, which only decide when a warning is logged
  (lib.rs:270-277); the symbol resolver, a stateless call whose failure is part of
  `Quit`; xtask, which runs cargo; `vmlinux.rs`, generated declarations, by far the
  longest file and without behaviour.
- The options `--output`, `--discarded-events-output` and `--skip-jvm-stack` are
  parsed and not used.
- The queues of threads that have JVM events only (lib.rs:342) grow without bound;
  the repository claims no bound, so no property is stated.
- A pid that another process uses again while JBM runs (`pid_alive`). Two JBMs on one
  target at a time: `Lifecycle` admits them, no property is stated about them.
- A wall clock that is set while a block is on its way to the queues: `TimestampError`
  takes any offset of the clocks, the runs of `Pipeline` take one that stays.
- External, and modelled only by how the code uses it: the eBPF verifier and loader,
  async-profiler and the JVM, blazesym, tokio, the kernel. Whether async-profiler
  keeps its SIGPROF handler when a session is over is its own matter;
  `ProfilerWhileAttached` is stated about the session.

## Plan

1. `EventStream`, `BlockReport` (done): matching comes first, it is what JBM adds to
   its parts, and every later module feeds it.
2. `BlockProbe` (done): where blocks are detected.
3. `Timestamps` (done): the conversion of times, with its error bound.
4. `Pipeline` (done): composes `EventStream` and `Timestamps` with what feeds them.
5. `Lifecycle` (done): start-up, shutdown, crashes, the next launch.
6. Proofs (done for every safety property that the runs check).
