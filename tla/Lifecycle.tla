----------------------------- MODULE Lifecycle -----------------------------
(*****************************************************************************)
(* The start and the end of JBM (jbm/src/main.rs, Jbm::new in lib.rs, start  *)
(* and Drop in async_profiler.rs): a profiler session in the target and a    *)
(* kprobe in the kernel, both of which must be there while JBM works and     *)
(* gone when it has ended.  JBM may be launched again, and more than once    *)
(* at a time.                                                                *)
(*                                                                           *)
(* Covered: every fallible step of the start, a MEMLOCK limit that is too    *)
(* low, errors of process(), the end of the target, JBM killed at any time   *)
(* (also by Ctrl-C before main() first polls its future, which installs the  *)
(* handler), and a profiler command that fails.                              *)
(*****************************************************************************)
EXTENDS Integers

CONSTANTS
  Jbms,        \* the invocations of JBM on one target
  Idle,        \* the target has no profiler session
  NCpu,        \* the number of online CPUs: perf buffers to open
  MaxLaunches  \* bound: how often each is launched

ASSUME LifecycleAssumption ==
  /\ Idle \notin Jbms
  /\ NCpu \in Nat /\ MaxLaunches \in Nat

VARIABLES
  target,       \* the target: "alive", "zombie" or "gone"
  session,      \* whose start command started the profiler session, or Idle
  pc,           \* where each JBM stands
  attached,     \* its kprobe is in place
  opened,       \* how many perf buffers it has opened
  mapsFit,      \* MEMLOCK, as it is, allows the maps to be created
  launches,     \* history: how often each was launched
  left          \* history: the session outlived its JBM by a kill or a failed stop

vars == <<target, session, pc, attached, opened, mapsFit, launches, left>>

PCs == {"off", "create", "start", "load", "retry", "attach", "open", "loop", "drop", "stop", "end"}

Init ==
  /\ target = "alive"
  /\ session = Idle
  /\ pc = [j \in Jbms |-> "off"]
  /\ attached = [j \in Jbms |-> FALSE]
  /\ opened = [j \in Jbms |-> 0]
  /\ mapsFit \in BOOLEAN
  /\ launches = [j \in Jbms |-> 0]
  /\ left = FALSE

\* j goes from one step of its program to another.
Goes(j, from, to) == pc[j] = from /\ pc' = [pc EXCEPT ![j] = to]

\* main() is called.
Launch(j) ==
  /\ launches[j] < MaxLaunches
  /\ Goes(j, "off", "create")
  /\ launches' = [launches EXCEPT ![j] = @ + 1]
  /\ opened' = [opened EXCEPT ![j] = 0]
  /\ UNCHANGED <<target, session, attached, mapsFit, left>>
----------------------------------------------------------------------------
(***************************************************************************)
(* AsyncProfilerStackTraceProvider::start                                  *)
(***************************************************************************)

\* The output file is created and opened, or `?` returns before there is a
\* provider to drop.
Create(j) ==
  /\ Goes(j, "create", "start") \/ Goes(j, "create", "end")
  /\ UNCHANGED <<target, session, attached, opened, mapsFit, launches, left>>

\* exec_profiler_cmd("start"): async-profiler has one session in a process.
StartProfiler(j) ==
  /\ target = "alive" /\ session = Idle
  /\ Goes(j, "start", "load")
  /\ session' = j
  /\ UNCHANGED <<target, attached, opened, mapsFit, launches, left>>

\* Mutant: the provider is made only when the command has succeeded.
StartFailsUndropped(j) ==
  /\ Goes(j, "start", "end")
  /\ session' = session \/ (target = "alive" /\ session = Idle /\ session' = j)
  /\ UNCHANGED <<target, attached, opened, mapsFit, launches, left>>

\* The command fails: there is a session, the target has ended, the command
\* cannot be run, or it is killed when it has done its work.  `?` drops `this`,
\* which is a provider already.
StartFails(j) ==
  /\ Goes(j, "start", "stop")
  /\ session' = session \/ (target = "alive" /\ session = Idle /\ session' = j)
  /\ UNCHANGED <<target, attached, opened, mapsFit, launches, left>>
----------------------------------------------------------------------------
(*****************************************************************************)
(* Jbm::new; on an error its locals are dropped and then jvm_stack_provider  *)
(*****************************************************************************)

\* load_bpf succeeds; or it fails with a MapError, and setrlimit succeeds or
\* not; or it fails in another way.
Load(j) ==
  /\ \/ mapsFit /\ Goes(j, "load", "attach")
     \/ Goes(j, "load", "retry")
     \/ Goes(j, "load", "stop")
  /\ UNCHANGED <<target, session, attached, opened, mapsFit, launches, left>>

\* The limit is infinite now.
LoadAgain(j) ==
  /\ Goes(j, "retry", "attach") \/ Goes(j, "retry", "stop")
  /\ UNCHANGED <<target, session, attached, opened, mapsFit, launches, left>>

Attach(j) ==
  /\ Goes(j, "attach", "open")
  /\ attached' = [attached EXCEPT ![j] = TRUE]
  /\ UNCHANGED <<target, session, opened, mapsFit, launches, left>>

AttachFails(j) ==
  /\ Goes(j, "attach", "stop")
  /\ UNCHANGED <<target, session, attached, opened, mapsFit, launches, left>>

OpenBuffer(j) ==
  /\ pc[j] = "open" /\ opened[j] < NCpu
  /\ opened' = [opened EXCEPT ![j] = @ + 1]
  /\ UNCHANGED <<target, session, pc, attached, mapsFit, launches, left>>

\* All buffers are open; or the CPUs, the map or a buffer cannot be opened.
EndNew(j) ==
  /\ \/ opened[j] = NCpu /\ Goes(j, "open", "loop")
     \/ Goes(j, "open", "drop")
  /\ UNCHANGED <<target, session, attached, opened, mapsFit, launches, left>>
----------------------------------------------------------------------------
(***************************************************************************)
(* main()'s loop, and the drop of Jbm's fields in their order              *)
(***************************************************************************)

\* Ctrl-C, seen by has_done, or an error of process().
Interrupt(j) ==
  /\ Goes(j, "loop", "drop")
  /\ UNCHANGED <<target, session, attached, opened, mapsFit, launches, left>>

\* Mutant: the result of kill() is not looked at.
PidAliveAssumed == TRUE

\* kill(pid, 0) also succeeds while the target's parent has not waited for it.
PidAlive == target # "gone"

NoticeEnd(j) ==
  /\ ~PidAlive
  /\ Goes(j, "loop", "drop")
  /\ UNCHANGED <<target, session, attached, opened, mapsFit, launches, left>>

\* Mutant: jvm_stack_provider is dropped before bpf, which stays until the end.
DropBpfLast(j) ==
  /\ Goes(j, "drop", "stop")
  /\ UNCHANGED <<target, session, attached, opened, mapsFit, launches, left>>

\* bpf is the first field of Jbm: the kprobe is detached.
DropBpf(j) ==
  /\ Goes(j, "drop", "stop")
  /\ attached' = [attached EXCEPT ![j] = FALSE]
  /\ UNCHANGED <<target, session, opened, mapsFit, launches, left>>

\* Drop of the provider: exec_profiler_cmd("stop") stops the session, whoever
\* started it.
StopProfiler(j) ==
  /\ target = "alive"
  /\ Goes(j, "stop", "end")
  /\ session' = Idle /\ left' = FALSE
  /\ UNCHANGED <<target, attached, opened, mapsFit, launches>>

\* The command fails; Drop only logs it.
StopFails(j) ==
  /\ PidAlive
  /\ Goes(j, "stop", "end")
  /\ left' = (session # Idle)
  /\ UNCHANGED <<target, session, attached, opened, mapsFit, launches>>

\* pid_alive fails: there is nothing to stop.
StopNothing(j) ==
  /\ ~PidAlive
  /\ Goes(j, "stop", "end")
  /\ UNCHANGED <<target, session, attached, opened, mapsFit, launches, left>>

\* The process is gone, and with it what the kernel held open for it.
End(j) ==
  /\ Goes(j, "end", "off")
  /\ attached' = [attached EXCEPT ![j] = FALSE]
  /\ UNCHANGED <<target, session, opened, mapsFit, launches, left>>
----------------------------------------------------------------------------
(***************************************************************************)
(* What happens to JBM and to the target                                   *)
(***************************************************************************)

\* A kill that JBM does not handle: nothing is dropped.
Kill(j) ==
  /\ pc[j] # "off"
  /\ pc' = [pc EXCEPT ![j] = "off"]
  /\ attached' = [attached EXCEPT ![j] = FALSE]
  /\ left' = (left \/ session = j)
  /\ UNCHANGED <<target, session, opened, mapsFit, launches>>

\* The target exits, with its profiler session.
TargetExits ==
  /\ target = "alive"
  /\ target' = "zombie"
  /\ session' = Idle /\ left' = FALSE
  /\ UNCHANGED <<pc, attached, opened, mapsFit, launches>>

TargetReaped ==
  /\ target = "zombie"
  /\ target' = "gone"
  /\ UNCHANGED <<session, pc, attached, opened, mapsFit, launches, left>>

Starting(j) ==
  Create(j) \/ StartProfiler(j) \/ StartFails(j) \/ Load(j) \/ LoadAgain(j)
  \/ Attach(j) \/ AttachFails(j) \/ OpenBuffer(j) \/ EndNew(j)
Ending(j) == DropBpf(j) \/ StopProfiler(j) \/ StopFails(j) \/ StopNothing(j) \/ End(j)

Next ==
  \/ \E j \in Jbms :
       Launch(j) \/ Starting(j) \/ Interrupt(j) \/ NoticeEnd(j) \/ Ending(j) \/ Kill(j)
  \/ TargetExits \/ TargetReaped

Spec == Init /\ [][Next]_vars

\* No step of the start or the end waits for anything, but for a command that
\* returns; and the loop looks at the target in each of its rounds, which last
\* a second at most.
Fairness == \A j \in Jbms : WF_vars(Starting(j)) /\ WF_vars(Ending(j)) /\ WF_vars(NoticeEnd(j))

FairSpec == Spec /\ Fairness
----------------------------------------------------------------------------
(***************************************************************************)
(* Properties                                                              *)
(***************************************************************************)

\* Every variable has its type; a kprobe is in place only where pc allows it.
TypeOK ==
  /\ target \in {"alive", "zombie", "gone"}
  /\ session \in Jbms \cup {Idle}
  /\ pc \in [Jbms -> PCs]
  /\ attached \in [Jbms -> BOOLEAN]
  /\ opened \in [Jbms -> 0..NCpu]
  /\ mapsFit \in BOOLEAN
  /\ launches \in [Jbms -> 0..MaxLaunches]
  /\ left \in BOOLEAN
  /\ \A j \in Jbms : attached[j] => pc[j] \in {"open", "loop", "drop"}
  /\ left => session # Idle

\* The custom async-profiler is attached to the target while the eBPF program
\* may signal it (README, "How it works"): without its SIGPROF handler the
\* signal's default action would kill the target, and a session that is over
\* makes no JVM events.  The order of the start and of the drops gives it.
ProfilerWhileAttached ==
  target = "alive" /\ (\E j \in Jbms : attached[j]) => session # Idle

\* A JBM that ends leaves no profiler session in the target, neither its own nor
\* one that it found there, unless it was killed or its stop command failed.  So
\* after a kill the next JBM is refused, but not the one after that.
NothingLeftBehind ==
  session # Idle /\ (\A j \in Jbms : pc[j] = "off") => left

\* When the target is gone every JBM ends, wherever it stands.
EndsWithTarget == \A j \in Jbms : target = "gone" /\ pc[j] # "off" ~> pc[j] = "off"
=============================================================================
