---------------------------- MODULE BlockReport ----------------------------
(***************************************************************************)
(* What JBM's control program promises about the events it is given: the   *)
(* eBPF program's block events and async-profiler's JVM events.  Every     *)
(* block event is reported once, with no JVM stack or with one JVM event   *)
(* taken inside the match window, and no JVM event goes into two reports.  *)
(* How the pairs are found is left to EventStream, which implements this.  *)
(***************************************************************************)
EXTENDS Integers

CONSTANTS
  Threshold,    \* width of the match window, in ms
  NoJvm         \* stands for "no JVM event" in a report

VARIABLES
  pending,      \* the block events received and not yet reported
  available,    \* the JVM events received, not reported and not discarded
  reported      \* the reports made: records [bpf, jvm]

vars == <<pending, available, reported>>

\* The JVM stack was taken at or after the end of the block, within the window.
InWindow(pair) ==
  \/ pair.jvm = NoJvm
  \/ /\ pair.bpf.timestamp <= pair.jvm.timestamp
     /\ pair.jvm.timestamp < pair.bpf.timestamp + Threshold

Init ==
  /\ pending = {}
  /\ available = {}
  /\ reported = {}

Reported(b) == \E pair \in reported : pair.bpf = b

ReceiveBpf ==
  \E b \in pending' \ pending :
    /\ ~Reported(b)
    /\ pending' = pending \cup {b}
    /\ UNCHANGED <<available, reported>>

ReceiveJvm ==
  \E j \in available' \ available :
    /\ \A pair \in reported : pair.jvm # j
    /\ available' = available \cup {j}
    /\ UNCHANGED <<pending, reported>>

\* A JVM event for which no block event is left to report.
Discard ==
  \E j \in available :
    /\ available' = available \ {j}
    /\ UNCHANGED <<pending, reported>>

\* One round of reports, each using up its block event and its JVM event.
Report ==
  LET new == reported' \ reported
      used == {pair.jvm : pair \in new} \ {NoJvm}
  IN /\ reported \subseteq reported'
     /\ \A pair \in new : InWindow(pair)
     /\ \A p, q \in new : p.bpf = q.bpf => p = q
     /\ \A p, q \in new : p.jvm = q.jvm /\ p.jvm # NoJvm => p = q
     /\ {pair.bpf : pair \in new} \subseteq pending
     /\ used \subseteq available
     /\ pending' = pending \ {pair.bpf : pair \in new}
     /\ available' = available \ used

Next == ReceiveBpf \/ ReceiveJvm \/ Discard \/ Report

Spec == Init /\ [][Next]_vars
=============================================================================
