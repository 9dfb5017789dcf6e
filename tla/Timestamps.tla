----------------------------- MODULE Timestamps -----------------------------
(*****************************************************************************)
(* The two clocks of the control program (jbm/src/lib.rs): the eBPF program  *)
(* stamps the end of a block with the monotonic clock, in ns; the control    *)
(* program converts that to the wall clock's milliseconds.                   *)
(*****************************************************************************)
EXTENDS Integers

CONSTANT NsPerMs

ASSUME NsPerMsAssumption == NsPerMs \in Nat \ {0}

\* as_millis(): what is left of a millisecond is cut off.
Millis(ns) == ns \div NsPerMs

\* compute_timestamp: nowKtime is read from the monotonic clock, and after it
\* now, in ms, from the wall clock.
ComputeTimestamp(nowKtime, bpfKtime, now) ==
  Millis(now * NsPerMs - (nowKtime - bpfKtime))
=============================================================================
