-------------------------- MODULE TimestampProofs --------------------------
(***************************************************************************)
(* How far compute_timestamp can be off, for every resolution of the       *)
(* clocks, every pair of clocks and every time between their readings.     *)
(***************************************************************************)
EXTENDS Timestamps, TLAPS

\* as_millis() of a time is the largest number of milliseconds within it.
LEMMA MillisBounds ==
  ASSUME NEW ns \in Int
  PROVE  /\ Millis(ns) \in Int
         /\ Millis(ns) * NsPerMs <= ns
         /\ ns < (Millis(ns) + 1) * NsPerMs
  BY NsPerMsAssumption DEF Millis

\* Products with NsPerMs are ordered as their other factors are.
LEMMA Scale ==
  ASSUME NEW a \in Int, NEW b \in Int, a * NsPerMs < b * NsPerMs
  PROVE  a < b
<1>1. CASE b <= a
  <2>1. PICK d \in Nat : a = b + d
    <3>1. a - b \in Nat /\ a = b + (a - b)
      BY <1>1
    <3> QED BY <3>1
  <2>2. a * NsPerMs = b * NsPerMs + d * NsPerMs
    BY <2>1, NsPerMsAssumption
  <2>3. d * NsPerMs >= 0 /\ d * NsPerMs \in Int /\ b * NsPerMs \in Int
    BY <2>1, NsPerMsAssumption
  <2> QED BY <2>2, <2>3
<1> QED BY <1>1

\* The time that compute_timestamp gives to a block (lib.rs:284-299) is at most
\* a millisecond before its end, and no more after it than the time between the
\* two clock readings.  bpfKtime is the end of the block and k1, k2 are the
\* readings on the monotonic clock, which lags behind the wall clock by offset.
THEOREM TimestampError ==
  ASSUME NEW bpfKtime \in Nat, NEW k1 \in Nat, NEW k2 \in Nat, NEW offset \in Nat,
         bpfKtime <= k1, k1 <= k2
  PROVE  LET stamp == ComputeTimestamp(k1, bpfKtime, Millis(k2 + offset))
         IN /\ Millis(bpfKtime + offset) - 1 <= stamp
            /\ stamp <= Millis(bpfKtime + offset + (k2 - k1))
<1> DEFINE now   == Millis(k2 + offset)
           ns    == now * NsPerMs - (k1 - bpfKtime)
           stamp == Millis(ns)
           end   == Millis(bpfKtime + offset)
           late  == Millis(bpfKtime + offset + (k2 - k1))
<1>1. /\ now \in Int /\ now * NsPerMs \in Int
      /\ now * NsPerMs <= k2 + offset
      /\ k2 + offset < now * NsPerMs + NsPerMs
  BY MillisBounds, NsPerMsAssumption
<1>2. ns \in Int
  BY <1>1
<1>3. /\ stamp \in Int
      /\ stamp * NsPerMs <= ns
      /\ ns < (stamp + 1) * NsPerMs
  <2> HIDE DEF ns
  <2> QED BY <1>2, MillisBounds
<1>4. /\ end \in Int /\ end * NsPerMs <= bpfKtime + offset
  BY MillisBounds
<1>5. /\ late \in Int
      /\ bpfKtime + offset + (k2 - k1) < (late + 1) * NsPerMs
  <2>1. bpfKtime + offset + (k2 - k1) \in Int
    OBVIOUS
  <2> QED BY <2>1, MillisBounds
<1>6. end - 1 <= stamp
  <2>1. (end - 1) * NsPerMs = end * NsPerMs - NsPerMs
    BY <1>4, NsPerMsAssumption
  <2>2. (end - 1) * NsPerMs < (stamp + 1) * NsPerMs
    <3> HIDE DEF stamp, end, now
    <3>1. end * NsPerMs \in Int /\ (stamp + 1) * NsPerMs \in Int
      BY <1>3, <1>4, NsPerMsAssumption
    <3> QED BY <1>1, <1>3, <1>4, <2>1, <3>1, NsPerMsAssumption
  <2>3. end - 1 < stamp + 1
    <3> HIDE DEF stamp, end
    <3> QED BY <2>2, <1>3, <1>4, Scale
  <2> QED BY <2>3, <1>3, <1>4
<1>7. stamp <= late
  <2>1. stamp * NsPerMs < (late + 1) * NsPerMs
    <3> HIDE DEF stamp, late, now
    <3>1. stamp * NsPerMs \in Int /\ (late + 1) * NsPerMs \in Int
      BY <1>3, <1>5, NsPerMsAssumption
    <3> QED BY <1>1, <1>3, <1>5, <3>1
  <2>2. stamp < late + 1
    <3> HIDE DEF stamp, late
    <3> QED BY <2>1, <1>3, <1>5, Scale
  <2> QED BY <2>2, <1>3, <1>5
<1> QED BY <1>6, <1>7 DEF ComputeTimestamp
=============================================================================
