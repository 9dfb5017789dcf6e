-------------------------- MODULE LifecycleProofs --------------------------
(***************************************************************************)
(* Theorems about the start and the end of JBM (module Lifecycle), for any *)
(* number of CPUs and of launches.  Those about the profiler session need  *)
(* one JBM at a time: the stop command of one stops the session of another.*)
(***************************************************************************)
EXTENDS Lifecycle, TLAPS

OneAtATime == \A i, j \in Jbms : i = j

\* Where JBM works with the session that its start command began.
HasSession == {"load", "retry", "attach", "open", "loop", "drop"}

\* The session is there from the start command to the stop command, and where
\* no JBM is at work only one that was left is; it ends with the target.
SessionInv ==
  /\ target # "alive" => session = Idle
  /\ \A j \in Jbms : pc[j] \in HasSession /\ target = "alive" => session # Idle
  /\ \A j \in Jbms : pc[j] \in {"off", "create", "end"} /\ session # Idle => left

LEMMA InitInv == Init => TypeOK /\ SessionInv
<1> SUFFICES ASSUME Init PROVE TypeOK /\ SessionInv
  OBVIOUS
<1>1. TypeOK
  <2>1. 0 \in 0..NCpu /\ 0 \in 0..MaxLaunches
    BY LifecycleAssumption
  <2> QED BY <2>1 DEF Init, TypeOK, PCs
<1>2. SessionInv
  BY DEF Init, SessionInv, HasSession
<1> QED BY <1>1, <1>2

LEMMA TypeStep == TypeOK /\ [Next]_vars => TypeOK'
<1> SUFFICES ASSUME TypeOK, [Next]_vars PROVE TypeOK'
  OBVIOUS
<1> USE LifecycleAssumption DEF TypeOK, PCs, Goes
<1>1. ASSUME NEW j \in Jbms, Launch(j) PROVE TypeOK'
  BY <1>1 DEF Launch
<1>2. ASSUME NEW j \in Jbms, Starting(j) PROVE TypeOK'
  <2>1. CASE Create(j) BY <2>1 DEF Create
  <2>2. CASE StartProfiler(j) BY <2>2 DEF StartProfiler
  <2>3. CASE StartFails(j) BY <2>3 DEF StartFails
  <2>4. CASE Load(j) BY <2>4 DEF Load
  <2>5. CASE LoadAgain(j) BY <2>5 DEF LoadAgain
  <2>6. CASE Attach(j) BY <2>6 DEF Attach
  <2>7. CASE AttachFails(j) BY <2>7 DEF AttachFails
  <2>8. CASE OpenBuffer(j) BY <2>8 DEF OpenBuffer
  <2>9. CASE EndNew(j) BY <2>9 DEF EndNew
  <2> QED BY <1>2, <2>1, <2>2, <2>3, <2>4, <2>5, <2>6, <2>7, <2>8, <2>9 DEF Starting
<1>3. ASSUME NEW j \in Jbms, Interrupt(j) \/ NoticeEnd(j) PROVE TypeOK'
  BY <1>3 DEF Interrupt, NoticeEnd
<1>4. ASSUME NEW j \in Jbms, Ending(j) PROVE TypeOK'
  <2>1. CASE DropBpf(j) BY <2>1 DEF DropBpf
  <2>2. CASE StopProfiler(j) BY <2>2 DEF StopProfiler
  <2>3. CASE StopFails(j) BY <2>3 DEF StopFails
  <2>4. CASE StopNothing(j) BY <2>4 DEF StopNothing
  <2>5. CASE End(j) BY <2>5 DEF End
  <2> QED BY <1>4, <2>1, <2>2, <2>3, <2>4, <2>5 DEF Ending
<1>5. ASSUME NEW j \in Jbms, Kill(j) PROVE TypeOK'
  BY <1>5 DEF Kill
<1>6. CASE TargetExits
  BY <1>6 DEF TargetExits
<1>8. CASE TargetReaped
  BY <1>8 DEF TargetReaped
<1>7. CASE UNCHANGED vars
  BY <1>7 DEF vars
<1> QED BY <1>1, <1>2, <1>3, <1>4, <1>5, <1>6, <1>7, <1>8 DEF Next

LEMMA SessionStep ==
  ASSUME OneAtATime PROVE TypeOK /\ SessionInv /\ [Next]_vars => SessionInv'
<1> SUFFICES ASSUME TypeOK, SessionInv, [Next]_vars PROVE SessionInv'
  OBVIOUS
<1> USE LifecycleAssumption DEF TypeOK, PCs, Goes, SessionInv, HasSession, OneAtATime
<1>1. ASSUME NEW j \in Jbms, Launch(j) PROVE SessionInv'
  BY <1>1 DEF Launch
<1>2. ASSUME NEW j \in Jbms, Starting(j) PROVE SessionInv'
  <2>1. CASE Create(j) BY <2>1 DEF Create
  <2>2. CASE StartProfiler(j) BY <2>2 DEF StartProfiler
  <2>3. CASE StartFails(j) BY <2>3 DEF StartFails
  <2>4. CASE Load(j) BY <2>4 DEF Load
  <2>5. CASE LoadAgain(j) BY <2>5 DEF LoadAgain
  <2>6. CASE Attach(j) BY <2>6 DEF Attach
  <2>7. CASE AttachFails(j) BY <2>7 DEF AttachFails
  <2>8. CASE OpenBuffer(j) BY <2>8 DEF OpenBuffer
  <2>9. CASE EndNew(j) BY <2>9 DEF EndNew
  <2> QED BY <1>2, <2>1, <2>2, <2>3, <2>4, <2>5, <2>6, <2>7, <2>8, <2>9 DEF Starting
<1>3. ASSUME NEW j \in Jbms, Interrupt(j) \/ NoticeEnd(j) PROVE SessionInv'
  BY <1>3 DEF Interrupt, NoticeEnd
<1>4. ASSUME NEW j \in Jbms, Ending(j) PROVE SessionInv'
  <2>1. CASE DropBpf(j) BY <2>1 DEF DropBpf
  <2>2. CASE StopProfiler(j) BY <2>2 DEF StopProfiler
  <2>3. CASE StopFails(j) BY <2>3 DEF StopFails
  <2>4. CASE StopNothing(j) BY <2>4 DEF StopNothing, PidAlive
  <2>5. CASE End(j) BY <2>5 DEF End
  <2> QED BY <1>4, <2>1, <2>2, <2>3, <2>4, <2>5 DEF Ending
<1>5. ASSUME NEW j \in Jbms, Kill(j) PROVE SessionInv'
  BY <1>5 DEF Kill
<1>6. CASE TargetExits
  BY <1>6 DEF TargetExits
<1>8. CASE TargetReaped
  BY <1>8 DEF TargetReaped
<1>7. CASE UNCHANGED vars
  BY <1>7 DEF vars
<1> QED BY <1>1, <1>2, <1>3, <1>4, <1>5, <1>6, <1>7, <1>8 DEF Next

\* Every variable keeps its type, and a kprobe is attached only between Attach
\* and DropBpf (or a kill), however many JBMs there are.
THEOREM LifecycleTypeCorrect == Spec => []TypeOK
<1>1. Init => TypeOK
  BY InitInv
<1>2. TypeOK /\ [Next]_vars => TypeOK'
  BY TypeStep
<1> QED BY <1>1, <1>2, PTL DEF Spec

LEMMA SessionInvariant == ASSUME OneAtATime PROVE Spec => [](TypeOK /\ SessionInv)
<1>1. Init => TypeOK /\ SessionInv
  BY InitInv
<1>2. (TypeOK /\ SessionInv) /\ [Next]_vars => (TypeOK /\ SessionInv)'
  BY TypeStep, SessionStep
<1> QED BY <1>1, <1>2, PTL DEF Spec

\* With one JBM at a time the kprobe never signals a live target that has no
\* profiler session (main.rs:47-53, the order of Jbm's fields in lib.rs:34-39).
THEOREM ProfilerIsThere == ASSUME OneAtATime PROVE Spec => []ProfilerWhileAttached
<1>1. TypeOK /\ SessionInv => ProfilerWhileAttached
  BY DEF TypeOK, SessionInv, ProfilerWhileAttached, HasSession
<1> QED BY <1>1, SessionInvariant, PTL

\* With one JBM at a time no session is left behind but by a kill or by a stop
\* command that failed, whichever step of the start fails (async_profiler.rs:
\* 20-46, 100-111).
THEOREM NothingIsLeft == ASSUME OneAtATime PROVE Spec => []NothingLeftBehind
<1>1. TypeOK /\ SessionInv => NothingLeftBehind
  BY DEF TypeOK, SessionInv, NothingLeftBehind
<1> QED BY <1>1, SessionInvariant, PTL
=============================================================================
