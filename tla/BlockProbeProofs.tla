-------------------------- MODULE BlockProbeProofs --------------------------
(***************************************************************************)
(* Theorems about BlockProbe, for any number of CPUs and threads, any      *)
(* sizes of the maps, reader, any limits and any clock skew.                       *)
(***************************************************************************)
EXTENDS BlockProbe, FiniteSetTheorems, TLAPS

(***************************************************************************)
(* The inductive invariant.  TypeOK says that events are of the target, so *)
(* it needs OneCpu and KprobeInv: between the test of tgid and the output  *)
(* the id of the current task must not change hands.                       *)
(***************************************************************************)
Inv == TypeOK /\ OneCpu /\ KprobeInv

\* A kprobe goes to its next step; its locals and the other kprobes stay.
LEMMA GotoHandler ==
  ASSUME NEW c \in Cpus, kprobe \in [Cpus -> Handler], NEW s \in Steps, Goto(c, s)
  PROVE  /\ kprobe' \in [Cpus -> Handler]
         /\ kprobe'[c].step = s /\ kprobe'[c].prev = kprobe[c].prev
         /\ kprobe'[c].t_start = kprobe[c].t_start /\ kprobe'[c].t_end = kprobe[c].t_end
         /\ kprobe'[c].kernel = kprobe[c].kernel /\ kprobe'[c].user = kprobe[c].user
         /\ \A d \in Cpus \ {c} : kprobe'[d] = kprobe[d]
BY DEF Goto, Handler

LEMMA ReturnHandler ==
  ASSUME NEW c \in Cpus, kprobe \in [Cpus -> Handler], Return(c)
  PROVE  /\ kprobe' \in [Cpus -> Handler]
         /\ kprobe'[c].step = "idle"
         /\ \A d \in Cpus \ {c} : kprobe'[d] = kprobe[d]
<1>1. NotRunning \in Handler /\ NotRunning.step = "idle"
  BY DEF NotRunning, Handler, Steps
<1> QED
  BY <1>1 DEF Return

LEMMA KtimeType == ASSUME TypeOK, NEW c \in Cpus PROVE Ktime(c) \in Nat
BY ProbeAssumption DEF TypeOK, Ktime

\* With its operands in order, the duration is a number of microseconds no
\* longer than the block.
LEMMA OfftimeType ==
  ASSUME NEW c \in Cpus, kprobe \in [Cpus -> Handler],
         kprobe[c].t_start <= kprobe[c].t_end
  PROVE  /\ Offtime(c) \in Nat
         /\ kprobe[c].t_start + Offtime(c) * NsPerUs <= kprobe[c].t_end
<1> DEFINE d == kprobe[c].t_end - kprobe[c].t_start
<1>1. kprobe[c].t_start \in Nat /\ kprobe[c].t_end \in Nat
  BY DEF Handler
<1>2. d \in Nat /\ NsPerUs \in Nat \ {0}
  BY <1>1, ProbeAssumption
<1>3. Offtime(c) = d \div NsPerUs
  BY <1>2 DEF Offtime
<1>4. d \div NsPerUs \in Nat /\ (d \div NsPerUs) * NsPerUs <= d
  <2> HIDE DEF d
  <2> QED BY <1>2
<1> QED
  BY <1>1, <1>2, <1>3, <1>4
----------------------------------------------------------------------------
(***************************************************************************)
(* The steps                                                               *)
(***************************************************************************)

LEMMA InvInit == Init => Inv
<1> SUFFICES ASSUME Init PROVE Inv
  OBVIOUS
<1>1. TypeOK
  BY ProbeAssumption DEF Init, TypeOK, NotRunning, Handler, Steps, Time
<1>2. OneCpu /\ KprobeInv
  BY ProbeAssumption DEF Init, OneCpu, KprobeInv, Knows, NotRunning, At, Detected
<1> QED
  BY <1>1, <1>2 DEF Inv

\* A step that moves no kprobe and no task keeps what the kprobes know, if it
\* keeps the owners of the ids and the stacks.
LEMMA StillInv ==
  ASSUME OneCpu, KprobeInv, UNCHANGED <<owner, running, kprobe, stackTraces, lookups, copied>>
  PROVE  (OneCpu /\ KprobeInv)'
BY DEF OneCpu, KprobeInv, Knows, Live, At, Prev, Detected, Readable

\* A kprobe that moves on keeps OneCpu.
LEMMA OneCpuStep ==
  ASSUME OneCpu, NEW c \in Cpus, ~At(c, "idle"), UNCHANGED <<owner, running>>,
         kprobe'[c].step = "idle" \/ kprobe'[c].prev = kprobe[c].prev,
         \A d \in Cpus \ {c} : kprobe'[d] = kprobe[d]
  PROVE  OneCpu'
BY DEF OneCpu, Live, At, Prev

\* What the kprobe of a CPU knows is not disturbed by one of another CPU.
LEMMA OthersKnow ==
  ASSUME KprobeInv, NEW c \in Cpus, NEW d \in Cpus \ {c},
         kprobe'[d] = kprobe[d], running'[d] = running[d],
         running[d] \in Tids => owner'[running[d]] = owner[running[d]],
         \A b \in Buckets : Readable(b) => Readable(b)'
  PROVE  Knows(d)'
<1>1. Knows(d)
  BY DEF KprobeInv
<1>2. \A s \in KernelStacks \cup UserStacks : Readable(Bucket[s]) => Readable(Bucket[s])'
  BY DEF Stacks, Buckets
<1> HIDE DEF Readable
<1> QED
  BY <1>1, <1>2 DEF Knows, At, Detected

\* A kprobe that returns keeps it too.
LEMMA ReturnInv ==
  ASSUME Inv, NEW c \in Cpus, ~At(c, "idle"), Return(c),
         UNCHANGED <<owner, running, stackTraces, lookups, copied>>
  PROVE  (OneCpu /\ KprobeInv)'
<1>1. kprobe \in [Cpus -> Handler]
  BY DEF Inv, TypeOK
<1>2. kprobe'[c].step = "idle" /\ \A d \in Cpus \ {c} : kprobe'[d] = kprobe[d]
  BY <1>1, ReturnHandler
<1>3. OneCpu'
  BY <1>2, OneCpuStep DEF Inv
<1>4. Knows(c)'
  BY <1>2 DEF Knows, At, Detected
<1>5. \A d \in Cpus \ {c} : Knows(d)'
  BY <1>2, OthersKnow DEF Inv, Readable
<1> QED
  BY <1>3, <1>4, <1>5 DEF KprobeInv

LEMMA SwitchInv == ASSUME Inv, NEW c \in Cpus, Switch(c) PROVE Inv'
<1>1. PICK next \in {t \in Tids : Live(t) /\ ~OnCpu(t)} \cup {Idle} :
        next # running[c] /\ running' = [running EXCEPT ![c] = next]
  BY DEF Switch
<1>2. UNCHANGED <<now, skew, owner, left, startTimes, stackTraces, ring, sigpending, lookups, copied>>
  BY DEF Switch, world, maps, reader
<1>3. kprobe \in [Cpus -> Handler] /\ running \in [Cpus -> Tids \cup {Idle}]
  BY DEF Inv, TypeOK
<1>4. [kprobe[c] EXCEPT !.step = "record", !.prev = running[c]] \in Handler
  BY <1>3 DEF Handler, Steps
<1>5. kprobe' = [kprobe EXCEPT ![c] = [kprobe[c] EXCEPT !.step = "record", !.prev = running[c]]]
  BY DEF Switch
<1>6. /\ kprobe' \in [Cpus -> Handler]
      /\ kprobe'[c].step = "record" /\ kprobe'[c].prev = running[c]
      /\ \A d \in Cpus \ {c} : kprobe'[d] = kprobe[d]
  BY <1>3, <1>4, <1>5 DEF Handler
<1>7. /\ running'[c] = next /\ \A d \in Cpus \ {c} : running'[d] = running[d]
      /\ running' \in [Cpus -> Tids \cup {Idle}]
  BY <1>1, <1>3
<1>8. TypeOK'
  BY <1>2, <1>6, <1>7 DEF Inv, TypeOK
<1>9. OneCpu'
  <2>1. next \in Tids => Live(next) /\ ~OnCpu(next)
    BY <1>1, ProbeAssumption
  <2>2. \A a, d \in Cpus : running'[a] \in Tids /\ running'[a] = running'[d] => a = d
    BY <1>7, <2>1 DEF Inv, OneCpu, OnCpu
  <2>3. ASSUME NEW a \in Cpus, NEW d \in Cpus, kprobe'[a].step # "idle", kprobe'[a].prev \in Tids
        PROVE  kprobe'[a].prev # running'[d]
    <3>1. CASE a = c /\ d = c
      BY <1>1, <1>6, <1>7, <3>1
    <3>2. CASE a = c /\ d # c
      BY <1>6, <1>7, <2>3, <3>2 DEF Inv, OneCpu
    <3>3. CASE a # c /\ d = c
      BY <1>6, <1>7, <2>1, <2>3, <3>3 DEF OnCpu, At
    <3>4. CASE a # c /\ d # c
      BY <1>6, <1>7, <2>3, <3>4 DEF Inv, OneCpu, At, Prev
    <3> QED
      BY <3>1, <3>2, <3>3, <3>4
  <2>4. \A a \in Cpus : running'[a] \in Tids => Live(running'[a])
    BY <1>7, <2>1 DEF Inv, OneCpu
  <2> QED
    BY <1>2, <2>2, <2>3, <2>4 DEF OneCpu, Live, At, Prev
<1>10. Knows(c)'
  <2>1. /\ ~Detected(c)' /\ ~At(c, "remove")'
        /\ kprobe'[c].step \notin {"store kernel", "user", "store user", "output"}
    BY <1>6 DEF Detected, At
  <2> QED BY <2>1 DEF Knows, At
<1>11. \A d \in Cpus \ {c} : Knows(d)'
  <2>1. \A b \in Buckets : Readable(b) => Readable(b)'
    BY <1>2 DEF Readable
  <2> QED BY <1>2, <1>6, <1>7, <2>1, OthersKnow DEF Inv
<1> QED
  BY <1>8, <1>9, <1>10, <1>11 DEF Inv, KprobeInv

LEMMA ExitInv == ASSUME Inv, NEW t \in Tids, Exit(t) PROVE Inv'
<1>1. \A c \in Cpus : running[c] # t
  BY DEF Exit, OnCpu
<1>2. owner' \in [Tids -> {"target", "other", "free", "retired"}]
  BY DEF Exit, Inv, TypeOK, reader
<1>3. \A u \in Tids \ {t} : owner'[u] = owner[u]
  BY DEF Exit, Inv, TypeOK, reader
<1>4. TypeOK'
  BY <1>2 DEF Exit, Inv, TypeOK, reader
<1>5. OneCpu' /\ KprobeInv'
  BY <1>1, <1>3 DEF Exit, Inv, OneCpu, KprobeInv, Knows, At, Prev, Detected, Readable, Live, reader
<1> QED
  BY <1>4, <1>5 DEF Inv

LEMMA SpawnInv ==
  ASSUME Inv, NEW t \in Tids, NEW o \in {"target", "other"}, Spawn(t, o)
  PROVE  Inv'
<1>1. \A c \in Cpus : running[c] # t
  BY DEF Spawn, Inv, OneCpu, Live
<1>2. owner' \in [Tids -> {"target", "other", "free", "retired"}]
  BY DEF Spawn, Inv, TypeOK
<1>3. \A u \in Tids \ {t} : owner'[u] = owner[u]
  BY DEF Spawn, Inv, TypeOK
<1>4. left' \in [Tids -> Time]
  BY DEF Spawn, Inv, TypeOK, Time
<1>5. TypeOK'
  BY <1>2, <1>4 DEF Spawn, Inv, TypeOK, maps, reader
<1>6. OneCpu' /\ KprobeInv'
  BY <1>1, <1>3 DEF Spawn, Inv, OneCpu, KprobeInv, Knows, At, Prev, Detected, Readable, Live, maps, reader
<1> QED
  BY <1>5, <1>6 DEF Inv

LEMMA RecordInv ==
  ASSUME Inv, NEW c \in Cpus, RecordPrev(c) \/ RecordFails(c) \/ RecordNothing(c)
  PROVE  Inv'
<1>1. Ktime(c) \in Nat /\ kprobe \in [Cpus -> Handler] /\ kprobe[c].step = "record"
  BY KtimeType DEF Inv, TypeOK, RecordPrev, RecordFails, RecordNothing, At
<1>2. CASE RecordFails(c)
  <2>1. left' \in [Tids -> Time] /\ kprobe' \in [Cpus -> Handler]
    BY <1>1, <1>2, ReturnHandler DEF RecordFails, Inv, TypeOK, Time
  <2>2. TypeOK'
    BY <1>2, <2>1 DEF RecordFails, Inv, TypeOK, maps, reader
  <2> QED
    BY <1>1, <1>2, <2>2, ReturnInv DEF RecordFails, Inv, At, maps, reader
<1>3. CASE RecordPrev(c) \/ RecordNothing(c)
  <2>1. /\ Goto(c, "lookup")
        /\ UNCHANGED <<now, skew, owner, running, stackTraces, ring, sigpending, lookups, copied>>
    BY <1>3 DEF RecordPrev, RecordNothing, world, maps, reader
  <2>2. /\ kprobe' \in [Cpus -> Handler]
        /\ kprobe'[c].step = "lookup" /\ kprobe'[c].prev = kprobe[c].prev
        /\ \A d \in Cpus \ {c} : kprobe'[d] = kprobe[d]
    BY <1>1, <2>1, GotoHandler DEF Steps
  <2>3. left' \in [Tids -> Time] /\ startTimes' \in [Tids -> Time]
    BY <1>1, <1>3 DEF RecordPrev, RecordNothing, Insert, Inv, TypeOK, Time, world, maps, reader
  <2>4. TypeOK'
    BY <2>1, <2>2, <2>3 DEF Inv, TypeOK
  <2>5. OneCpu'
    BY <1>1, <2>1, <2>2, OneCpuStep DEF Inv, At
  <2>6. Knows(c)'
    BY <2>2 DEF Knows, At, Detected
  <2>7. \A d \in Cpus \ {c} : Knows(d)'
    BY <2>1, <2>2, OthersKnow DEF Inv, Readable
  <2> QED
    BY <2>4, <2>5, <2>6, <2>7 DEF Inv, KprobeInv
<1> QED
  BY <1>2, <1>3

LEMMA LookupInv ==
  ASSUME Inv, NEW c \in Cpus, LookupCurrent(c) \/ LookupNone(c)
  PROVE  Inv'
<1>1. Ktime(c) \in Nat /\ kprobe \in [Cpus -> Handler] /\ kprobe[c].step = "lookup"
  BY KtimeType DEF Inv, TypeOK, LookupCurrent, LookupNone, At
<1>2. CASE LookupNone(c)
  <2>1. TypeOK'
    BY <1>1, <1>2, ReturnHandler DEF LookupNone, Inv, TypeOK, world, maps, reader
  <2> QED
    BY <1>1, <1>2, <2>1, ReturnInv DEF LookupNone, Inv, At, world, maps, reader
<1>3. CASE LookupCurrent(c)
  <2>1. running[c] \in Tids /\ startTimes[running[c]] \in Nat
    BY <1>3 DEF LookupCurrent, HasEntry, Inv, TypeOK, Time
  <2>2. UNCHANGED <<now, skew, owner, left, running, startTimes, stackTraces, ring, sigpending, lookups, copied>>
    BY <1>3 DEF LookupCurrent, world, maps, reader
  <2>3. /\ kprobe' \in [Cpus -> Handler]
        /\ kprobe'[c].step = "remove" /\ kprobe'[c].prev = kprobe[c].prev
        /\ \A d \in Cpus \ {c} : kprobe'[d] = kprobe[d]
    <3> DEFINE h == [kprobe[c] EXCEPT !.step = "remove",
                       !.t_start = startTimes[running[c]], !.t_end = Ktime(c)]
    <3>1. h \in Handler /\ h.step = "remove" /\ h.prev = kprobe[c].prev
      BY <1>1, <2>1 DEF Handler, Steps
    <3>2. kprobe' = [kprobe EXCEPT ![c] = h]
      BY <1>3 DEF LookupCurrent
    <3> HIDE DEF h
    <3> QED
      BY <1>1, <3>1, <3>2
  <2>4. TypeOK'
    BY <2>2, <2>3 DEF Inv, TypeOK
  <2>5. OneCpu'
    BY <1>1, <2>2, <2>3, OneCpuStep DEF Inv, At
  <2>6. Knows(c)'
    BY <2>1, <2>2, <2>3 DEF Knows, At, Detected
  <2>7. \A d \in Cpus \ {c} : Knows(d)'
    BY <2>2, <2>3, OthersKnow DEF Inv, Readable
  <2> QED
    BY <2>4, <2>5, <2>6, <2>7 DEF Inv, KprobeInv
<1> QED
  BY <1>2, <1>3

LEMMA RemoveInv == ASSUME Inv, NEW c \in Cpus, RemoveCurrent(c) PROVE Inv'
<1>1. kprobe \in [Cpus -> Handler] /\ kprobe[c].step = "remove" /\ running[c] \in Tids
  BY DEF Inv, TypeOK, KprobeInv, Knows, RemoveCurrent, At
<1>2. UNCHANGED <<now, skew, owner, left, running, stackTraces, ring, sigpending, lookups, copied>>
  BY DEF RemoveCurrent, world, reader
<1>3. startTimes' \in [Tids -> Time]
  BY <1>1 DEF RemoveCurrent, Inv, TypeOK, Time
<1>4. CASE Return(c)
  <2>1. TypeOK'
    BY <1>1, <1>2, <1>3, <1>4, ReturnHandler DEF Inv, TypeOK
  <2> QED
    BY <1>1, <1>2, <1>4, <2>1, ReturnInv DEF Inv, At
<1>5. CASE Reportable(c) /\ Goto(c, "kernel")
  <2>1. /\ kprobe' \in [Cpus -> Handler]
        /\ kprobe'[c].step = "kernel" /\ kprobe'[c].prev = kprobe[c].prev
        /\ kprobe'[c].t_start = kprobe[c].t_start /\ kprobe'[c].t_end = kprobe[c].t_end
        /\ \A d \in Cpus \ {c} : kprobe'[d] = kprobe[d]
    BY <1>1, <1>5, GotoHandler DEF Steps
  <2>2. owner[running[c]] = "target" /\ kprobe[c].t_start <= kprobe[c].t_end
    <3>1. kprobe[c].t_start \in Nat /\ kprobe[c].t_end \in Nat
      BY <1>1 DEF Handler
    <3> QED
      BY <1>5, <3>1 DEF Reportable, WrongProcess, ClockWentBack
  <2>3. TypeOK'
    BY <1>2, <1>3, <2>1 DEF Inv, TypeOK
  <2>4. OneCpu'
    BY <1>1, <1>2, <2>1, OneCpuStep DEF Inv, At
  <2>5. Knows(c)'
    BY <1>1, <1>2, <2>1, <2>2 DEF Knows, At, Detected
  <2>6. \A d \in Cpus \ {c} : Knows(d)'
    BY <1>2, <2>1, OthersKnow DEF Inv, Readable
  <2> QED
    BY <2>3, <2>4, <2>5, <2>6 DEF Inv, KprobeInv
<1> QED
  BY <1>4, <1>5 DEF RemoveCurrent, Decide

\* A kprobe that stores a stack leaves no bucket empty.
LEMMA StoreKeeps ==
  ASSUME TypeOK, NEW s \in Stacks, Store(s), UNCHANGED <<lookups, copied>>
  PROVE  /\ stackTraces' \in [Buckets -> Stacks \cup {NoStack}]
         /\ Readable(Bucket[s])'
         /\ \A b \in Buckets : Readable(b) => Readable(b)'
<1>1. Bucket[s] \in Buckets /\ s # NoStack
  BY ProbeAssumption DEF Buckets
<1>2. /\ stackTraces \in [Buckets -> Stacks \cup {NoStack}]
      /\ stackTraces' = [stackTraces EXCEPT ![Bucket[s]] = s]
  BY DEF TypeOK, Store
<1> QED
  BY <1>1, <1>2 DEF Readable

\* A kprobe goes on with the stacks of its event: it may store one, and knows
\* more at its next step.
LEMMA MoreStacks ==
  ASSUME Inv, NEW c \in Cpus, NEW s \in Steps, ~At(c, "idle"), s # "idle",
         kprobe' \in [Cpus -> Handler],
         kprobe'[c].step = s, kprobe'[c].prev = kprobe[c].prev,
         \A d \in Cpus \ {c} : kprobe'[d] = kprobe[d],
         stackTraces' \in [Buckets -> Stacks \cup {NoStack}],
         \A b \in Buckets : Readable(b) => Readable(b)',
         UNCHANGED <<now, skew, owner, left, running, startTimes, ring, sigpending, lookups, copied>>,
         Knows(c)'
  PROVE  Inv'
<1>1. TypeOK'
  BY DEF Inv, TypeOK
<1>2. OneCpu'
  BY OneCpuStep DEF Inv
<1>3. \A d \in Cpus \ {c} : Knows(d)'
  BY OthersKnow DEF Inv
<1> QED
  BY <1>1, <1>2, <1>3 DEF Inv, KprobeInv

LEMMA StackInv ==
  ASSUME Inv, NEW c \in Cpus,
         \/ KernelStack(c) \/ StoreKernel(c) \/ UserStack(c) \/ StoreUser(c)
         \/ EventFails(c)
  PROVE  Inv'
<1>1. kprobe \in [Cpus -> Handler] /\ Knows(c)
  BY DEF Inv, TypeOK, KprobeInv
<1>2. CASE EventFails(c)
  <2>1. ~At(c, "idle") /\ Return(c)
        /\ UNCHANGED <<now, skew, owner, left, running, startTimes, stackTraces, ring,
                       sigpending, lookups, copied>>
    BY <1>2 DEF EventFails, At, world, maps, reader
  <2>2. TypeOK'
    BY <1>1, <2>1, ReturnHandler DEF Inv, TypeOK
  <2> QED
    BY <2>1, <2>2, ReturnInv DEF Inv
<1>3. CASE KernelStack(c)
  <2>1. PICK s \in KernelStacks :
          /\ StackFits(s)
          /\ kprobe' = [kprobe EXCEPT ![c].kernel = s,
                          ![c].step = IF Stored(s) THEN "user" ELSE "store kernel"]
    BY <1>3 DEF KernelStack
  <2>2. At(c, "kernel") /\ UNCHANGED <<now, skew, owner, left, running, startTimes,
                                       stackTraces, ring, sigpending, lookups, copied>>
    BY <1>3 DEF KernelStack, world, maps, reader
  <2>3. PICK step \in {"user", "store kernel"} : step = IF Stored(s) THEN "user" ELSE "store kernel"
    OBVIOUS
  <2>4. /\ kprobe' \in [Cpus -> Handler]
        /\ kprobe'[c].step = step /\ kprobe'[c].prev = kprobe[c].prev
        /\ kprobe'[c].kernel = s
        /\ kprobe'[c].t_start = kprobe[c].t_start /\ kprobe'[c].t_end = kprobe[c].t_end
        /\ \A d \in Cpus \ {c} : kprobe'[d] = kprobe[d]
    BY <1>1, <2>1, <2>3 DEF Handler, Steps
  <2>5. Stored(s) => Readable(Bucket[s])
    BY ProbeAssumption DEF Stored, Readable, Stacks
  <2>6. Knows(c)'
    BY <1>1, <2>2, <2>3, <2>4, <2>5 DEF Knows, At, Detected, Readable
  <2> QED
    BY <2>2, <2>4, <2>6, MoreStacks DEF At, Inv, TypeOK, Readable, Steps
<1>4. CASE UserStack(c)
  <2>1. PICK s \in UserStacks :
          /\ StackFits(s)
          /\ kprobe' = [kprobe EXCEPT ![c].user = s,
                          ![c].step = IF Stored(s) THEN "output" ELSE "store user"]
    BY <1>4 DEF UserStack
  <2>2. At(c, "user") /\ UNCHANGED <<now, skew, owner, left, running, startTimes,
                                     stackTraces, ring, sigpending, lookups, copied>>
    BY <1>4 DEF UserStack, world, maps, reader
  <2>3. PICK step \in {"output", "store user"} : step = IF Stored(s) THEN "output" ELSE "store user"
    OBVIOUS
  <2>4. /\ kprobe' \in [Cpus -> Handler]
        /\ kprobe'[c].step = step /\ kprobe'[c].prev = kprobe[c].prev
        /\ kprobe'[c].user = s /\ kprobe'[c].kernel = kprobe[c].kernel
        /\ kprobe'[c].t_start = kprobe[c].t_start /\ kprobe'[c].t_end = kprobe[c].t_end
        /\ \A d \in Cpus \ {c} : kprobe'[d] = kprobe[d]
    BY <1>1, <2>1, <2>3 DEF Handler, Steps
  <2>5. Stored(s) => Readable(Bucket[s])
    BY ProbeAssumption DEF Stored, Readable, Stacks
  <2>6. Knows(c)'
    BY <1>1, <2>2, <2>3, <2>4, <2>5 DEF Knows, At, Detected, Readable
  <2> QED
    BY <2>2, <2>4, <2>6, MoreStacks DEF At, Inv, TypeOK, Readable, Steps
<1>5. CASE StoreKernel(c)
  <2>1. /\ At(c, "store kernel") /\ Store(kprobe[c].kernel) /\ Goto(c, "user")
        /\ UNCHANGED <<now, skew, owner, left, running, startTimes, ring, sigpending, lookups, copied>>
    BY <1>5 DEF StoreKernel, world, reader
  <2>2. kprobe[c].kernel \in KernelStacks /\ kprobe[c].kernel \in Stacks
    BY <1>1, <2>1 DEF Knows, At, Stacks
  <2>3. /\ kprobe' \in [Cpus -> Handler]
        /\ kprobe'[c].step = "user" /\ kprobe'[c].prev = kprobe[c].prev
        /\ kprobe'[c].kernel = kprobe[c].kernel
        /\ kprobe'[c].t_start = kprobe[c].t_start /\ kprobe'[c].t_end = kprobe[c].t_end
        /\ \A d \in Cpus \ {c} : kprobe'[d] = kprobe[d]
    BY <1>1, <2>1, GotoHandler DEF Steps
  <2>4. /\ stackTraces' \in [Buckets -> Stacks \cup {NoStack}]
        /\ Readable(Bucket[kprobe[c].kernel])'
        /\ \A b \in Buckets : Readable(b) => Readable(b)'
    <3>1. PICK s \in Stacks : s = kprobe[c].kernel
      BY <2>2
    <3>2. /\ stackTraces' \in [Buckets -> Stacks \cup {NoStack}]
          /\ Readable(Bucket[s])'
          /\ \A b \in Buckets : Readable(b) => Readable(b)'
      BY <2>1, <3>1, StoreKeeps DEF Inv
    <3> QED BY <2>3, <3>1, <3>2 DEF Readable
  <2>5. Knows(c)'
    <3>1. Readable(Bucket[kprobe[c].kernel])'
      BY <2>3, <2>4 DEF Readable
    <3> QED BY <1>1, <2>1, <2>2, <2>3, <3>1 DEF Knows, At, Detected
  <2> QED
    BY <2>1, <2>3, <2>4, <2>5, MoreStacks DEF At, Steps
<1>6. CASE StoreUser(c)
  <2>1. /\ At(c, "store user") /\ Store(kprobe[c].user) /\ Goto(c, "output")
        /\ UNCHANGED <<now, skew, owner, left, running, startTimes, ring, sigpending, lookups, copied>>
    BY <1>6 DEF StoreUser, world, reader
  <2>2. /\ kprobe[c].user \in UserStacks /\ kprobe[c].user \in Stacks
        /\ kprobe[c].kernel \in KernelStacks
        /\ Bucket[kprobe[c].kernel] \in Buckets /\ Readable(Bucket[kprobe[c].kernel])
    BY <1>1, <2>1 DEF Knows, At, Stacks, Buckets
  <2>3. /\ kprobe' \in [Cpus -> Handler]
        /\ kprobe'[c].step = "output" /\ kprobe'[c].prev = kprobe[c].prev
        /\ kprobe'[c].kernel = kprobe[c].kernel /\ kprobe'[c].user = kprobe[c].user
        /\ kprobe'[c].t_start = kprobe[c].t_start /\ kprobe'[c].t_end = kprobe[c].t_end
        /\ \A d \in Cpus \ {c} : kprobe'[d] = kprobe[d]
    BY <1>1, <2>1, GotoHandler DEF Steps
  <2>4. PICK s \in Stacks, b \in Buckets : s = kprobe[c].user /\ b = Bucket[kprobe[c].kernel]
    BY <2>2
  <2>5. /\ stackTraces' \in [Buckets -> Stacks \cup {NoStack}]
        /\ Readable(Bucket[s])'
        /\ \A x \in Buckets : Readable(x) => Readable(x)'
    BY <2>1, <2>4, StoreKeeps DEF Inv
  <2>6. Knows(c)'
    <3>1. Readable(Bucket[kprobe[c].kernel])'
      BY <2>2, <2>3, <2>4, <2>5 DEF Readable
    <3>2. Readable(Bucket[kprobe[c].user])'
      BY <2>3, <2>4, <2>5 DEF Readable
    <3> QED BY <1>1, <2>1, <2>2, <2>3, <3>1, <3>2 DEF Knows, At, Detected
  <2> QED
    BY <2>1, <2>3, <2>5, <2>6, MoreStacks DEF At, Steps
<1> QED
  BY <1>2, <1>3, <1>4, <1>5, <1>6

\* The event that a kprobe outputs is well formed.
LEMMA EventType ==
  ASSUME Inv, NEW c \in Cpus, At(c, "output")
  PROVE  /\ Event(c) \in BlockEvent
         /\ Event(c).t_start = kprobe[c].t_start /\ Event(c).left = left[running[c]]
         /\ Event(c).t_start + Event(c).offtime * NsPerUs <= Event(c).t_end
         /\ Readable(Event(c).kernel_stack_id) /\ Readable(Event(c).user_stack_id)
<1>1. kprobe \in [Cpus -> Handler] /\ Knows(c)
  BY DEF Inv, TypeOK, KprobeInv
<1>2. /\ kprobe[c].t_start \in Nat /\ kprobe[c].t_end \in Nat
      /\ kprobe[c].t_start <= kprobe[c].t_end
      /\ running[c] \in Tids /\ owner[running[c]] = "target"
      /\ kprobe[c].kernel \in KernelStacks /\ Readable(Bucket[kprobe[c].kernel])
      /\ kprobe[c].user \in UserStacks /\ Readable(Bucket[kprobe[c].user])
  BY <1>1 DEF Knows, At, Detected, Handler
<1>3. /\ Offtime(c) \in Nat
      /\ kprobe[c].t_start + Offtime(c) * NsPerUs <= kprobe[c].t_end
  BY <1>1, <1>2, OfftimeType
<1>4. left[running[c]] \in Time
  BY <1>2 DEF Inv, TypeOK
<1>5. Bucket[kprobe[c].kernel] \in Buckets /\ Bucket[kprobe[c].user] \in Buckets
  BY <1>2 DEF Stacks, Buckets
<1>6. Event(c) \in BlockEvent
  BY <1>2, <1>3, <1>4, <1>5 DEF Event, BlockEvent
<1>7. /\ Event(c).t_start = kprobe[c].t_start /\ Event(c).t_end = kprobe[c].t_end
      /\ Event(c).offtime = Offtime(c) /\ Event(c).left = left[running[c]]
      /\ Event(c).kernel = kprobe[c].kernel /\ Event(c).user = kprobe[c].user
      /\ Event(c).kernel_stack_id = Bucket[kprobe[c].kernel]
      /\ Event(c).user_stack_id = Bucket[kprobe[c].user]
  BY DEF Event
<1> QED
  BY <1>2, <1>3, <1>6, <1>7

LEMMA OutputInv == ASSUME Inv, NEW c \in Cpus, Output(c) PROVE Inv'
<1>1. /\ kprobe \in [Cpus -> Handler] /\ kprobe[c].step = "output"
      /\ ring \in [Cpus -> Seq(BlockEvent)] /\ \A d \in Cpus : Len(ring[d]) <= RingMax
  BY DEF Inv, TypeOK, Output, At
<1>2. UNCHANGED <<now, skew, owner, left, running, startTimes, stackTraces, sigpending, lookups, copied>>
  BY DEF Output, world, reader
<1>3. /\ kprobe' \in [Cpus -> Handler]
      /\ kprobe'[c].step = "signal" /\ kprobe'[c].prev = kprobe[c].prev
      /\ kprobe'[c].t_start = kprobe[c].t_start /\ kprobe'[c].t_end = kprobe[c].t_end
      /\ \A d \in Cpus \ {c} : kprobe'[d] = kprobe[d]
  BY <1>1, GotoHandler DEF Output, Steps
<1>4. ring' \in [Cpus -> Seq(BlockEvent)] /\ \A d \in Cpus : Len(ring'[d]) <= RingMax
  <2>1. Event(c) \in BlockEvent
    BY <1>1, EventType DEF At
  <2>2. CASE Len(ring[c]) < RingMax
    <3>1. ring' = [ring EXCEPT ![c] = Append(ring[c], Event(c))]
      BY <2>2 DEF Output
    <3>2. /\ Append(ring[c], Event(c)) \in Seq(BlockEvent)
          /\ Len(Append(ring[c], Event(c))) <= RingMax
      BY <1>1, <2>1, <2>2, ProbeAssumption
    <3> QED
      BY <1>1, <3>1, <3>2
  <2>3. CASE ~(Len(ring[c]) < RingMax)
    BY <1>1, <2>3 DEF Output
  <2> QED
    BY <2>2, <2>3
<1>5. TypeOK'
  BY <1>2, <1>3, <1>4 DEF Inv, TypeOK
<1>6. OneCpu'
  BY <1>1, <1>2, <1>3, OneCpuStep DEF Inv, At
<1>7. Knows(c)'
  <2>1. Knows(c)
    BY DEF Inv, KprobeInv
  <2> QED
    BY <1>1, <1>2, <1>3, <2>1 DEF Knows, At, Detected
<1>8. \A d \in Cpus \ {c} : Knows(d)'
  BY <1>2, <1>3, OthersKnow DEF Inv, Readable
<1> QED
  BY <1>5, <1>6, <1>7, <1>8 DEF Inv, KprobeInv

LEMMA SendSignalInv == ASSUME Inv, NEW c \in Cpus, SendSignal(c) PROVE Inv'
<1>1. kprobe \in [Cpus -> Handler] /\ kprobe[c].step = "signal" /\ running[c] \in Tids
  BY DEF Inv, TypeOK, KprobeInv, Knows, SendSignal, At, Detected
<1>2. TypeOK'
  BY <1>1, ReturnHandler DEF SendSignal, Inv, TypeOK, world, reader
<1> QED
  BY <1>1, <1>2, ReturnInv DEF SendSignal, Inv, At, world, reader

\* The control program may empty a bucket only while it copies its stack.
LEMMA ReaderKeeps ==
  ASSUME Inv, ControlProgram
  PROVE  /\ UNCHANGED <<now, skew, owner, left, running, kprobe, startTimes, sigpending>>
         /\ stackTraces' \in [Buckets -> Stacks \cup {NoStack}]
         /\ lookups' \in Seq(Buckets)
         /\ copied' \in Stacks \cup {NoStack} /\ (copied' # NoStack => lookups' # <<>>)
         /\ \A b \in Buckets : Readable(b) => Readable(b)'
<1>1. /\ stackTraces \in [Buckets -> Stacks \cup {NoStack}] /\ lookups \in Seq(Buckets)
      /\ copied \in Stacks \cup {NoStack} /\ (copied # NoStack => lookups # <<>>)
      /\ ring \in [Cpus -> Seq(BlockEvent)]
  BY DEF Inv, TypeOK
<1>2. CASE \E c \in Cpus : ReadEvent(c)
  <2>1. PICK c \in Cpus : ReadEvent(c)
    BY <1>2
  <2>2. /\ lookups = <<>> /\ ring[c] # <<>> /\ ring[c] \in Seq(BlockEvent)
        /\ lookups' = <<Head(ring[c]).kernel_stack_id, Head(ring[c]).user_stack_id>>
        /\ UNCHANGED <<now, skew, owner, left, running, kprobe, startTimes, stackTraces,
                       sigpending, copied>>
    BY <1>1, <2>1 DEF ReadEvent, world
  <2>3. Head(ring[c]) \in BlockEvent
    BY <2>2
  <2>4. lookups' \in Seq(Buckets) /\ lookups' # <<>>
    BY <2>2, <2>3 DEF BlockEvent
  <2> QED BY <1>1, <2>2, <2>4 DEF Readable
<1>3. CASE CopyOut
  <2>1. /\ copied = NoStack /\ lookups # <<>> /\ Head(lookups) \in Buckets
        /\ stackTraces[Head(lookups)] # NoStack /\ copied' = stackTraces[Head(lookups)]
        /\ stackTraces' = [stackTraces EXCEPT ![Head(lookups)] = NoStack]
        /\ UNCHANGED <<now, skew, owner, left, running, kprobe, startTimes, sigpending, lookups>>
    BY <1>1, <1>3 DEF CopyOut, world
  <2> QED BY <1>1, <2>1 DEF Readable
<1>4. CASE CopyBack
  <2>1. /\ copied # NoStack /\ lookups # <<>> /\ Head(lookups) \in Buckets
        /\ Tail(lookups) \in Seq(Buckets)
        /\ stackTraces' = [stackTraces EXCEPT ![Head(lookups)] = copied]
        /\ copied' = NoStack
        /\ lookups' = Tail(lookups) \/ \E b \in Buckets : lookups' = <<b>>
        /\ UNCHANGED <<now, skew, owner, left, running, kprobe, startTimes, sigpending>>
    BY <1>1, <1>4 DEF CopyBack, world
  <2>2. lookups' \in Seq(Buckets)
    <3>1. \A b \in Buckets : <<b>> \in Seq(Buckets)
      OBVIOUS
    <3> QED BY <2>1, <3>1
  <2> QED BY <1>1, <2>1, <2>2 DEF Readable
<1>5. (\E c \in Cpus : ReadEvent(c)) \/ CopyOut \/ CopyBack
  BY DEF ControlProgram
<1> QED BY <1>2, <1>3, <1>4, <1>5

LEMMA ReaderInv == ASSUME Inv, ControlProgram PROVE Inv'
<1>1. ring' \in [Cpus -> Seq(BlockEvent)] /\ \A c \in Cpus : Len(ring'[c]) <= RingMax
  <2>1. CASE \E c \in Cpus : ReadEvent(c)
    <3>1. PICK c \in Cpus : ReadEvent(c)
      BY <2>1
    <3>2. /\ ring \in [Cpus -> Seq(BlockEvent)] /\ \A d \in Cpus : Len(ring[d]) <= RingMax
          /\ ring[c] # <<>> /\ ring' = [ring EXCEPT ![c] = Tail(ring[c])]
      BY <3>1 DEF ReadEvent, Inv, TypeOK
    <3>3. Tail(ring[c]) \in Seq(BlockEvent) /\ Len(Tail(ring[c])) <= RingMax
      BY <3>2, ProbeAssumption
    <3> QED BY <3>2, <3>3
  <2>2. CASE CopyOut \/ CopyBack
    BY <2>2 DEF CopyOut, CopyBack, Inv, TypeOK
  <2> QED BY <2>1, <2>2 DEF ControlProgram
<1>2. TypeOK'
  BY <1>1, ReaderKeeps DEF Inv, TypeOK
<1>3. OneCpu'
  BY ReaderKeeps DEF Inv, OneCpu, Live, At, Prev
<1>4. \A d \in Cpus : Knows(d)'
  <2>1. \A s \in KernelStacks \cup UserStacks : Readable(Bucket[s]) => Readable(Bucket[s])'
    BY ReaderKeeps DEF Stacks, Buckets
  <2>2. UNCHANGED <<owner, running, kprobe>> /\ \A d \in Cpus : Knows(d)
    BY ReaderKeeps DEF Inv, KprobeInv
  <2> HIDE DEF Readable
  <2> QED BY <2>1, <2>2 DEF Knows, At, Detected
<1> QED
  BY <1>2, <1>3, <1>4 DEF Inv, KprobeInv

\* The steps of the profiler and of time.
LEMMA OutsideInv ==
  ASSUME Inv, (\E c \in Cpus : TakeSignal(c)) \/ Tick \/ UNCHANGED vars
  PROVE  Inv'
<1>1. UNCHANGED <<owner, running, kprobe, stackTraces, lookups, copied>>
  BY DEF TakeSignal, Tick, vars, world, maps, reader
<1>2. TypeOK'
  <2>1. CASE \E c \in Cpus : TakeSignal(c)
    BY <2>1 DEF Inv, TypeOK, TakeSignal, world, reader
  <2>2. CASE Tick
    BY <2>2 DEF Inv, TypeOK, Tick, maps, reader
  <2>3. CASE UNCHANGED vars
    BY <2>3 DEF Inv, TypeOK, vars, world, maps, reader
  <2> QED
    BY <2>1, <2>2, <2>3
<1> QED
  BY <1>1, <1>2, StillInv DEF Inv

LEMMA InvStep == Inv /\ [Next]_vars => Inv'
<1> SUFFICES ASSUME Inv, [Next]_vars PROVE Inv'
  OBVIOUS
<1>1. ASSUME NEW c \in Cpus, Kprobe(c) PROVE Inv'
  BY <1>1, RecordInv, LookupInv, RemoveInv, StackInv, OutputInv, SendSignalInv DEF Kprobe
<1> QED
  BY <1>1, SwitchInv, ExitInv, SpawnInv, ReaderInv, OutsideInv DEF Next

LEMMA Invariance == Spec => []Inv
BY InvInit, InvStep, PTL DEF Spec

\* Every variable keeps its type.  In particular an event is of a thread of the
\* target: the test of tgid still holds when the event is output.
THEOREM ProbeTypeCorrect == Spec => []TypeOK
<1>1. Inv => TypeOK
  BY DEF Inv
<1> QED
  BY <1>1, Invariance, PTL
----------------------------------------------------------------------------
(***************************************************************************)
(* The events                                                              *)
(***************************************************************************)

\* The perf buffers get no event but the one that Output adds.
LEMMA NewEvents ==
  ASSUME Inv, [Next]_vars, NEW e \in Events', e \notin Events
  PROVE  \E c \in Cpus : Output(c) /\ e = Event(c)
<1>1. PICK c \in Cpus : \E i \in 1..Len(ring'[c]) : e = ring'[c][i]
  BY DEF Events
<1>2. PICK i \in 1..Len(ring'[c]) : e = ring'[c][i]
  BY <1>1
<1>3. ring \in [Cpus -> Seq(BlockEvent)]
  BY DEF Inv, TypeOK
<1>4. ring'[c] # ring[c]
  BY <1>2 DEF Events
<1>5. \E d \in Cpus : ReadEvent(d) \/ Output(d)
  BY <1>4 DEF Next, Kprobe, Switch, RecordPrev, RecordFails, RecordNothing, LookupCurrent,
     LookupNone, RemoveCurrent, KernelStack, StoreKernel, UserStack, StoreUser, EventFails,
     SendSignal, TakeSignal, ControlProgram, CopyOut, CopyBack, Exit, Spawn, Tick, vars, world, maps, reader
<1>6. PICK d \in Cpus : ReadEvent(d) \/ Output(d)
  BY <1>5
<1>7. CASE ReadEvent(d)
  <2>1. d = c /\ ring[c] # <<>> /\ ring'[c] = Tail(ring[c])
    BY <1>3, <1>4, <1>7 DEF ReadEvent
  <2>2. i + 1 \in 1..Len(ring[c]) /\ e = ring[c][i + 1]
    BY <1>2, <1>3, <2>1
  <2> QED
    BY <2>2 DEF Events
<1>8. CASE Output(d)
  <2>1. d = c /\ ring'[c] = Append(ring[c], Event(c))
    BY <1>3, <1>4, <1>8 DEF Output
  <2>2. CASE i \in 1..Len(ring[c])
    <3>1. e = ring[c][i]
      BY <1>2, <1>3, <2>1, <2>2
    <3> QED
      BY <2>2, <3>1 DEF Events
  <2>3. CASE i \notin 1..Len(ring[c])
    <3>1. i = Len(ring[c]) + 1
      BY <1>2, <1>3, <2>1, <2>3
    <3>2. e = Event(c)
      BY <1>2, <1>3, <2>1, <3>1
    <3> QED
      BY <1>8, <2>1, <3>2
  <2> QED
    BY <2>2, <2>3
<1> QED
  BY <1>6, <1>7, <1>8

\* The duration in an event is no longer than the block, so the unsigned
\* subtraction never wraps, however far the CPUs' clocks are apart.
THEOREM DurationsAreReal == Spec => []DurationIsReal
<1>1. Init => DurationIsReal
  BY DEF Init, DurationIsReal, Events
<1>2. Inv /\ DurationIsReal /\ [Next]_vars => DurationIsReal'
  BY NewEvents, EventType DEF DurationIsReal, Output
<1> QED
  BY <1>1, <1>2, Invariance, PTL DEF Spec

\* No step empties a bucket for good.
LEMMA ReadableStays ==
  ASSUME Inv, [Next]_vars, NEW b \in Buckets, Readable(b) PROVE Readable(b)'
<1>1. CASE UNCHANGED <<stackTraces, lookups, copied>>
  BY <1>1 DEF Readable
<1>2. CASE ControlProgram
  BY <1>2, ReaderKeeps
<1>3. CASE \E c \in Cpus : StoreKernel(c) \/ StoreUser(c)
  <2>1. PICK c \in Cpus : StoreKernel(c) \/ StoreUser(c)
    BY <1>3
  <2>2. Knows(c) /\ UNCHANGED <<lookups, copied>>
    BY <2>1 DEF Inv, KprobeInv, StoreKernel, StoreUser, reader
  <2>3. PICK s \in Stacks : Store(s)
    <3>1. CASE StoreKernel(c)
      BY <2>2, <3>1 DEF StoreKernel, Knows, At, Stacks
    <3>2. CASE StoreUser(c)
      BY <2>2, <3>2 DEF StoreUser, Knows, At, Stacks
    <3> QED BY <2>1, <3>1, <3>2
  <2> QED BY <2>2, <2>3, StoreKeeps DEF Inv
<1>4. \/ UNCHANGED <<stackTraces, lookups, copied>>
      \/ ControlProgram
      \/ \E c \in Cpus : StoreKernel(c) \/ StoreUser(c)
  BY DEF Next, Kprobe, Switch, RecordPrev, RecordFails, RecordNothing, LookupCurrent,
     LookupNone, RemoveCurrent, KernelStack, UserStack, EventFails, Output, SendSignal,
     TakeSignal, Exit, Spawn, Tick, vars, world, maps, reader
<1> QED
  BY <1>1, <1>2, <1>3, <1>4

\* The control program looks up the stacks of an event, or one that it counts.
LEMMA NewLookups ==
  ASSUME Inv, StacksReadable, [Next]_vars, NEW i \in 1..Len(lookups')
  PROVE  \E b \in Buckets : b = lookups'[i] /\ (Readable(b) \/ Readable(b)')
<1>1. /\ lookups \in Seq(Buckets) /\ ring \in [Cpus -> Seq(BlockEvent)]
      /\ \A k \in 1..Len(lookups) : Readable(lookups[k])
  BY DEF Inv, TypeOK, StacksReadable
<1>2. CASE lookups' = lookups
  <2>1. i \in 1..Len(lookups) /\ lookups'[i] = lookups[i]
    BY <1>2
  <2> QED BY <1>1, <2>1
<1>3. CASE CopyBack
  <2>1. lookups # <<>> /\ copied # NoStack
    BY <1>3 DEF CopyBack, Inv, TypeOK
  <2>2. CASE lookups' = Tail(lookups)
    <3>1. i + 1 \in 1..Len(lookups) /\ lookups'[i] = lookups[i + 1]
      BY <1>1, <2>1, <2>2
    <3> QED BY <1>1, <3>1
  <2>3. CASE \E b \in Buckets : stackTraces'[b] # NoStack /\ lookups' = <<b>>
    <3>1. PICK b \in Buckets : stackTraces'[b] # NoStack /\ lookups' = <<b>>
      BY <2>3
    <3>2. lookups'[i] = b
      BY <3>1
    <3>3. Readable(b)'
      BY <3>1 DEF Readable
    <3> QED BY <3>2, <3>3
  <2> QED BY <1>3, <2>2, <2>3 DEF CopyBack
<1>4. ASSUME NEW c \in Cpus, ReadEvent(c)
      PROVE  \E b \in Buckets : b = lookups'[i] /\ Readable(b)
  <2>1. /\ ring[c] # <<>> /\ ring[c] \in Seq(BlockEvent)
        /\ lookups' = <<Head(ring[c]).kernel_stack_id, Head(ring[c]).user_stack_id>>
    BY <1>1, <1>4 DEF ReadEvent
  <2>2. 1 \in 1..Len(ring[c]) /\ Head(ring[c]) = ring[c][1]
    BY <2>1
  <2>3. Head(ring[c]) \in Events /\ Head(ring[c]) \in BlockEvent
    BY <2>1, <2>2 DEF Events
  <2>4. \/ lookups'[i] = Head(ring[c]).kernel_stack_id
        \/ lookups'[i] = Head(ring[c]).user_stack_id
    BY <2>1
  <2> QED BY <2>3, <2>4 DEF StacksReadable, BlockEvent
<1>5. lookups' = lookups \/ CopyBack \/ \E c \in Cpus : ReadEvent(c)
  BY DEF Next, ControlProgram, CopyOut, Kprobe, Switch, RecordPrev, RecordFails,
     RecordNothing, LookupCurrent, LookupNone, RemoveCurrent, KernelStack, StoreKernel,
     UserStack, StoreUser, EventFails, Output, SendSignal, TakeSignal, Exit, Spawn, Tick,
     vars, world, maps, reader
<1> QED
  BY <1>2, <1>3, <1>4, <1>5

\* The control program finds a stack under every stack id of an event, whatever
\* events share the stack, though a kprobe looks at a bucket and stores a stack
\* in two steps, and the kernel empties the bucket while it copies the stack.
THEOREM StacksStayReadable == Spec => []StacksReadable
<1>1. Init => StacksReadable
  BY DEF Init, StacksReadable, Events
<1>2. Inv /\ StacksReadable /\ [Next]_vars => StacksReadable'
  <2> SUFFICES ASSUME Inv, StacksReadable, [Next]_vars PROVE StacksReadable'
    OBVIOUS
  <2>1. ASSUME NEW e \in Events'
        PROVE  Readable(e.kernel_stack_id)' /\ Readable(e.user_stack_id)'
    <3>1. /\ e.kernel_stack_id \in Buckets /\ e.user_stack_id \in Buckets
          /\ Readable(e.kernel_stack_id) /\ Readable(e.user_stack_id)
      <4>1. CASE e \in Events
        <5>1. e \in BlockEvent
          BY <4>1 DEF Events, Inv, TypeOK
        <5> QED BY <4>1, <5>1 DEF StacksReadable, BlockEvent
      <4>2. CASE e \notin Events
        <5>1. PICK c \in Cpus : Output(c) /\ e = Event(c)
          BY <4>2, NewEvents
        <5>2. e \in BlockEvent
          BY <5>1, EventType DEF Output
        <5> QED BY <5>1, <5>2, EventType DEF Output, BlockEvent
      <4> QED BY <4>1, <4>2
    <3> QED BY <3>1, ReadableStays
  <2>2. ASSUME NEW i \in 1..Len(lookups')
        PROVE  \E b \in Buckets : b = lookups'[i] /\ Readable(b)'
    <3>1. PICK b \in Buckets : b = lookups'[i] /\ (Readable(b) \/ Readable(b)')
      BY NewLookups
    <3> QED BY <3>1, ReadableStays
  <2> QED BY <2>1, <2>2 DEF StacksReadable, Readable, Events
<1> QED
  BY <1>1, <1>2, Invariance, PTL DEF Spec
----------------------------------------------------------------------------
(***************************************************************************)
(* Blocks are real, if no thread of the target gets an old id              *)
(***************************************************************************)

\* The third part of EntriesFresh, for one CPU.
FreshStart(c) ==
  (At(c, "remove") \/ Detected(c)) /\ owner[running[c]] = "target"
    => kprobe[c].t_start = left[running[c]]

\* A kprobe keeps its fresh t_start while another CPU's moves.
LEMMA StartStays ==
  ASSUME Inv, NEW d \in Cpus, FreshStart(d),
         kprobe'[d] = kprobe[d], running'[d] = running[d],
         running[d] \in Tids => /\ owner'[running[d]] = owner[running[d]]
                                /\ left'[running[d]] = left[running[d]]
  PROVE  FreshStart(d)'
<1>1. At(d, "remove") \/ Detected(d) => running[d] \in Tids
  BY DEF Inv, KprobeInv, Knows
<1> QED
  BY <1>1 DEF FreshStart, At, Detected

LEMMA FreshStep ==
  ASSUME Inv, EntriesFresh, ~TargetReuse, [Next]_vars
  PROVE  EntriesFresh'
<1> DEFINE FreshEntry(t) ==
      /\ owner[t] = "free" => startTimes[t] = Never
      /\ owner[t] = "target" /\ startTimes[t] # Never => startTimes[t] = left[t]
<1>a. /\ \A t \in Tids : FreshEntry(t)
      /\ \A d \in Cpus : FreshStart(d)
  BY DEF EntriesFresh, FreshStart
<1>b. SUFFICES (\A t \in Tids : FreshEntry(t)') /\ (\A d \in Cpus : FreshStart(d)')
  BY DEF EntriesFresh, FreshStart
<1>c. /\ kprobe \in [Cpus -> Handler] /\ running \in [Cpus -> Tids \cup {Idle}]
      /\ startTimes \in [Tids -> Time] /\ left \in [Tids -> Time]
      /\ owner \in [Tids -> {"target", "other", "free", "retired"}]
  BY DEF Inv, TypeOK
<1>1. ASSUME NEW c \in Cpus, Switch(c)
      PROVE  (\A t \in Tids : FreshEntry(t)') /\ (\A d \in Cpus : FreshStart(d)')
  <2>1. UNCHANGED <<owner, left, startTimes>>
    BY <1>1 DEF Switch, world, maps, reader
  <2>2. /\ kprobe'[c].step = "record"
        /\ \A d \in Cpus \ {c} : kprobe'[d] = kprobe[d] /\ running'[d] = running[d]
    BY <1>1, <1>c DEF Switch, Handler
  <2>3. FreshStart(c)'
    BY <2>2 DEF FreshStart, At, Detected
  <2>4. \A d \in Cpus \ {c} : FreshStart(d)'
    BY <1>a, <2>1, <2>2, StartStays
  <2> QED
    BY <1>a, <2>1, <2>3, <2>4
<1>2. ASSUME NEW u \in Tids, Exit(u) \/ \E o \in {"target", "other"} : Spawn(u, o)
      PROVE  (\A t \in Tids : FreshEntry(t)') /\ (\A d \in Cpus : FreshStart(d)')
  <2>1. UNCHANGED <<running, kprobe, startTimes>>
    BY <1>2 DEF Exit, Spawn, maps, reader
  <2>2. \A t \in Tids \ {u} : owner'[t] = owner[t] /\ left'[t] = left[t]
    BY <1>2, <1>c DEF Exit, Spawn
  <2>3. \A d \in Cpus : running[d] # u
    BY <1>2 DEF Exit, OnCpu, Spawn, Inv, OneCpu, Live
  <2>4. FreshEntry(u)'
    <3>1. CASE Exit(u)
      BY <1>c, <3>1 DEF Exit
    <3>2. CASE \E o \in {"target", "other"} : Spawn(u, o)
      <4>1. owner'[u] = "target" => startTimes[u] = Never
        BY <1>a, <1>c, <3>2 DEF Spawn
      <4>2. owner'[u] # "free"
        BY <1>c, <3>2 DEF Spawn
      <4> QED
        BY <2>1, <4>1, <4>2
    <3> QED
      BY <1>2, <3>1, <3>2
  <2>5. \A d \in Cpus : FreshStart(d)'
    BY <1>a, <2>1, <2>2, <2>3, StartStays
  <2> QED
    BY <1>a, <2>1, <2>2, <2>4, <2>5
<1>3. ASSUME NEW c \in Cpus, RecordPrev(c) \/ RecordFails(c)
      PROVE  (\A t \in Tids : FreshEntry(t)') /\ (\A d \in Cpus : FreshStart(d)')
  <2>1. /\ Prev(c) \in Tids /\ owner[Prev(c)] = "target" /\ ~At(c, "idle")
        /\ UNCHANGED <<owner, running>>
    BY <1>3 DEF RecordPrev, RecordFails, PrevInTarget, At
  <2>2. left' = [left EXCEPT ![Prev(c)] = Ktime(c)]
    BY <1>3 DEF RecordPrev, RecordFails
  <2>3. /\ \A t \in Tids \ {Prev(c)} : startTimes'[t] = startTimes[t]
        /\ startTimes'[Prev(c)] \in {Never, Ktime(c)}
    BY <1>3, <1>c, <2>1 DEF RecordPrev, RecordFails, Insert, InsertFails, maps, reader
  <2>4. \A t \in Tids : FreshEntry(t)'
    BY <1>a, <1>c, <2>1, <2>2, <2>3
  <2>5. /\ kprobe'[c].step \in {"lookup", "idle"}
        /\ \A d \in Cpus \ {c} : kprobe'[d] = kprobe[d]
    BY <1>3, <1>c, GotoHandler, ReturnHandler DEF RecordPrev, RecordFails, Steps
  <2>6. FreshStart(c)'
    BY <2>5 DEF FreshStart, At, Detected
  <2>7. \A d \in Cpus \ {c} : FreshStart(d)'
    <3>1. \A d \in Cpus : running[d] # Prev(c)
      BY <2>1 DEF Inv, OneCpu
    <3>2. \A t \in Tids \ {Prev(c)} : left'[t] = left[t]
      BY <1>c, <2>2
    <3> QED
      BY <1>a, <2>1, <2>5, <3>1, <3>2, StartStays
  <2> QED
    BY <2>4, <2>6, <2>7
<1>4. ASSUME NEW c \in Cpus, LookupCurrent(c)
      PROVE  (\A t \in Tids : FreshEntry(t)') /\ (\A d \in Cpus : FreshStart(d)')
  <2>1. UNCHANGED <<owner, left, running, startTimes>>
    BY <1>4 DEF LookupCurrent, world, maps, reader
  <2>2. running[c] \in Tids /\ startTimes[running[c]] # Never
    BY <1>4 DEF LookupCurrent, HasEntry
  <2>3. /\ kprobe'[c].t_start = startTimes[running[c]]
        /\ \A d \in Cpus \ {c} : kprobe'[d] = kprobe[d]
    BY <1>4, <1>c DEF LookupCurrent, Handler
  <2>4. FreshStart(c)'
    BY <1>a, <2>1, <2>2, <2>3 DEF FreshStart
  <2>5. \A d \in Cpus \ {c} : FreshStart(d)'
    BY <1>a, <2>1, <2>3, StartStays
  <2> QED
    BY <1>a, <2>1, <2>4, <2>5
<1>5. ASSUME NEW c \in Cpus, UNCHANGED <<owner, left, running>>,
             \A t \in Tids : startTimes'[t] \in {startTimes[t], Never},
             \A d \in Cpus \ {c} : kprobe'[d] = kprobe[d],
             \/ kprobe'[c].step \in {"idle", "lookup"}
             \/ /\ At(c, "remove") \/ Detected(c)
                /\ kprobe'[c].t_start = kprobe[c].t_start
      PROVE  (\A t \in Tids : FreshEntry(t)') /\ (\A d \in Cpus : FreshStart(d)')
  <2>1. FreshStart(c)'
    BY <1>5, <1>a DEF FreshStart, At, Detected
  <2>2. \A d \in Cpus \ {c} : FreshStart(d)'
    BY <1>5, <1>a, StartStays
  <2>3. \A t \in Tids : FreshEntry(t)'
    BY <1>5, <1>a
  <2> QED
    BY <2>1, <2>2, <2>3
<1>6. ASSUME NEW c \in Cpus, RecordNothing(c) \/ LookupNone(c)
      PROVE  (\A t \in Tids : FreshEntry(t)') /\ (\A d \in Cpus : FreshStart(d)')
  <2>1. UNCHANGED <<owner, left, running, startTimes>>
    BY <1>6 DEF RecordNothing, LookupNone, world, maps, reader
  <2>2. /\ kprobe'[c].step \in {"idle", "lookup"}
        /\ \A d \in Cpus \ {c} : kprobe'[d] = kprobe[d]
    BY <1>6, <1>c, GotoHandler, ReturnHandler DEF RecordNothing, LookupNone, Steps
  <2> QED
    BY <1>5, <2>1, <2>2
<1>7. ASSUME NEW c \in Cpus, RemoveCurrent(c)
      PROVE  (\A t \in Tids : FreshEntry(t)') /\ (\A d \in Cpus : FreshStart(d)')
  <2>1. UNCHANGED <<owner, left, running>>
    BY <1>7 DEF RemoveCurrent, world, reader
  <2>2. \A t \in Tids : startTimes'[t] \in {startTimes[t], Never}
    BY <1>7, <1>c DEF RemoveCurrent
  <2>3. Goto(c, "kernel") \/ Return(c)
    BY <1>7 DEF RemoveCurrent, Decide
  <2>4. /\ kprobe'[c].step = "idle" \/ kprobe'[c].t_start = kprobe[c].t_start
        /\ \A d \in Cpus \ {c} : kprobe'[d] = kprobe[d]
    BY <2>3, <1>c, GotoHandler, ReturnHandler DEF Steps
  <2>5. At(c, "remove")
    BY <1>7 DEF RemoveCurrent
  <2> QED
    BY <1>5, <2>1, <2>2, <2>4, <2>5
<1>8. ASSUME NEW c \in Cpus,
             \/ KernelStack(c) \/ StoreKernel(c) \/ UserStack(c) \/ StoreUser(c)
             \/ EventFails(c) \/ Output(c) \/ SendSignal(c)
      PROVE  (\A t \in Tids : FreshEntry(t)') /\ (\A d \in Cpus : FreshStart(d)')
  <2>1. UNCHANGED <<owner, left, running, startTimes>>
    BY <1>8 DEF KernelStack, StoreKernel, UserStack, StoreUser, EventFails, Output, SendSignal, world, maps, reader
  <2>2. Detected(c)
    BY <1>8 DEF KernelStack, StoreKernel, UserStack, StoreUser, EventFails, Output, SendSignal, Detected, At
  <2>3. /\ kprobe'[c].step = "idle" \/ kprobe'[c].t_start = kprobe[c].t_start
        /\ \A d \in Cpus \ {c} : kprobe'[d] = kprobe[d]
    <3>1. CASE EventFails(c) \/ SendSignal(c)
      BY <3>1, <1>c, ReturnHandler DEF EventFails, SendSignal
    <3>2. CASE Output(c) \/ StoreKernel(c) \/ StoreUser(c)
      BY <3>2, <1>c, GotoHandler DEF Output, StoreKernel, StoreUser, Steps
    <3>3. CASE KernelStack(c) \/ UserStack(c)
      BY <3>3, <1>c DEF KernelStack, UserStack, Handler
    <3> QED
      BY <1>8, <3>1, <3>2, <3>3
  <2> QED
    BY <1>5, <2>1, <2>2, <2>3
<1>9. ASSUME UNCHANGED <<owner, left, running, kprobe, startTimes>>
      PROVE  (\A t \in Tids : FreshEntry(t)') /\ (\A d \in Cpus : FreshStart(d)')
  BY <1>9, <1>a, StartStays
<1>10. ASSUME ControlProgram \/ (\E c \in Cpus : TakeSignal(c)) \/ Tick \/ UNCHANGED vars
       PROVE  (\A t \in Tids : FreshEntry(t)') /\ (\A d \in Cpus : FreshStart(d)')
  <2>1. UNCHANGED <<owner, left, running, kprobe, startTimes>>
    BY <1>10, ReaderKeeps DEF TakeSignal, Tick, vars, world, maps, reader
  <2> QED
    BY <1>9, <2>1
<1> QED
  BY <1>1, <1>2, <1>3, <1>4, <1>6, <1>7, <1>8, <1>10 DEF Next, Kprobe

\* If no thread of the target gets the id of an old one, an event is always
\* about a block that its thread had: the entry that an exited thread left
\* behind never makes an event of another process's thread, and a full
\* START_TIMES never leaves an old time for a later block.
THEOREM BlocksAreReal == ~TargetReuse => (Spec => []BlockIsReal)
<1> SUFFICES ASSUME ~TargetReuse PROVE Spec => []BlockIsReal
  OBVIOUS
<1>1. Init => EntriesFresh /\ BlockIsReal
  <2> SUFFICES ASSUME Init PROVE EntriesFresh /\ BlockIsReal
    OBVIOUS
  <2>1. \A c \in Cpus : kprobe[c].step = "idle"
    BY DEF Init, NotRunning
  <2>2. EntriesFresh
    BY <2>1 DEF Init, EntriesFresh, At, Detected
  <2>3. BlockIsReal
    BY DEF Init, BlockIsReal, Events
  <2> QED BY <2>2, <2>3
<1>2. Inv /\ EntriesFresh /\ [Next]_vars => EntriesFresh'
  BY FreshStep
<1>3. Inv /\ EntriesFresh /\ BlockIsReal /\ [Next]_vars => BlockIsReal'
  <2> SUFFICES ASSUME Inv, EntriesFresh, BlockIsReal, [Next]_vars, NEW e \in Events'
               PROVE  e.left # Never /\ e.t_start = e.left
    BY DEF BlockIsReal
  <2>1. CASE e \in Events
    BY <2>1 DEF BlockIsReal
  <2>2. CASE e \notin Events
    <3>1. PICK c \in Cpus : Output(c) /\ e = Event(c)
      BY <2>2, NewEvents
    <3>2. e.t_start = kprobe[c].t_start /\ e.left = left[running[c]] /\ e \in BlockEvent
      BY <3>1, EventType DEF Output
    <3>3. kprobe[c].t_start = left[running[c]]
      BY <3>1 DEF EntriesFresh, Output, Inv, KprobeInv, Knows, Detected, At
    <3>4. e.t_start # Never
      BY <3>2, ProbeAssumption DEF BlockEvent
    <3> QED
      BY <3>2, <3>3, <3>4
  <2> QED
    BY <2>1, <2>2
<1> QED
  BY <1>1, <1>2, <1>3, Invariance, PTL DEF Spec
----------------------------------------------------------------------------
(***************************************************************************)
(* No block is missed, if START_TIMES has room for every thread id         *)
(***************************************************************************)

RoomForAll == IsFiniteSet(Tids) /\ Cardinality(Tids) <= StartTimesMax

LEMMA InsertWorks == ASSUME TypeOK, RoomForAll, NEW t \in Tids PROVE ~InsertFails(t)
<1> SUFFICES ASSUME startTimes[t] = Never PROVE ~Full
  BY DEF InsertFails
<1> DEFINE E == {u \in Tids : startTimes[u] # Never}
<1>1. E \subseteq Tids \ {t} /\ IsFiniteSet(Tids)
  BY DEF RoomForAll
<1>2. /\ IsFiniteSet(Tids \ {t}) /\ Cardinality(Tids \ {t}) = Cardinality(Tids) - 1
      /\ Cardinality(Tids) \in Nat
  BY <1>1, FS_RemoveElement, FS_CardinalityType
<1>3. Cardinality(E) \in Nat /\ Cardinality(E) <= Cardinality(Tids \ {t})
  BY <1>1, <1>2, FS_Subset, FS_CardinalityType
<1> QED
  BY <1>2, <1>3, ProbeAssumption DEF Full, RoomForAll

\* The kprobe of the CPU has not yet dealt with the current task's entry.
Entering(c) == kprobe[c].step \in {"record", "lookup", "remove"}

\* A thread of the target that has been off its CPU has an entry, the time of
\* its leaving, until it has come back; and so does a thread that is leaving,
\* when its leaving has been recorded.
HasLeft(t) == owner[t] = "target" /\ left[t] # Never
Back(t) ==
  \E c \in Cpus : (running[c] = t /\ ~Entering(c)) \/ (Prev(c) = t /\ At(c, "record"))
EntryThere == \A t \in Tids : HasLeft(t) => startTimes[t] = left[t] \/ Back(t)

\* The same of the copy that the kprobe has read.
StartRead ==
  \A c \in Cpus :
    At(c, "remove") /\ HasLeft(running[c]) => kprobe[c].t_start = left[running[c]]

EntryInv == RunningHasNoEntry /\ EntryThere /\ StartRead

\* A thread that comes back does so on one CPU, whose kprobe finds the entry.
LEMMA EntryFound ==
  ASSUME Inv, EntryThere, NEW c \in Cpus, running[c] \in Tids, Entering(c), HasLeft(running[c])
  PROVE  startTimes[running[c]] = left[running[c]]
BY DEF Inv, OneCpu, EntryThere, Back, At, Prev

\* The kprobe of CPU c moves on; the entry of its current task only, if any,
\* is used up.
LEMMA MoveOn ==
  ASSUME Inv, EntryInv, NEW c \in Cpus, UNCHANGED <<owner, left, running>>,
         ~At(c, "idle"), ~At(c, "record") \/ ~PrevInTarget(c),
         \A d \in Cpus \ {c} : kprobe'[d] = kprobe[d],
         \A t \in Tids \ {running[c]} : startTimes'[t] = startTimes[t],
         running[c] \in Tids => \/ startTimes'[running[c]] = startTimes[running[c]]
                                \/ ~Entering(c)',
         running[c] \in Tids /\ ~Entering(c)' => startTimes'[running[c]] = Never,
         kprobe'[c].step \notin {"record", "remove"}, ~Entering(c) => ~Entering(c)'
  PROVE  EntryInv'
<1>1. RunningHasNoEntry'
  <2>1. SUFFICES ASSUME NEW d \in Cpus, running[d] \in Tids, ~Entering(d)'
                 PROVE  startTimes'[running[d]] = Never
    BY DEF RunningHasNoEntry, Entering
  <2>2. CASE d = c
    BY <2>1, <2>2
  <2>3. CASE d # c
    <3>1. running[d] # running[c]
      BY <2>1, <2>3 DEF Inv, OneCpu
    <3>2. startTimes[running[d]] = Never
      BY <2>1, <2>3 DEF EntryInv, RunningHasNoEntry, Entering
    <3> QED BY <2>1, <3>1, <3>2
  <2> QED BY <2>2, <2>3
<1>2. EntryThere'
  <2>1. SUFFICES ASSUME NEW t \in Tids, HasLeft(t), ~Back(t)'
                 PROVE  startTimes'[t] = left[t]
    BY DEF EntryThere, HasLeft
  <2>2. ~Back(t)
    <3>1. SUFFICES ASSUME NEW d \in Cpus,
                          (running[d] = t /\ ~Entering(d)) \/ (Prev(d) = t /\ At(d, "record"))
                   PROVE  Back(t)'
      BY <2>1 DEF Back
    <3>2. CASE d = c
      BY <2>1, <3>1, <3>2 DEF HasLeft, PrevInTarget, Back
    <3>3. CASE d # c
      BY <3>1, <3>3 DEF Back, Entering, Prev, At
    <3> QED BY <3>2, <3>3
  <2>3. startTimes[t] = left[t]
    BY <2>1, <2>2 DEF EntryInv, EntryThere
  <2>4. CASE t = running[c]
    BY <2>1, <2>3, <2>4 DEF Back
  <2>5. CASE t # running[c]
    BY <2>3, <2>5
  <2> QED BY <2>4, <2>5
<1>3. StartRead'
  BY DEF EntryInv, StartRead, At, HasLeft
<1> QED BY <1>1, <1>2, <1>3 DEF EntryInv

LEMMA EntryStep ==
  ASSUME Inv, EntryInv, RoomForAll, [Next]_vars PROVE EntryInv'
<1>a. /\ kprobe \in [Cpus -> Handler] /\ running \in [Cpus -> Tids \cup {Idle}]
      /\ startTimes \in [Tids -> Time] /\ left \in [Tids -> Time]
      /\ owner \in [Tids -> {"target", "other", "free", "retired"}]
  BY DEF Inv, TypeOK
<1>b. RunningHasNoEntry /\ EntryThere /\ StartRead
  BY DEF EntryInv
<1>1. ASSUME NEW c \in Cpus, Switch(c) PROVE EntryInv'
  <2>1. UNCHANGED <<owner, left, startTimes>> /\ At(c, "idle")
    BY <1>1 DEF Switch, world, maps, reader
  <2>2. /\ kprobe'[c].step = "record" /\ kprobe'[c].prev = running[c]
        /\ \A d \in Cpus \ {c} : kprobe'[d] = kprobe[d] /\ running'[d] = running[d]
    BY <1>1, <1>a DEF Switch, Handler
  <2>3. RunningHasNoEntry'
    BY <1>b, <2>1, <2>2 DEF RunningHasNoEntry
  <2>4. EntryThere'
    <3>1. SUFFICES ASSUME NEW t \in Tids, HasLeft(t), Back(t) PROVE Back(t)'
      BY <1>b, <2>1 DEF EntryThere, HasLeft
    <3>2. PICK d \in Cpus :
            (running[d] = t /\ ~Entering(d)) \/ (Prev(d) = t /\ At(d, "record"))
      BY <3>1 DEF Back
    <3>3. CASE d = c
      BY <2>1, <2>2, <3>2, <3>3 DEF Back, Prev, At
    <3>4. CASE d # c
      BY <2>2, <3>2, <3>4 DEF Back, Entering, Prev, At
    <3> QED BY <3>3, <3>4
  <2>5. StartRead'
    BY <1>b, <2>1, <2>2 DEF StartRead, At, HasLeft
  <2> QED BY <2>3, <2>4, <2>5 DEF EntryInv
<1>2. ASSUME NEW u \in Tids, Exit(u) \/ \E o \in {"target", "other"} : Spawn(u, o)
      PROVE  EntryInv'
  <2>1. UNCHANGED <<running, kprobe, startTimes>>
    BY <1>2 DEF Exit, Spawn, maps, reader
  <2>2. \A t \in Tids \ {u} : owner'[t] = owner[t] /\ left'[t] = left[t]
    BY <1>2, <1>a DEF Exit, Spawn
  <2>3. ~HasLeft(u)'
    BY <1>2, <1>a DEF Exit, Spawn, HasLeft
  <2>4. \A c \in Cpus : running[c] # u
    BY <1>2 DEF Exit, OnCpu, Spawn, Inv, OneCpu, Live
  <2>5. RunningHasNoEntry'
    BY <1>b, <2>1 DEF RunningHasNoEntry
  <2>6. EntryThere'
    BY <1>b, <2>1, <2>2, <2>3 DEF EntryThere, HasLeft, Back, Entering, Prev, At
  <2>7. StartRead'
    <3>1. \A c \in Cpus : At(c, "remove") => running[c] \in Tids
      BY DEF Inv, KprobeInv, Knows
    <3> QED BY <1>b, <2>1, <2>2, <2>4, <3>1 DEF StartRead, HasLeft, At
  <2> QED BY <2>5, <2>6, <2>7 DEF EntryInv
<1>3. ASSUME NEW c \in Cpus, RecordPrev(c) PROVE EntryInv'
  <2>1. /\ Prev(c) \in Tids /\ owner[Prev(c)] = "target" /\ At(c, "record")
        /\ UNCHANGED <<owner, running>>
    BY <1>3 DEF RecordPrev, PrevInTarget
  <2>2. /\ left'[Prev(c)] = Ktime(c) /\ startTimes'[Prev(c)] = Ktime(c)
        /\ \A t \in Tids \ {Prev(c)} : left'[t] = left[t] /\ startTimes'[t] = startTimes[t]
    BY <1>3, <1>a, <2>1 DEF RecordPrev, Insert
  <2>3. /\ kprobe'[c].step = "lookup" /\ kprobe'[c].prev = kprobe[c].prev
        /\ \A d \in Cpus \ {c} : kprobe'[d] = kprobe[d]
    BY <1>3, <1>a, GotoHandler DEF RecordPrev, Steps
  <2>4. \A d \in Cpus : running[d] # Prev(c)
    BY <2>1 DEF Inv, OneCpu, At
  <2>5. RunningHasNoEntry'
    BY <1>b, <2>1, <2>2, <2>3, <2>4 DEF RunningHasNoEntry
  <2>6. EntryThere'
    <3>1. SUFFICES ASSUME NEW t \in Tids, t # Prev(c), HasLeft(t), Back(t) PROVE Back(t)'
      BY <1>b, <2>1, <2>2 DEF EntryThere, HasLeft
    <3>2. PICK d \in Cpus :
            (running[d] = t /\ ~Entering(d)) \/ (Prev(d) = t /\ At(d, "record"))
      BY <3>1 DEF Back
    <3>3. d # c
      BY <2>1, <3>1, <3>2 DEF Entering, At
    <3> QED BY <2>1, <2>3, <3>2, <3>3 DEF Back, Entering, Prev, At
  <2>7. StartRead'
    <3>1. \A d \in Cpus : At(d, "remove") => running[d] \in Tids
      BY DEF Inv, KprobeInv, Knows
    <3> QED BY <1>b, <2>1, <2>2, <2>3, <2>4, <3>1 DEF StartRead, HasLeft, At
  <2> QED BY <2>5, <2>6, <2>7 DEF EntryInv
<1>4. ASSUME NEW c \in Cpus, RecordFails(c) PROVE EntryInv'
  BY <1>4, InsertWorks DEF RecordFails, PrevInTarget, Inv
<1>5. ASSUME NEW c \in Cpus, RecordNothing(c) \/ LookupNone(c) PROVE EntryInv'
  <2>1. UNCHANGED <<owner, left, running, startTimes>>
    BY <1>5 DEF RecordNothing, LookupNone, world, maps, reader
  <2>2. CASE RecordNothing(c)
    <3>1. kprobe'[c].step = "lookup" /\ \A d \in Cpus \ {c} : kprobe'[d] = kprobe[d]
      BY <2>2, <1>a, GotoHandler DEF RecordNothing, Steps
    <3>2. At(c, "record") /\ ~PrevInTarget(c) /\ Entering(c) /\ Entering(c)'
      BY <2>2, <3>1 DEF RecordNothing, At, Entering
    <3> QED BY <2>1, <3>1, <3>2, MoveOn DEF At
  <2>3. CASE LookupNone(c)
    <3>1. kprobe'[c].step = "idle" /\ \A d \in Cpus \ {c} : kprobe'[d] = kprobe[d]
      BY <2>3, <1>a, ReturnHandler DEF LookupNone
    <3>2. At(c, "lookup") /\ (running[c] \in Tids => startTimes[running[c]] = Never)
      BY <2>3 DEF LookupNone, HasEntry
    <3> QED BY <2>1, <3>1, <3>2, MoveOn DEF At, Entering
  <2> QED BY <1>5, <2>2, <2>3
<1>6. ASSUME NEW c \in Cpus, LookupCurrent(c) PROVE EntryInv'
  <2>1. UNCHANGED <<owner, left, running, startTimes>> /\ At(c, "lookup")
    BY <1>6 DEF LookupCurrent, world, maps, reader
  <2>2. running[c] \in Tids
    BY <1>6 DEF LookupCurrent, HasEntry
  <2>3. /\ kprobe'[c].t_start = startTimes[running[c]] /\ kprobe'[c].step = "remove"
        /\ \A d \in Cpus \ {c} : kprobe'[d] = kprobe[d]
    BY <1>6, <1>a DEF LookupCurrent, Handler
  <2>4. RunningHasNoEntry'
    BY <1>b, <2>1, <2>3 DEF RunningHasNoEntry
  <2>5. EntryThere'
    <3>1. SUFFICES ASSUME NEW t \in Tids, HasLeft(t), Back(t) PROVE Back(t)'
      BY <1>b, <2>1 DEF EntryThere, HasLeft
    <3>2. PICK d \in Cpus :
            (running[d] = t /\ ~Entering(d)) \/ (Prev(d) = t /\ At(d, "record"))
      BY <3>1 DEF Back
    <3>3. d # c
      BY <2>1, <3>1, <3>2 DEF Entering, At
    <3> QED BY <2>1, <2>3, <3>2, <3>3 DEF Back, Entering, Prev, At
  <2>6. StartRead'
    <3>1. HasLeft(running[c]) => startTimes[running[c]] = left[running[c]]
      BY <1>b, <2>1, <2>2, EntryFound DEF Entering, At
    <3> QED BY <1>b, <2>1, <2>3, <3>1 DEF StartRead, HasLeft, At
  <2> QED BY <2>4, <2>5, <2>6 DEF EntryInv
<1>7. ASSUME NEW c \in Cpus, RemoveCurrent(c) PROVE EntryInv'
  <2>1. UNCHANGED <<owner, left, running>> /\ At(c, "remove") /\ running[c] \in Tids
    BY <1>7 DEF RemoveCurrent, world, reader, Inv, KprobeInv, Knows
  <2>2. /\ startTimes'[running[c]] = Never
        /\ \A t \in Tids \ {running[c]} : startTimes'[t] = startTimes[t]
    BY <1>7, <1>a, <2>1 DEF RemoveCurrent
  <2>3. Goto(c, "kernel") \/ Return(c)
    BY <1>7 DEF RemoveCurrent, Decide
  <2>4. /\ kprobe'[c].step \in {"idle", "kernel"}
        /\ \A d \in Cpus \ {c} : kprobe'[d] = kprobe[d]
    BY <2>3, <1>a, GotoHandler, ReturnHandler DEF Steps
  <2>5. ~Entering(c)' /\ Entering(c) /\ ~At(c, "idle") /\ ~At(c, "record")
    BY <2>1, <2>4 DEF Entering, At
  <2> QED BY <2>1, <2>2, <2>4, <2>5, MoveOn
<1>8. ASSUME NEW c \in Cpus,
             \/ KernelStack(c) \/ StoreKernel(c) \/ UserStack(c) \/ StoreUser(c)
             \/ EventFails(c) \/ Output(c) \/ SendSignal(c)
      PROVE  EntryInv'
  <2>1. UNCHANGED <<owner, left, running, startTimes>>
    BY <1>8 DEF KernelStack, StoreKernel, UserStack, StoreUser, EventFails, Output, SendSignal, world, maps, reader
  <2>2. Detected(c)
    BY <1>8 DEF KernelStack, StoreKernel, UserStack, StoreUser, EventFails, Output, SendSignal, Detected, At
  <2>3. /\ kprobe'[c].step \in {"idle", "store kernel", "user", "store user", "output", "signal"}
        /\ \A d \in Cpus \ {c} : kprobe'[d] = kprobe[d]
    <3>1. CASE EventFails(c) \/ SendSignal(c)
      BY <3>1, <1>a, ReturnHandler DEF EventFails, SendSignal
    <3>2. CASE Output(c) \/ StoreKernel(c) \/ StoreUser(c)
      BY <3>2, <1>a, GotoHandler DEF Output, StoreKernel, StoreUser, Steps
    <3>3. CASE KernelStack(c) \/ UserStack(c)
      BY <3>3, <1>a DEF KernelStack, UserStack, Handler
    <3> QED BY <1>8, <3>1, <3>2, <3>3
  <2>4. ~Entering(c) /\ ~Entering(c)' /\ ~At(c, "idle") /\ ~At(c, "record")
    BY <2>2, <2>3 DEF Entering, At, Detected
  <2>5. running[c] \in Tids => startTimes[running[c]] = Never
    BY <1>b, <2>4 DEF RunningHasNoEntry, Entering
  <2> QED BY <2>1, <2>3, <2>4, <2>5, MoveOn DEF Entering
<1>9. ASSUME ControlProgram \/ (\E c \in Cpus : TakeSignal(c)) \/ Tick \/ UNCHANGED vars
      PROVE  EntryInv'
  <2>1. UNCHANGED <<owner, left, running, kprobe, startTimes>>
    BY <1>9, ReaderKeeps DEF TakeSignal, Tick, vars, world, maps, reader
  <2> QED
    BY <1>b, <2>1
    DEF EntryInv, RunningHasNoEntry, EntryThere, StartRead, HasLeft, Back, Entering, Prev, At
<1> QED
  BY <1>1, <1>2, <1>3, <1>4, <1>5, <1>6, <1>7, <1>8, <1>9 DEF Next, Kprobe

LEMMA EntryInvariance == RoomForAll => (Spec => []EntryInv)
<1> SUFFICES ASSUME RoomForAll PROVE Spec => []EntryInv
  OBVIOUS
<1>1. Init => EntryInv
  BY DEF Init, EntryInv, RunningHasNoEntry, EntryThere, StartRead, HasLeft, NotRunning, At
<1>2. Inv /\ EntryInv /\ [Next]_vars => EntryInv'
  BY EntryStep
<1> QED
  BY <1>1, <1>2, Invariance, PTL DEF Spec

\* The entry of a thread is used up before its kprobe returns, so that a live
\* thread takes up room in START_TIMES only while it is off its CPU.
THEOREM EntriesUsedUp == RoomForAll => (Spec => []RunningHasNoEntry)
<1> SUFFICES ASSUME RoomForAll PROVE Spec => []RunningHasNoEntry
  OBVIOUS
<1>1. EntryInv => RunningHasNoEntry
  BY DEF EntryInv
<1> QED
  BY <1>1, EntryInvariance, PTL

\* A block in range has a duration in range, in microseconds.
LEMMA DueInRange ==
  ASSUME NEW c \in Cpus, kprobe \in [Cpus -> Handler],
         kprobe[c].t_start + MinBlock * NsPerUs <= kprobe[c].t_end,
         kprobe[c].t_end < kprobe[c].t_start + (MaxBlock + 1) * NsPerUs
  PROVE  ~ClockWentBack(c) /\ InRange(Offtime(c))
<1> DEFINE d == kprobe[c].t_end - kprobe[c].t_start
           q == d \div NsPerUs
<1>1. kprobe[c].t_start \in Nat /\ kprobe[c].t_end \in Nat
  BY DEF Handler
<1>2. /\ MinBlock \in Nat /\ MaxBlock \in Nat /\ NsPerUs \in Nat \ {0}
      /\ MinBlock * NsPerUs \in Nat /\ (MaxBlock + 1) * NsPerUs \in Nat
  BY ProbeAssumption
<1>3. d \in Nat /\ MinBlock * NsPerUs <= d /\ d < (MaxBlock + 1) * NsPerUs
  BY <1>1, <1>2
<1>4. Offtime(c) = q
  BY <1>3 DEF Offtime
<1>5. q \in Nat /\ q * NsPerUs <= d /\ d < (q + 1) * NsPerUs
  <2> HIDE DEF d
  <2> QED BY <1>2, <1>3
<1>6. MinBlock <= q /\ q <= MaxBlock
  <2> HIDE DEF q, d
  <2>1. ASSUME NEW a \in Nat, NEW b \in Nat, a * NsPerUs < b * NsPerUs PROVE a < b
    BY <1>2, <2>1
  <2>2. MinBlock * NsPerUs < (q + 1) * NsPerUs /\ q * NsPerUs < (MaxBlock + 1) * NsPerUs
    BY <1>2, <1>3, <1>5
  <2>3. MinBlock < q + 1 /\ q < MaxBlock + 1
    BY <1>2, <1>5, <2>1, <2>2
  <2> QED BY <1>2, <1>5, <2>3
<1> QED BY <1>1, <1>2, <1>3, <1>4, <1>6 DEF ClockWentBack, InRange

\* Whenever a thread of the target comes back from a block that is in range,
\* its kprobe detects it: it does not return before it is to store the stacks,
\* whatever runs on the other CPUs and however often ids are used again.
THEOREM NoBlockIsMissed == RoomForAll => (Spec => NoMissedBlock)
<1> SUFFICES ASSUME RoomForAll PROVE Spec => NoMissedBlock
  OBVIOUS
<1> DEFINE Finds ==
      \A c \in Cpus :
        kprobe[c].step \in {"record", "lookup", "remove"} /\ kprobe'[c].step = "idle"
          => ~BlockDue(c)
<1>1. Inv /\ EntryInv /\ [Next]_vars => [Finds]_vars
  <2>1. SUFFICES ASSUME Inv, EntryInv, Next, NEW c \in Cpus, Entering(c),
                        kprobe'[c].step = "idle", BlockDue(c)
                 PROVE  FALSE
    BY DEF Entering
  <2>2. /\ kprobe \in [Cpus -> Handler] /\ running[c] \in Tids /\ HasLeft(running[c])
        /\ startTimes[running[c]] = left[running[c]]
    BY <2>1, EntryFound DEF BlockDue, HasLeft, EntryInv, Inv, TypeOK
  <2>3. HasEntry(c)
    BY <2>2 DEF HasEntry, HasLeft
  <2>4. kprobe'[c] # kprobe[c]
    BY <2>1 DEF Entering
  <2>5. PICK d \in Cpus : Switch(d) \/ Kprobe(d)
    BY <2>1, <2>4, ReaderKeeps DEF Next, TakeSignal, Exit, Spawn, Tick, world, maps, reader
  <2>6. d = c
    <3>1. CASE Switch(d)
      BY <2>2, <2>4, <3>1 DEF Switch
    <3>2. CASE Kprobe(d)
      BY <2>2, <2>4, <3>2
      DEF Kprobe, RecordPrev, RecordFails, RecordNothing, LookupCurrent, LookupNone,
          RemoveCurrent, Decide, KernelStack, StoreKernel, UserStack, StoreUser, EventFails,
          Output, SendSignal, Goto, Return
    <3> QED BY <2>5, <3>1, <3>2
  <2>7. RemoveCurrent(c)
    <3>1. ~Switch(c)
      BY <2>1 DEF Switch, Entering, At
    <3>2. ~RecordPrev(c) /\ ~RecordNothing(c)
      BY <2>1, <2>2, GotoHandler DEF RecordPrev, RecordNothing, Steps
    <3>3. ~RecordFails(c)
      BY <2>1, InsertWorks DEF RecordFails, PrevInTarget, Inv
    <3>4. ~LookupCurrent(c)
      BY <2>1, <2>2 DEF LookupCurrent, Handler
    <3>5. ~LookupNone(c)
      BY <2>3 DEF LookupNone
    <3>6. /\ ~KernelStack(c) /\ ~StoreKernel(c) /\ ~UserStack(c) /\ ~StoreUser(c)
          /\ ~EventFails(c) /\ ~Output(c) /\ ~SendSignal(c)
      BY <2>1
      DEF KernelStack, StoreKernel, UserStack, StoreUser, EventFails, Output, SendSignal,
          Entering, At
    <3> QED BY <2>5, <2>6, <3>1, <3>2, <3>3, <3>4, <3>5, <3>6 DEF Kprobe
  <2>8. At(c, "remove") /\ kprobe[c].t_start = left[running[c]]
    BY <2>1, <2>2, <2>7 DEF RemoveCurrent, EntryInv, StartRead
  <2>9. ~ClockWentBack(c) /\ InRange(Offtime(c))
    BY <2>1, <2>2, <2>8, DueInRange DEF BlockDue, At
  <2>10. Reportable(c)
    BY <2>2, <2>3, <2>9 DEF Reportable, WrongProcess, HasLeft
  <2>11. Goto(c, "kernel")
    BY <2>7, <2>10 DEF RemoveCurrent, Decide
  <2> QED BY <2>1, <2>2, <2>11, GotoHandler DEF Steps
<1> QED
  BY <1>1, Invariance, EntryInvariance, PTL DEF Spec, NoMissedBlock
=============================================================================
