SPECIFICATION Spec
\* JBM may exit.
CHECK_DEADLOCK FALSE
CONSTANTS
  Tids = {t1, t2}
  NoTid = NoTid
  NoJvm = NoJvm
  Threshold = 3
  GiveUp = 3
  U64 = 64
  MaxBpf = 3
  MaxJvm = 2
  MaxNow = 3
  LastArrival = 2
  MaxStepBack = 1
SYMMETRY Symmetry
INVARIANTS
  TypeOK
  PairInWindow
  BpfReportedOnce
  JvmUsedOnce
  OneSideWaits
