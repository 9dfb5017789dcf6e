SPECIFICATION Spec
\* JBM may exit.
CHECK_DEADLOCK FALSE
CONSTANTS
  Tids = {t1, t2}
  NoTid = NoTid
  NoJvm = NoJvm
  Threshold = 3
  GiveUp = 3
  U64 = 64
  MaxBpf = 2
  MaxJvm = 1
  MaxNow = 3
  LastArrival = 3
  MaxStepBack = 0
SYMMETRY Symmetry
INVARIANTS
  SameThread
