SPECIFICATION FairSpec
\* JBM may exit.
CHECK_DEADLOCK FALSE
CONSTANTS
  Tids = {t1, t2}
  NoTid = NoTid
  NoJvm = NoJvm
  Threshold = 2
  GiveUp = 2
  U64 = 64
  MaxBpf = 2
  MaxJvm = 2
  MaxNow = 4
  LastArrival = 2
  MaxStepBack = 0
INVARIANTS
  AgeNeverWraps
  MissingStackExplained
PROPERTIES
  KeepsPromise
  EventuallyReported
