SPECIFICATION FairPipelineSpec
\* JBM may exit.
CHECK_DEADLOCK FALSE
CONSTANTS
  Tids = {t1}
  NoTid = NoTid
  NoJvm = NoJvm
  NotRead = NotRead
  Threshold = 2
  GiveUp = 1
  U64 = 64
  MaxBpf = 0
  MaxJvm = 0
  MaxNow = 0
  LastArrival = 0
  MaxStepBack = 0
  NsPerMs = 2
  NCpu = 2
  BufsPerRead = 1
  RingMax = 2
  MinBlock = 2
  Offset = 1
  MaxBlocks = 2
  MaxKtime = 6
  LastBlock = 4
INVARIANTS
  PipelineTypeOK
  BlockInOnePlace
  StampNearEnd
  StampBeforeStack
  OwnStack
PROPERTIES
  BlockEventuallyReported
