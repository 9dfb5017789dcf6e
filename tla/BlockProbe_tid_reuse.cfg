SPECIFICATION Spec
CHECK_DEADLOCK FALSE
CONSTANTS
  Cpus = {c1}
  Tids = {t1, t2}
  Idle = Idle
  Never = Never
  StartTimesMax = 2
  MinBlock = 1
  MaxBlock = 64
  NsPerUs = 2
  U64 = 64
  k1 = k1
  k2 = k2
  u1 = u1
  KernelStacks = {k1}
  UserStacks = {u1}
  NoStack = NoStack
  Bucket <- Spread
  RingMax = 1
  Skew = 0
  MaxNow = 4
  MaxLive = 2
  TargetReuse = TRUE
SYMMETRY Symmetry
INVARIANTS
  BlockIsReal
