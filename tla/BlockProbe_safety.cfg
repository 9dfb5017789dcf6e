SPECIFICATION Spec
CHECK_DEADLOCK FALSE
CONSTANTS
  Cpus = {c1, c2}
  Tids = {t1, t2}
  Idle = Idle
  Never = Never
  StartTimesMax = 1
  MinBlock = 1
  MaxBlock = 64
  NsPerUs = 2
  U64 = 64
  k1 = k1
  k2 = k2
  u1 = u1
  KernelStacks = {k1, k2}
  UserStacks = {u1}
  NoStack = NoStack
  Bucket <- Colliding
  RingMax = 1
  Skew = 1
  MaxNow = 3
  MaxLive = 2
  TargetReuse = FALSE
SYMMETRY Symmetry
INVARIANTS
  TypeOK
  BlockIsReal
  DurationIsReal
  StacksReadable
