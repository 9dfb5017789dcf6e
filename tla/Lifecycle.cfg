SPECIFICATION FairSpec
\* JBM is not launched for ever.
CHECK_DEADLOCK FALSE
CONSTANTS
  Jbms = {j1}
  Idle = Idle
  NCpu = 2
  MaxLaunches = 3
INVARIANTS
  TypeOK
  ProfilerWhileAttached
  NothingLeftBehind
PROPERTIES
  EndsWithTarget
