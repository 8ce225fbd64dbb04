\* Two threads of either policy; the first launches fibers and joins them.
CONSTANTS
  m1 = m1
  m2 = m2
  d1 = d1
  d2 = d2
  w1 = w1
  w2 = w2
  Mains = {m1, m2}
  Workers = {w1, w2}
  DispatcherOf <- DispatcherOfTwo
  NoOne = NoOne
  Cond = Cond
  Idle = Idle
  Calls <- CallsJoining
SPECIFICATION FairSpec
INVARIANTS
  LateJoinsCrossThreads
PROPERTIES
  SharedServed
  MainServed
\* the threads may end, halt, or have every fiber wait
CHECK_DEADLOCK FALSE
