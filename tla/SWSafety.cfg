\* Two threads of either policy, two fibers; no Join, no YieldOrigin.
CONSTANTS
  m1 = m1
  m2 = m2
  d1 = d1
  d2 = d2
  w1 = w1
  w2 = w2
  Mains = {m1, m2}
  Workers = {w1, w2}
  DispatcherOf <- DispatcherOfTwo
  NoOne = NoOne
  Cond = Cond
  Idle = Idle
  Calls <- CallsKept
SPECIFICATION Spec
SYMMETRY ThreadSymmetry
INVARIANTS
  TypeOK
  EachInOnePlace
  QueuedAreResumable
  NeverResumesBadContext
  OneScheduler
  NoWaiterOutlivesItsThread
  SharedInv
PROPERTIES
  ImplementsLifecycle
\* the threads may end, halt, or have every fiber wait
CHECK_DEADLOCK FALSE
