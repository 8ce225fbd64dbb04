\* Fibers launched with ELaunch::Async that return to their origin.
CONSTANTS
  m1 = m1
  m2 = m2
  d1 = d1
  d2 = d2
  w1 = w1
  w2 = w2
  Mains = {m1, m2}
  Workers = {w1, w2}
  DispatcherOf <- DispatcherOfTwo
  NoOne = NoOne
  Cond = Cond
  Idle = Idle
  Calls <- CallsOfExample
SPECIFICATION Spec
INVARIANTS
  AwakenedAreResumable
CHECK_DEADLOCK FALSE
