\* Three fibers and the main context; every call but sleep.
CONSTANTS
  w1 = w1
  w2 = w2
  w3 = w3
  Workers = {w1, w2, w3}
  Main = Main
  Dispatcher = Dispatcher
  NoOne = NoOne
  Cond = Cond
  Ops = {"post", "dispatch", "yield", "join", "detach", "wait", "notify"}
  Sleepers = {}
  Delays = {}
  MaxTime = 0
  SleepBound = 0
SPECIFICATION Spec
SYMMETRY WorkerSymmetry
INVARIANTS
  TypeOK
  NeverResumesBadContext
  NoContextIsLost
  OnePlaceEach
  NobodyWaitsForTheDead
  DestructorFindsQueuesEmpty
  Inv
PROPERTIES
  JoinReturnsAfterTermination
  ImplementsLifecycle
\* the thread may end, halt, or have every fiber wait
CHECK_DEADLOCK FALSE
