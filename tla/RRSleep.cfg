\* The main context and one fiber sleep, the other fiber yields or waits.
CONSTANTS
  w1 = w1
  w2 = w2
  Workers = {w1, w2}
  Main = Main
  Dispatcher = Dispatcher
  NoOne = NoOne
  Cond = Cond
  Ops = {"post", "yield", "wait"}
  Sleepers = {Main, w1}
  Delays = {1, 2}
  MaxTime = 2
  SleepBound = 3
SPECIFICATION FairSpec
INVARIANTS
  OrderedUnlessStale
PROPERTIES
  DueSleepersAreScheduled
\* the thread may end, halt, or have every fiber wait
CHECK_DEADLOCK FALSE
