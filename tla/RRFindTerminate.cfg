\* The main context launches two fibers, detaches them and ends.
CONSTANTS
  w1 = w1
  w2 = w2
  Workers = {w1, w2}
  Main = Main
  Dispatcher = Dispatcher
  NoOne = NoOne
  Cond = Cond
  Ops = {"post", "detach"}
  Sleepers = {}
  Delays = {}
  MaxTime = 0
  SleepBound = 0
SPECIFICATION FairSpec
PROPERTIES
  AllWorkProcessed
\* the thread may end, halt, or have every fiber wait
CHECK_DEADLOCK FALSE
