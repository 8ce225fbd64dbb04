\* Two fibers and the main context, every call but sleep; no symmetry,
\* which TLC's liveness checking does not allow.
CONSTANTS
  w1 = w1
  w2 = w2
  Workers = {w1, w2}
  Main = Main
  Dispatcher = Dispatcher
  NoOne = NoOne
  Cond = Cond
  Ops = {"post", "dispatch", "yield", "join", "detach", "wait", "notify"}
  Sleepers = {}
  Delays = {}
  MaxTime = 0
  SleepBound = 0
SPECIFICATION FairSpec
PROPERTIES
  StarvationFree
  JoinersReleased
  ShutdownEnds
\* the thread may end, halt, or have every fiber wait
CHECK_DEADLOCK FALSE
