\* One fiber that may yield.
CONSTANTS
  w1 = w1
  Workers = {w1}
  Main = Main
  Dispatcher = Dispatcher
  NoOne = NoOne
  Cond = Cond
  Ops = {"post", "yield"}
  Sleepers = {}
  Delays = {}
  MaxTime = 0
  SleepBound = 0
SPECIFICATION Spec
INVARIANTS
  NoWorkLeftBehind
\* the thread may end, halt, or have every fiber wait
CHECK_DEADLOCK FALSE
