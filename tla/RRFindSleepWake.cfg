\* The main context sleeps and launches a fiber.
CONSTANTS
  w1 = w1
  Workers = {w1}
  Main = Main
  Dispatcher = Dispatcher
  NoOne = NoOne
  Cond = Cond
  Ops = {"post"}
  Sleepers = {Main}
  Delays = {1}
  MaxTime = 2
  SleepBound = 2
SPECIFICATION Spec
INVARIANTS
  NeverResumesBadContext
\* the thread may end, halt, or have every fiber wait
CHECK_DEADLOCK FALSE
