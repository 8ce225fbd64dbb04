\* A worker context, a dispatcher context and a shared state; three pointers on
\* two threads.
CONSTANTS
  worker = worker
  dispatcher = dispatcher
  state = state
  Objects = {worker, dispatcher, state}
  Frees = {worker, dispatcher}
  Extra <- ExtraOfEach
  Ptrs = {p1, p2, p3}
  Threads = {t1, t2}
  Null = Null
SPECIFICATION FairSpec
INVARIANTS
  TypeOK
  CountIsHolders
  DestroyedAlone
PROPERTIES
  UnheldIsDestroyed
\* the program may end
CHECK_DEADLOCK FALSE
