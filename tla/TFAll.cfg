\* Two runs of a task race; two futures and the task itself are read.
CONSTANTS
  r1 = r1
  r2 = r2
  g1 = g1
  g2 = g2
  g3 = g3
  t1 = t1
  t2 = t2
  t3 = t3
  Runs = {r1, r2}
  Getters = {g1, g2, g3}
  Peekers = {g3}
  Threads = {t1, t2, t3}
  Home <- HomeApart
  Nobody = Nobody
SPECIFICATION FairSpec
INVARIANTS
  TypeOK
  OneRunSatisfies
  TaskInv
PROPERTIES
  ImplementsOnceCell
  GettersAnswered
  EndsUnlessNobodyRuns
\* all calls may have ended
CHECK_DEADLOCK FALSE
