\* Three fibers and two handle variables, as in example/fcontext_test.cpp.
CONSTANTS
  Fibers = {w1, w2, w3}
  Root = Root
  Names = {f1, f2}
  Null = Null
SPECIFICATION FairSpec
INVARIANTS
  EachParkedOnce
  StacksInv
  NothingOutOfReach
PROPERTIES
  EndingIsFreed
  DestructorsReturn
\* the program may end, or lose the handle it would need
CHECK_DEADLOCK FALSE
