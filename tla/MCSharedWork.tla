---------------------------- MODULE MCSharedWork ----------------------------
(***************************************************************************)
(* Instances of SharedWork for TLC: two threads, two worker fibers.        *)
(***************************************************************************)
EXTENDS SharedWorkInvariant, TLC

CONSTANTS m1, m2, d1, d2, w1, w2

DispatcherOfTwo == m1 :> d1 @@ m2 :> d2

\* Every fiber may make every call but the two that leave the promises.
CallsKept == [c \in Fibers |-> AllCalls \ {"join", "origin"}]

\* The first thread launches and joins, the second one yields; one worker yields
\* and joins, the other goes back to its origin.
CallsJoining ==
  m1 :> {"post", "async", "join", "exit"} @@ m2 :> {"yield", "exit"}
    @@ w1 :> {"yield", "join"} @@ w2 :> {"origin"}

\* example/shared_work.cpp: a main context launches, the fibers return to it.
CallsOfExample ==
  [c \in Mains |-> {"async", "wait", "exit"}] @@ [w \in Workers |-> {"origin", "notify"}]

\* The threads are alike, and so are the workers.
ThreadSymmetry ==
  Permutations(Workers) \cup
    {(m1 :> m2 @@ m2 :> m1 @@ d1 :> d2 @@ d2 :> d1 @@ p) : p \in Permutations(Workers)}

=============================================================================
