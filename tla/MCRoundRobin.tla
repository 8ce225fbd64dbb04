---------------------------- MODULE MCRoundRobin ----------------------------
(***************************************************************************)
(* Instances of RoundRobinScheduler for TLC.                               *)
(***************************************************************************)
EXTENDS RoundRobinInvariant, TLC

\* The worker fibers have the same code, so their names may be permuted.
WorkerSymmetry == Permutations(Workers)

=============================================================================
