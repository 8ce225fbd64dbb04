--------------------------- MODULE MCFiberContext ---------------------------
(***************************************************************************)
(* Instances of FiberContext for TLC.                                      *)
(***************************************************************************)
EXTENDS FiberContext, TLC

=============================================================================
