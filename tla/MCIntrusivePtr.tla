--------------------------- MODULE MCIntrusivePtr ---------------------------
(***************************************************************************)
(* Instances of IntrusivePtr for TLC: a worker context, a dispatcher       *)
(* context and a shared state.                                             *)
(***************************************************************************)
EXTENDS IntrusivePtr, TLC

CONSTANTS worker, dispatcher, state

ExtraOfEach == [o \in Objects |-> IF o = worker THEN 1 ELSE 0]

=============================================================================
