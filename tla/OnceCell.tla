------------------------------ MODULE OnceCell ------------------------------
(***************************************************************************)
(* What a task promises to those who hold its futures, without locks,      *)
(* condition variables or threads: one result is put into a cell, once,    *)
(* and it is what every reader sees - except that a value, which Get()     *)
(* moves out, may be spent for those who read after another reader.        *)
(***************************************************************************)
CONSTANTS
  Readers,   (* the futures                               *)
  Values,    (* the values a run may produce              *)
  Errors,    (* the exceptions a run may end with         *)
  Empty,     (* no result yet, or nothing read yet        *)
  Spent      (* what is left where a value was moved from *)

VARIABLES cell, seen

Init == cell = Empty /\ seen = [g \in Readers |-> Empty]

Put(v) ==
  /\ cell = Empty
  /\ cell' = v
  /\ UNCHANGED seen

See(g) ==
  /\ cell # Empty
  /\ seen[g] = Empty
  /\ \/ seen' = [seen EXCEPT ![g] = cell]
     \/ /\ cell \in Values
        /\ \E h \in Readers : seen[h] # Empty
        /\ seen' = [seen EXCEPT ![g] = Spent]
  /\ UNCHANGED cell

Next ==
  \/ \E v \in Values \cup Errors : Put(v)
  \/ \E g \in Readers : See(g)

Spec == Init /\ [][Next]_<<cell, seen>>

=============================================================================
