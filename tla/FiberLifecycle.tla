--------------------------- MODULE FiberLifecycle ---------------------------
(***************************************************************************)
(* What lutask promises to a program, whatever the scheduling policy: the  *)
(* life of a context (a thread's main context or a worker fiber) seen      *)
(* without run queues, stacks or dispatchers.                              *)
(*                                                                         *)
(*   - a thread runs at most one context and a context runs on at most one *)
(*     thread;                                                             *)
(*   - only the running context gives up its thread, and the thread goes   *)
(*     to a context that is ready;                                         *)
(*   - a context that waits for a fiber becomes ready in the very step in  *)
(*     which that fiber ends, and by no other step;                        *)
(*   - a fiber that has ended stays ended.                                 *)
(*                                                                         *)
(* The schedulers are shown to implement this module by a refinement       *)
(* mapping.  Threads are named by their main contexts.                     *)
(***************************************************************************)

CONSTANTS
  Mains,    (* one main context per OS thread                     *)
  Workers,  (* the worker fibers a program may launch             *)
  Idle,     (* "no context of the program runs on this thread"    *)
  Nobody,   (* "waits for no fiber"                               *)
  Cond      (* "waits on a condition variable"                    *)

Fibers == Mains \cup Workers

VARIABLES
  status,   (* [Fibers -> Statuses]                                *)
  running,  (* [Mains -> Fibers \cup {Idle}]                       *)
  awaits    (* [Fibers -> Workers \cup {Cond, Nobody}]             *)

vars == <<status, running, awaits>>

Statuses == {"unborn", "ready", "running", "waiting", "ended"}

Init ==
  /\ status = [c \in Fibers |-> IF c \in Mains THEN "running" ELSE "unborn"]
  /\ running = [t \in Mains |-> t]
  /\ awaits = [c \in Fibers |-> Nobody]

-----------------------------------------------------------------------------
(***************************************************************************)
(* Hand thread t to next, the other contexts having the status st.         *)
(***************************************************************************)
Handover(t, next, st) ==
  /\ next \in Fibers => st[next] = "ready"
  /\ running' = [running EXCEPT ![t] = next]
  /\ status' = [c \in Fibers |-> IF c = next THEN "running" ELSE st[c]]

\* c, which runs on t, launches w and goes on; w is ready.
Launch(t, w) ==
  /\ running[t] # Idle
  /\ status[w] = "unborn"
  /\ status' = [status EXCEPT ![w] = "ready"]
  /\ UNCHANGED <<running, awaits>>

\* The launched fiber takes the thread at once and its launcher is ready.
LaunchNow(t, w) ==
  /\ running[t] # Idle
  /\ status[w] = "unborn"
  /\ Handover(t, w, [status EXCEPT ![w] = "ready", ![running[t]] = "ready"])
  /\ UNCHANGED awaits

Yield(t, next) ==
  /\ running[t] # Idle
  /\ Handover(t, next, [status EXCEPT ![running[t]] = "ready"])
  /\ UNCHANGED awaits

\* Wait for a fiber that has not ended, or on a condition variable.
Await(t, what, next) ==
  /\ running[t] # Idle
  /\ what \in Workers => status[what] # "ended"
  /\ Handover(t, next, [status EXCEPT ![running[t]] = "waiting"])
  /\ awaits' = [awaits EXCEPT ![running[t]] = what]

\* A notification makes some of the contexts that wait on a condition ready.
Notify(t, S) ==
  /\ running[t] # Idle
  /\ S \subseteq {c \in Fibers : awaits[c] = Cond}
  /\ status' = [c \in Fibers |-> IF c \in S THEN "ready" ELSE status[c]]
  /\ awaits' = [c \in Fibers |-> IF c \in S THEN Nobody ELSE awaits[c]]
  /\ UNCHANGED running

\* The running context ends; everyone who waits for it becomes ready.
End(t, next) ==
  /\ running[t] # Idle
  /\ LET done == running[t]
         freed == {c \in Fibers : awaits[c] = done}
     IN  /\ Handover(t, next,
               [c \in Fibers |-> IF c = done THEN "ended"
                                 ELSE IF c \in freed THEN "ready"
                                 ELSE status[c]])
         /\ awaits' = [c \in Fibers |->
                         IF c \in freed THEN Nobody ELSE awaits[c]]

\* An idle thread takes up a ready context.
Run(t, next) ==
  /\ running[t] = Idle
  /\ next \in Fibers
  /\ Handover(t, next, status)
  /\ UNCHANGED awaits

Next ==
  \E t \in Mains :
    \/ \E w \in Workers : Launch(t, w) \/ LaunchNow(t, w)
    \/ \E S \in SUBSET Fibers : Notify(t, S)
    \/ \E next \in Fibers \cup {Idle} :
         \/ Yield(t, next)
         \/ \E what \in Workers \cup {Cond} : Await(t, what, next)
         \/ End(t, next)
         \/ Run(t, next)

Spec == Init /\ [][Next]_vars

=============================================================================
