----------------------------- MODULE TaskFuture -----------------------------
(***************************************************************************)
(* One task: the SharedState that a PackagedTask and its futures share,    *)
(* the calls of TaskObject::Run that may satisfy it and the calls of Get   *)
(* that wait for it.                                                       *)
(*                                                                         *)
(* Each call is made by a fiber of its own.  SharedState uses std::mutex   *)
(* and std::condition_variable, so a fiber inside it keeps its OS thread,  *)
(* waiting or not; only in the task's own function can a fiber give up     *)
(* the thread, and perhaps go on at another one.  mtx_ is never held       *)
(* across a step: each critical section is one step, and the wait that     *)
(* ends one gives the mutex back.                                          *)
(***************************************************************************)
CONSTANTS
  Runs,      (* the calls of TaskObject::Run that are meant *)
  Getters,   (* the calls of Future::Get, each on its own future,
                and of PackagedTask::Get                    *)
  Peekers,   (* the latter, which leave the value in place  *)
  Threads,   (* the OS threads                            *)
  Home,      (* [Runs \cup Getters -> SUBSET Threads], the threads that
                serve the ready queue a call's fiber is in *)
  Nobody     (* no run                                    *)

Calls == Runs \cup Getters

ASSUME CallsAssumption ==
  /\ Runs \cap Getters = {} /\ Peekers \subseteq Getters
  /\ Nobody \notin Runs
  /\ Threads \cap {Nobody} = {}
  /\ Home \in [Calls -> SUBSET Threads \ {{}}]

VARIABLES
  ready,     (* SharedStateBase::ready_                             *)
  storage,   (* the run whose value is in SharedState::storage_     *)
  moved,     (* that value was moved out of storage_                *)
  except,    (* the run whose exception is in except_               *)
  waiters,   (* the getters that sleep in waiters_                  *)
  pc,        (* [Calls -> ...], where each call is                  *)
  thread,    (* [Calls -> Threads or Nobody], the thread it is on   *)
  answer     (* [Getters -> Answers], what Get() returned or threw  *)

state == <<ready, storage, moved, except>>
vars == <<state, waiters, pc, thread, answer>>

Answers == [kind : {"value", "error"}, of : Runs]
             \cup [kind : {"none", "spent"}, of : {Nobody}]

Value(r)  == [kind |-> "value", of |-> r]
Error(r)  == [kind |-> "error", of |-> r]
NoAnswer  == [kind |-> "none",  of |-> Nobody]
MovedFrom == [kind |-> "spent", of |-> Nobody]

Init ==
  /\ ready = FALSE
  /\ storage = Nobody
  /\ moved = FALSE
  /\ except = Nobody
  /\ waiters = {}
  /\ pc = [c \in Calls |-> "idle"]
  /\ thread = [c \in Calls |-> Nobody]
  /\ answer = [g \in Getters |-> NoAnswer]

\* A call that keeps its thread to itself.
Inside(c) ==
  pc[c] \notin {"idle", "abandoned", "function", "returned", "threw", "done"}

Free(t) == \A c \in Calls : thread[c] = t => ~Inside(c)

Goto(c, there) == pc' = [pc EXCEPT ![c] = there]

-----------------------------------------------------------------------------
\* TaskObject::Run begins, and calls the task's function.
Start(r) ==
  /\ pc[r] = "idle"
  /\ \E t \in Home[r] : Free(t) /\ thread' = [thread EXCEPT ![r] = t]
  /\ Goto(r, "function")
  /\ UNCHANGED <<state, waiters, answer>>

\* The task is destroyed before the call r: the shared state is left as it is.
Abandon(r) ==
  /\ pc[r] = "idle"
  /\ Goto(r, "abandoned")
  /\ UNCHANGED <<state, waiters, thread, answer>>

\* The function returns a value, or throws; it may have given up its thread
\* meanwhile and have been resumed on another one.
FunctionEnds(r) ==
  /\ pc[r] = "function"
  /\ \E t \in Home[r] : Free(t) /\ thread' = [thread EXCEPT ![r] = t]
  /\ Goto(r, "setvalue") \/ Goto(r, "setexception")
  /\ UNCHANGED <<state, waiters, answer>>

\* Mutant of SetValue: ready_ is not tested.
SetValueUntested(r) ==
  /\ pc[r] = "setvalue"
  /\ storage' = r
  /\ ready' = TRUE
  /\ Goto(r, "notify")
  /\ UNCHANGED <<moved, except, waiters, thread, answer>>

(***************************************************************************)
(* SetValue(R&&).  A state that is ready already, and a move constructor   *)
(* of R that throws, take Run into its handler: SetException comes next.   *)
(***************************************************************************)
SetValue(r) ==
  /\ pc[r] = "setvalue"
  /\ \/ /\ ~ready
        /\ storage' = r
        /\ ready' = TRUE
        /\ Goto(r, "notify")
     \/ /\ Goto(r, "setexception")
        /\ UNCHANGED <<ready, storage>>
  /\ UNCHANGED <<moved, except, waiters, thread, answer>>

\* Mutant of SetException: ready_ is not tested.
SetExceptionUntested(r) ==
  /\ pc[r] = "setexception"
  /\ except' = r
  /\ ready' = TRUE
  /\ Goto(r, "notify")
  /\ UNCHANGED <<storage, moved, waiters, thread, answer>>

\* SetException in the handler of Run: on a state that is ready already
\* TaskAlreadySatisfied leaves Run.
SetException(r) ==
  /\ pc[r] = "setexception"
  /\ IF ready
     THEN Goto(r, "threw") /\ UNCHANGED <<ready, except>>
     ELSE except' = r /\ ready' = TRUE /\ Goto(r, "notify")
  /\ UNCHANGED <<storage, moved, waiters, thread, answer>>

\* Mutant of Notify: notify_one.
NotifyOnlyOne(r) ==
  /\ pc[r] = "notify"
  /\ LET lucky == IF waiters = {} THEN {} ELSE {CHOOSE g \in waiters : TRUE}
     IN  /\ waiters' = waiters \ lucky
         /\ pc' = [c \in Calls |-> IF c = r THEN "returned"
                                   ELSE IF c \in lucky THEN "woken" ELSE pc[c]]
  /\ UNCHANGED <<state, thread, answer>>

\* The end of MarkReadyAndNotify, after the mutex was given back.
Notify(r) ==
  /\ pc[r] = "notify"
  /\ waiters' = {}
  /\ pc' = [c \in Calls |-> IF c = r THEN "returned"
                            ELSE IF c \in waiters THEN "woken" ELSE pc[c]]
  /\ UNCHANGED <<state, thread, answer>>

-----------------------------------------------------------------------------
\* Mutant of GetOrWait: whoever wakes up believes that the state is ready.
GetOrWaitOnce(g) ==
  /\ IF ready \/ pc[g] = "woken"
     THEN /\ UNCHANGED waiters
          /\ IF except # Nobody
             THEN Goto(g, "done") /\ answer' = [answer EXCEPT ![g] = Error(except)]
             ELSE Goto(g, "read") /\ UNCHANGED answer
     ELSE /\ waiters' = waiters \cup {g}
          /\ Goto(g, "wait")
          /\ UNCHANGED answer
  /\ UNCHANGED state

(***************************************************************************)
(* SharedState::Get with mtx_ held, from its beginning or from a wake-up:  *)
(* wait on, rethrow the exception, or return a reference to the value.     *)
(***************************************************************************)
GetOrWait(g) ==
  /\ IF ~ready
     THEN /\ waiters' = waiters \cup {g}
          /\ Goto(g, "wait")
          /\ UNCHANGED answer
     ELSE /\ UNCHANGED waiters
          /\ IF except # Nobody
             THEN Goto(g, "done") /\ answer' = [answer EXCEPT ![g] = Error(except)]
             ELSE Goto(g, "read") /\ UNCHANGED answer
  /\ UNCHANGED state

\* Future::Get on a valid future takes its state and enters SharedState::Get.
Get(g) ==
  /\ pc[g] = "idle"
  /\ \E t \in Home[g] : Free(t) /\ thread' = [thread EXCEPT ![g] = t]
  /\ GetOrWait(g)

\* A wait on a std::condition_variable may end without a notification.
WakeSpuriously(g) ==
  /\ g \in waiters
  /\ waiters' = waiters \ {g}
  /\ Goto(g, "woken")
  /\ UNCHANGED <<state, thread, answer>>

Woken(g) ==
  /\ pc[g] = "woken"
  /\ GetOrWait(g)
  /\ UNCHANGED thread

(***************************************************************************)
(* The rest of Future::Get runs without mtx_: R's move constructor reads   *)
(* the value and then leaves the moved-from state behind.  The reference   *)
(* that PackagedTask::Get returns is only read.                            *)
(***************************************************************************)
Read(g) ==
  /\ pc[g] = "read"
  /\ answer' = [answer EXCEPT ![g] = IF moved THEN MovedFrom ELSE Value(storage)]
  /\ Goto(g, IF g \in Peekers THEN "done" ELSE "clear")
  /\ UNCHANGED <<state, waiters, thread>>

Clear(g) ==
  /\ pc[g] = "clear"
  /\ moved' = TRUE
  /\ Goto(g, "done")
  /\ UNCHANGED <<ready, storage, except, waiters, thread, answer>>

-----------------------------------------------------------------------------
RunStep(r) ==
  \/ Start(r) \/ Abandon(r) \/ FunctionEnds(r)
  \/ SetValue(r) \/ SetException(r) \/ Notify(r)

GetStep(g) == Get(g) \/ Woken(g) \/ Read(g) \/ Clear(g)

Next ==
  \/ \E r \in Runs : RunStep(r)
  \/ \E g \in Getters : GetStep(g) \/ WakeSpuriously(g)

Spec == Init /\ [][Next]_vars

\* Every thread runs on, gives its ready fibers their turn, and a task's
\* function ends.  Nothing is assumed about spurious wake-ups.
FairSpec ==
  /\ Spec
  /\ \A r \in Runs : WF_vars(RunStep(r))
  /\ \A g \in Getters : WF_vars(GetStep(g))

-----------------------------------------------------------------------------
\* The values of every variable.
TypeOK ==
  /\ ready \in BOOLEAN /\ moved \in BOOLEAN
  /\ storage \in Runs \cup {Nobody}
  /\ except \in Runs \cup {Nobody}
  /\ waiters \subseteq Getters
  /\ pc \in [Calls -> {"idle", "abandoned", "function", "setvalue", "setexception",
                       "notify", "returned", "threw", "wait", "woken", "read",
                       "clear", "done"}]
  /\ thread \in [Calls -> Threads \cup {Nobody}]
  /\ answer \in [Getters -> Answers]

Satisfied(r) == pc[r] \in {"notify", "returned"}

(***************************************************************************)
(* However many runs of the task race, one satisfies it and each of the    *)
(* others leaves Run by TaskAlreadySatisfied, never by returning.          *)
(***************************************************************************)
OneRunSatisfies ==
  /\ \A q, r \in Runs : Satisfied(q) /\ Satisfied(r) => q = r
  /\ \A r \in Runs : pc[r] = "threw" => \E q \in Runs : Satisfied(q)

(***************************************************************************)
(* No wake-up is lost: a getter that sleeps after the result is there, or  *)
(* while it is being put there, is answered.                               *)
(***************************************************************************)
GettersAnswered ==
  \A g \in Getters : ready /\ g \in waiters ~> pc[g] = "done"

\* The call r will not be made: its task is gone, or every thread that could
\* run it is kept by a getter that waits there.
Stuck(r) ==
  \/ pc[r] = "abandoned"
  \/ \A t \in Home[r] : \E g \in Getters : thread[g] = t /\ pc[g] \in {"wait", "woken"}

(***************************************************************************)
(* Get() keeps its OS thread and knows no broken promise, so it may wait   *)
(* for ever - but only if each run of the task was given up or is kept     *)
(* from every thread by a getter; otherwise every call comes to its end.   *)
(***************************************************************************)
EndsUnlessNobodyRuns ==
  <>[] \/ \A c \in Calls : pc[c] \in {"abandoned", "returned", "threw", "done"}
       \/ ~ready /\ \A r \in Runs : Stuck(r)

-----------------------------------------------------------------------------
(***************************************************************************)
(* The inductive invariant of the proofs.  ready_ is what a run that       *)
(* satisfied the task left behind, and then one of storage_ and except_ is *)
(* set; a getter is past its wait only when the state is ready, and has    *)
(* its answer from then on; only a getter with an answer moves the value.  *)
(***************************************************************************)
CallsDoTheirPart ==
  /\ \A r \in Runs : pc[r] \in {"idle", "abandoned", "function", "setvalue",
                                "setexception", "notify", "returned", "threw"}
  /\ \A g \in Getters : pc[g] \in {"idle", "wait", "woken", "read", "clear", "done"}
  /\ \A g \in waiters : pc[g] = "wait"

ReadyBySatisfier ==
  /\ ready => \E r \in Runs : Satisfied(r)
  /\ \A r \in Runs : Satisfied(r) \/ pc[r] = "threw" => ready

OneResult ==
  IF ready THEN storage = Nobody <=> except # Nobody
           ELSE storage = Nobody /\ except = Nobody

ReadersSeeAValue ==
  \A g \in Getters : pc[g] \in {"read", "clear"} => ready /\ except = Nobody

AnsweredAtTheEnd ==
  \A g \in Getters : answer[g] # NoAnswer <=> pc[g] \in {"clear", "done"}

MovedByAReader == moved => \E g \in Getters : pc[g] = "done"

TaskInv ==
  /\ TypeOK /\ CallsDoTheirPart /\ OneRunSatisfies /\ ReadyBySatisfier
  /\ OneResult /\ ReadersSeeAValue /\ AnsweredAtTheEnd /\ MovedByAReader

-----------------------------------------------------------------------------
\* What the shared state holds for those who read it.
CellNow ==
  IF ~ready THEN NoAnswer
  ELSE IF except # Nobody THEN Error(except) ELSE Value(storage)

Cell ==
  INSTANCE OnceCell WITH
    Readers <- Getters,
    Values  <- {Value(r) : r \in Runs},
    Errors  <- {Error(r) : r \in Runs},
    Empty   <- NoAnswer,
    Spent   <- MovedFrom,
    cell    <- CellNow,
    seen    <- answer

\* A task and its futures implement the cell that is written once.
ImplementsOnceCell == Cell!Spec

=============================================================================
