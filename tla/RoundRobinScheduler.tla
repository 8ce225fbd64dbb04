------------------------ MODULE RoundRobinScheduler ------------------------
(***************************************************************************)
(* One OS thread that runs fibers under RoundRobinPolicy: Context,         *)
(* Scheduler, RoundRobinPolicy, WaitQueue, Fiber and the use a thread      *)
(* makes of ConditionVariableAny for its own fibers.                       *)
(*                                                                         *)
(* Fibers are cooperative, so the code between two context switches is one *)
(* step: an action is an API call made by the running fiber up to the      *)
(* switch it ends in (or its return), the part of a call that runs after   *)
(* its fiber is resumed, or one turn of the dispatcher's loop.             *)
(*                                                                         *)
(* A context is resumable (Context::c_ is not null) exactly when saved.    *)
(***************************************************************************)
EXTENDS Integers, Sequences, FiniteSets, Functions

CONSTANTS
  Workers,     (* the worker contexts the program may make             *)
  Main,        (* the thread's main context                            *)
  Dispatcher,  (* the scheduler's own context                          *)
  NoOne,       (* no context                                           *)
  Ops,         (* the API calls the program makes                      *)
  Sleepers,    (* the contexts that call sleep_for / sleep_until       *)
  Delays,      (* the delays they ask for                              *)
  MaxTime,     (* bound on the steady clock                            *)
  SleepBound   (* bound on the entries of sleepQueue_                  *)

AllOps == {"post", "dispatch", "yield", "join", "detach", "wait", "notify"}

Fibers == Workers \cup {Main}
Contexts == Fibers \cup {Dispatcher}

ASSUME ContextsDistinct ==
  /\ Main \notin Workers
  /\ Dispatcher \notin Fibers
  /\ NoOne \notin Contexts

ASSUME ProgramAssumption ==
  /\ Ops \subseteq AllOps
  /\ Sleepers \subseteq Fibers
  /\ MaxTime \in Nat
  /\ SleepBound \in Nat
  /\ Delays \subseteq Nat \ {0}

Never == MaxTime + 1    \* time_point::max()
Times == 0 .. Never

VARIABLES
  active,           (* ContextInitializer::active_                     *)
  saved,            (* [Contexts -> BOOLEAN], Context::c_ is not null  *)
  ready,            (* RoundRobinPolicy::readyQueue_                   *)
  workerQueue,      (* Scheduler::workerQueue_; only membership is read *)
  terminated,       (* the contexts whose terminated_ is set           *)
  terminatedQueue,  (* Scheduler::terminatedQueue_                     *)
  waitList,         (* [Workers -> Seq(Fibers)], Context::waitList_    *)
  cond,             (* ConditionVariableAny::waitQueue_                *)
  handle,           (* [Workers -> ...], Fiber::impl_                  *)
  joining,          (* [Fibers -> Workers or NoOne], inside Join()     *)
  mtx,              (* Scheduler::mtx_ is locked (by this thread)      *)
  shutdown,         (* Scheduler::shutdown_                            *)
  flag,             (* RoundRobinPolicy::flag_                         *)
  loop,             (* where the dispatcher is in Dispatch()           *)
  sleepQueue,       (* Scheduler::sleepQueue_, in multiset order       *)
  tp,               (* [Contexts -> Times], Context::tp_               *)
  now,              (* steady_clock::now()                             *)
  halted            (* "no", or why the thread can not go on           *)

sleepVars == <<sleepQueue, tp, now>>
queueVars == <<workerQueue, terminated, terminatedQueue, mtx>>
waitVars  == <<waitList, cond, handle, joining>>
loopVars  == <<shutdown, flag, loop>>
vars == <<active, saved, ready, queueVars, waitVars, loopVars, sleepVars, halted>>

(***************************************************************************)
(* halted is "mutex" when the thread locks the mtx_ that it already holds, *)
(* which std::mutex answers with a deadlock or an exception that leaves a  *)
(* noexcept function; "null" when PickNext() returned nullptr to a caller  *)
(* that dereferences it; "crash" when the context to resume has no saved   *)
(* continuation or has terminated.                                         *)
(***************************************************************************)
HaltReasons == {"no", "mutex", "null", "crash"}

\* Context::IsResumable, and the context has not run to its end.
Resumable(c) == saved[c] /\ c \notin terminated

Created(w) == handle[w] # "none"
Live == {Main, Dispatcher} \cup {w \in Workers : Created(w) /\ w \notin terminated}

(***************************************************************************)
(* State after ContextInitializer::Initialize on this thread.              *)
(***************************************************************************)
Init ==
  /\ active = Main
  /\ saved = [c \in Contexts |-> c = Dispatcher]
  /\ ready = <<Dispatcher>>
  /\ workerQueue = {}
  /\ terminated = {}
  /\ terminatedQueue = {}
  /\ waitList = [w \in Workers |-> <<>>]
  /\ cond = <<>>
  /\ handle = [w \in Workers |-> "none"]
  /\ joining = [c \in Fibers |-> NoOne]
  /\ mtx = FALSE
  /\ shutdown = FALSE
  /\ flag = FALSE
  /\ loop = "run"
  /\ sleepQueue = <<>>
  /\ tp = [c \in Contexts |-> Never]
  /\ now = 0
  /\ halted = "no"

-----------------------------------------------------------------------------
\* Mutant of Awakened: the newest context is taken first.
AwakenedInFront(q, cs) == cs \o q

(***************************************************************************)
(* RoundRobinPolicy::Awakened and Context::Wake: the queue q after the     *)
(* contexts of the sequence cs were scheduled, in this order.              *)
(***************************************************************************)
Awakened(q, cs) == q \o cs

\* Mutant of Resume: Resume() where Resume(readyCtx) is needed.
ResumeForgetting(next, q, back) ==
  /\ ready' = q
  /\ active' = next
  /\ saved' = [saved EXCEPT ![active] = TRUE, ![next] = FALSE]
  /\ UNCHANGED halted

(***************************************************************************)
(* Context::Resume on next: the active context's continuation is saved,    *)
(* next's is used up, and the contexts back are scheduled by the lambda    *)
(* that runs on next's stack.  q is the ready queue before the switch.     *)
(***************************************************************************)
Resume(next, q, back) ==
  /\ ready' = Awakened(q, back)
  /\ IF Resumable(next)
     THEN /\ active' = next
          /\ saved' = [saved EXCEPT ![active] = TRUE, ![next] = FALSE]
          /\ UNCHANGED halted
     ELSE /\ halted' = "crash"
          /\ UNCHANGED <<active, saved>>

(***************************************************************************)
(* policy_->PickNext()->Resume(...) with q as the ready queue: the switch  *)
(* that Suspend, Yield, WaitUntil and Terminate end in.                    *)
(***************************************************************************)
ResumeNext(q, back) ==
  IF q = <<>>
  THEN /\ halted' = "null"
       /\ ready' = q
       /\ UNCHANGED <<active, saved>>
  ELSE Resume(Head(q), Tail(q), back)

\* c is the running fiber, in the program's own code.
InUserCode(c) ==
  /\ halted = "no"
  /\ active = c
  /\ joining[c] = NoOne
  /\ c = Main => ~shutdown

\* Mutant of Attach: the launching context is attached, not the new one.
AttachActive(w) ==
  /\ ~mtx
  /\ workerQueue' = workerQueue \cup {active}

\* Scheduler::AttachWorkerContext, with mtx_ free.
Attach(w) ==
  /\ ~mtx
  /\ workerQueue' = workerQueue \cup {w}

-----------------------------------------------------------------------------
\* Fiber's constructor with ELaunch::Post: attach and schedule the new fiber.
Post(c, w) ==
  /\ "post" \in Ops
  /\ InUserCode(c)
  /\ ~Created(w)
  /\ Attach(w)
  /\ handle' = [handle EXCEPT ![w] = "joinable"]
  /\ saved' = [saved EXCEPT ![w] = TRUE]
  /\ ready' = Awakened(ready, <<w>>)
  /\ UNCHANGED <<active, terminated, terminatedQueue, mtx, waitList, cond,
                 joining, loopVars, sleepVars, halted>>

\* Fiber's constructor with ELaunch::Dispatch: run the new fiber at once.
Dispatch(c, w) ==
  /\ "dispatch" \in Ops
  /\ InUserCode(c)
  /\ ~Created(w)
  /\ Attach(w)
  /\ handle' = [handle EXCEPT ![w] = "joinable"]
  /\ active' = w
  /\ saved' = [saved EXCEPT ![c] = TRUE]
  /\ ready' = Awakened(ready, <<c>>)
  /\ UNCHANGED <<terminated, terminatedQueue, mtx, waitList, cond,
                 joining, loopVars, sleepVars, halted>>

\* A launch locks mtx_ in AttachWorkerContext while the thread holds it:
\* nothing of the half-made fiber is ever observed.
LaunchBlocked(c, w) ==
  /\ Ops \cap {"post", "dispatch"} # {}
  /\ InUserCode(c)
  /\ ~Created(w)
  /\ mtx
  /\ halted' = "mutex"
  /\ UNCHANGED <<active, saved, ready, queueVars, waitVars, loopVars, sleepVars>>

\* this_fiber::Yield.
Yield(c) ==
  /\ "yield" \in Ops
  /\ InUserCode(c)
  /\ workerQueue' = workerQueue \ {c}
  /\ ResumeNext(ready, <<c>>)
  /\ UNCHANGED <<terminated, terminatedQueue, mtx, waitVars, loopVars, sleepVars>>

-----------------------------------------------------------------------------
\* Fiber::Join may go ahead: not on itself, and the handle is joinable.
\* Otherwise it throws a FiberError and changes nothing.
MayJoin(c, w) ==
  /\ "join" \in Ops
  /\ InUserCode(c)
  /\ c # w
  /\ handle[w] = "joinable"

\* Fiber::Join on a fiber that has terminated: only impl_ is reset.
JoinTerminated(c, w) ==
  /\ MayJoin(c, w)
  /\ w \in terminated
  /\ handle' = [handle EXCEPT ![w] = "empty"]
  /\ UNCHANGED <<active, saved, ready, queueVars, waitList, cond, joining,
                 loopVars, sleepVars, halted>>

\* Mutant of JoinWait: terminated_ is not tested.
JoinWaitUntested(c, w) ==
  /\ MayJoin(c, w)
  /\ waitList' = [waitList EXCEPT ![w] = Append(@, c)]
  /\ joining' = [joining EXCEPT ![c] = w]
  /\ ResumeNext(ready, <<>>)
  /\ UNCHANGED <<queueVars, cond, handle, loopVars, sleepVars>>

\* Fiber::Join on a live fiber: enter its wait list and suspend.
JoinWait(c, w) ==
  /\ MayJoin(c, w)
  /\ w \notin terminated
  /\ waitList' = [waitList EXCEPT ![w] = Append(@, c)]
  /\ joining' = [joining EXCEPT ![c] = w]
  /\ ResumeNext(ready, <<>>)
  /\ UNCHANGED <<queueVars, cond, handle, loopVars, sleepVars>>

\* The rest of Fiber::Join, once the joining fiber is resumed.
JoinReturn(c) ==
  /\ halted = "no"
  /\ active = c
  /\ joining[c] # NoOne
  /\ handle' = [handle EXCEPT ![joining[c]] = "empty"]
  /\ joining' = [joining EXCEPT ![c] = NoOne]
  /\ UNCHANGED <<active, saved, ready, queueVars, waitList, cond, loopVars,
                 sleepVars, halted>>

\* Fiber::Detach.
Detach(c, w) ==
  /\ "detach" \in Ops
  /\ InUserCode(c)
  /\ handle[w] = "joinable"
  /\ handle' = [handle EXCEPT ![w] = "empty"]
  /\ UNCHANGED <<active, saved, ready, queueVars, waitList, cond, joining,
                 loopVars, sleepVars, halted>>

(***************************************************************************)
(* ConditionVariableAny among the fibers of this thread.  m_ is taken by   *)
(* Wait and given back by the lambda that runs on the next stack, so no    *)
(* fiber of the thread ever finds it locked.                               *)
(***************************************************************************)
CondWait(c) ==
  /\ "wait" \in Ops
  /\ InUserCode(c)
  /\ cond' = Append(cond, c)
  /\ ResumeNext(ready, <<>>)
  /\ UNCHANGED <<queueVars, waitList, handle, joining, loopVars, sleepVars>>

\* Mutant of NotifyOne: the context woken stays at the head of the queue.
NotifyOneKeeping(c) ==
  /\ "notify" \in Ops
  /\ InUserCode(c)
  /\ cond # <<>>
  /\ ready' = Awakened(ready, <<Head(cond)>>)
  /\ UNCHANGED <<active, saved, queueVars, waitVars, loopVars, sleepVars, halted>>

NotifyOne(c) ==
  /\ "notify" \in Ops
  /\ InUserCode(c)
  /\ cond # <<>>
  /\ cond' = Tail(cond)
  /\ ready' = Awakened(ready, <<Head(cond)>>)
  /\ UNCHANGED <<active, saved, queueVars, waitList, handle, joining,
                 loopVars, sleepVars, halted>>

NotifyAll(c) ==
  /\ "notify" \in Ops
  /\ InUserCode(c)
  /\ cond # <<>>
  /\ cond' = <<>>
  /\ ready' = Awakened(ready, cond)
  /\ UNCHANGED <<active, saved, queueVars, waitList, handle, joining,
                 loopVars, sleepVars, halted>>

-----------------------------------------------------------------------------
(***************************************************************************)
(* The fiber's function has returned: Context::Terminate wakes everyone    *)
(* who joins it, then Scheduler::Terminate locks mtx_, files the context   *)
(* and leaves its stack for good - with mtx_ locked.                       *)
(***************************************************************************)
\* Mutant of EndFiber: terminated_ is not set.
EndFiberUnmarked(w) ==
  /\ InUserCode(w)
  /\ waitList' = [waitList EXCEPT ![w] = <<>>]
  /\ UNCHANGED terminated

EndFiber(w) ==
  /\ InUserCode(w)
  /\ terminated' = terminated \cup {w}
  /\ waitList' = [waitList EXCEPT ![w] = <<>>]

\* Mutant of Terminate: those who join the fiber are not scheduled.
TerminateSilently(w) ==
  /\ EndFiber(w)
  /\ ~mtx
  /\ mtx' = TRUE
  /\ terminatedQueue' = terminatedQueue \cup {w}
  /\ workerQueue' = workerQueue \ {w}
  /\ ResumeNext(ready, <<>>)
  /\ UNCHANGED <<cond, handle, joining, loopVars, sleepVars>>

\* Mutant of Terminate: the fiber stays in workerQueue_.
TerminateAttached(w) ==
  /\ EndFiber(w)
  /\ ~mtx
  /\ mtx' = TRUE
  /\ terminatedQueue' = terminatedQueue \cup {w}
  /\ ResumeNext(Awakened(ready, waitList[w]), <<>>)
  /\ UNCHANGED <<workerQueue, cond, handle, joining, loopVars, sleepVars>>

Terminate(w) ==
  /\ EndFiber(w)
  /\ ~mtx
  /\ mtx' = TRUE
  /\ terminatedQueue' = terminatedQueue \cup {w}
  /\ workerQueue' = workerQueue \ {w}
  /\ ResumeNext(Awakened(ready, waitList[w]), <<>>)
  /\ UNCHANGED <<cond, handle, joining, loopVars, sleepVars>>

TerminateBlocked(w) ==
  /\ EndFiber(w)
  /\ mtx
  /\ ready' = Awakened(ready, waitList[w])
  /\ halted' = "mutex"
  /\ UNCHANGED <<active, saved, workerQueue, terminatedQueue, mtx, cond,
                 handle, joining, loopVars, sleepVars>>

-----------------------------------------------------------------------------
(***************************************************************************)
(* std::multiset::insert of c, whose time is t.  The elements are ordered  *)
(* by the tp_ they have now; the time of an element that is still in the   *)
(* set from an earlier call may have changed, and then the search ends at  *)
(* any place whose two neighbours allow it.                                *)
(***************************************************************************)
InsertAt(q, i, c) == SubSeq(q, 1, i - 1) \o <<c>> \o SubSeq(q, i, Len(q))

\* Mutant of InsertPlaces: sleepQueue_ is a list, and sleepers go to its end.
InsertPlacesLast(q, time, t) == {Len(q) + 1}

InsertPlaces(q, time, t) ==
  {i \in 1 .. Len(q) + 1 : /\ i > 1 => time[q[i - 1]] <= t
                           /\ i <= Len(q) => time[q[i]] > t}

\* Scheduler::WaitUntil: the sleeper is scheduled as well as put to sleep.
WaitUntil(c, d) ==
  /\ c \in Sleepers
  /\ InUserCode(c)
  /\ now + d <= MaxTime
  /\ Len(sleepQueue) < SleepBound
  /\ tp' = [tp EXCEPT ![c] = now + d]
  /\ \E i \in InsertPlaces(sleepQueue, tp', now + d) :
       sleepQueue' = InsertAt(sleepQueue, i, c)
  /\ ResumeNext(ready, <<c>>)
  /\ UNCHANGED <<queueVars, waitVars, loopVars, now>>

Tick ==
  /\ halted = "no"
  /\ active # NoOne
  /\ now < MaxTime
  /\ now' = now + 1
  /\ UNCHANGED <<active, saved, ready, queueVars, waitVars, loopVars,
                 sleepQueue, tp, halted>>

-----------------------------------------------------------------------------
\* The number of sleepers that ProcSleepToReady takes off the head of
\* sleepQueue_: it stops at the first one that is not due, and a context that
\* it has taken is due no more.
Due ==
  LET takes(i) == /\ tp[sleepQueue[i]] <= now
                  /\ \A j \in 1 .. i - 1 : sleepQueue[j] # sleepQueue[i]
  IN  Cardinality({i \in 1 .. Len(sleepQueue) : \A j \in 1 .. i : takes(j)})

\* One turn of the loop of Scheduler::Dispatch that does not leave it.
DispatchTurn ==
  /\ halted = "no"
  /\ active = Dispatcher
  /\ loop = "run"
  /\ ~(shutdown /\ workerQueue = {})
  /\ flag' = (flag \/ shutdown)
  /\ terminatedQueue' = {}
  /\ LET woken == SubSeq(sleepQueue, 1, Due)
         q == Awakened(ready, woken)
     IN  /\ sleepQueue' = SubSeq(sleepQueue, Due + 1, Len(sleepQueue))
         /\ tp' = [c \in Contexts |-> IF c \in Range(woken) THEN Never ELSE tp[c]]
         /\ IF q = <<>>
            THEN /\ loop' = "idle"
                 /\ UNCHANGED <<active, saved, ready, halted>>
            ELSE /\ Resume(Head(q), Tail(q), <<Dispatcher>>)
                 /\ UNCHANGED loop
  /\ UNCHANGED <<workerQueue, terminated, mtx, waitVars, shutdown, now>>

\* Mutant of SuspendUntilReturns: only a notification ends the suspension.
SuspendUntilNotified ==
  /\ halted = "no"
  /\ active = Dispatcher
  /\ loop = "idle"
  /\ flag
  /\ flag' = FALSE
  /\ loop' = "run"
  /\ UNCHANGED <<active, saved, ready, queueVars, waitVars, shutdown,
                 sleepVars, halted>>

\* RoundRobinPolicy::SuspendUntil returns: notified, or the first sleeper's
\* time has come.
SuspendUntilReturns ==
  /\ halted = "no"
  /\ active = Dispatcher
  /\ loop = "idle"
  /\ flag \/ (sleepQueue # <<>> /\ tp[Head(sleepQueue)] <= now)
  /\ flag' = FALSE
  /\ loop' = "run"
  /\ UNCHANGED <<active, saved, ready, queueVars, waitVars, shutdown,
                 sleepVars, halted>>

\* Mutant of DispatchReturn: workerQueue_ is not tested.
DispatchReturnEarly ==
  /\ halted = "no"
  /\ active = Dispatcher
  /\ loop = "run"
  /\ shutdown
  /\ flag' = TRUE
  /\ terminatedQueue' = {}
  /\ loop' = "left"
  /\ Resume(Main, ready, <<>>)
  /\ UNCHANGED <<workerQueue, terminated, mtx, waitVars, shutdown, sleepVars>>

\* Dispatch leaves its loop and returns to the main context.
DispatchReturn ==
  /\ halted = "no"
  /\ active = Dispatcher
  /\ loop = "run"
  /\ shutdown
  /\ workerQueue = {}
  /\ flag' = TRUE
  /\ terminatedQueue' = {}
  /\ loop' = "left"
  /\ Resume(Main, ready, <<>>)
  /\ UNCHANGED <<workerQueue, terminated, mtx, waitVars, shutdown, sleepVars>>

\* ~Scheduler, called as the thread ends: suspend until Dispatch returns.
ShutDown ==
  /\ InUserCode(Main)
  /\ shutdown' = TRUE
  /\ ResumeNext(ready, <<>>)
  /\ UNCHANGED <<queueVars, waitVars, flag, loop, sleepVars>>

\* The rest of ~Scheduler: the dispatcher's context is destroyed, which is
\* possible only from the place where Dispatch left it.
ShutDownReturn ==
  /\ halted = "no"
  /\ active = Main
  /\ shutdown
  /\ IF loop = "left"
     THEN active' = NoOne /\ UNCHANGED halted
     ELSE halted' = "crash" /\ UNCHANGED active
  /\ UNCHANGED <<saved, ready, queueVars, waitVars, loopVars, sleepVars>>

-----------------------------------------------------------------------------
Step ==
  \/ \E c \in Fibers :
       \/ \E w \in Workers :
            \/ Post(c, w) \/ Dispatch(c, w) \/ LaunchBlocked(c, w)
            \/ JoinTerminated(c, w) \/ JoinWait(c, w) \/ Detach(c, w)
       \/ Yield(c) \/ JoinReturn(c)
       \/ CondWait(c) \/ NotifyOne(c) \/ NotifyAll(c)
       \/ \E d \in Delays : WaitUntil(c, d)
  \/ \E w \in Workers : Terminate(w) \/ TerminateBlocked(w)
  \/ DispatchTurn \/ SuspendUntilReturns \/ DispatchReturn
  \/ ShutDown \/ ShutDownReturn

Next == Step \/ Tick

Spec == Init /\ [][Next]_vars

\* The OS keeps running the thread, a fiber's own code between two calls of
\* the library comes to an end, and the clock advances.
FairSpec == Spec /\ WF_vars(Step) /\ WF_vars(Tick)

-----------------------------------------------------------------------------
Exited == active = NoOne
GoesOn == halted = "no" /\ ~Exited

\* The values of every variable.
TypeOK ==
  /\ active \in Contexts \cup {NoOne}
  /\ saved \in [Contexts -> BOOLEAN]
  /\ ready \in Seq(Contexts)
  /\ workerQueue \subseteq Workers
  /\ terminated \subseteq Workers
  /\ terminatedQueue \subseteq Workers
  /\ waitList \in [Workers -> Seq(Fibers)]
  /\ cond \in Seq(Fibers)
  /\ handle \in [Workers -> {"none", "joinable", "empty"}]
  /\ joining \in [Fibers -> Workers \cup {NoOne}]
  /\ mtx \in BOOLEAN /\ shutdown \in BOOLEAN /\ flag \in BOOLEAN
  /\ loop \in {"run", "idle", "left"}
  /\ sleepQueue \in Seq(Fibers)
  /\ tp \in [Contexts -> Times]
  /\ now \in 0 .. MaxTime
  /\ halted \in HaltReasons

(***************************************************************************)
(* PickNext() finds a context for every caller, and the context a switch   *)
(* goes to has a continuation that nobody used up and has not terminated   *)
(* (the assertions of PickNext, Awakened and Dispatch).                    *)
(***************************************************************************)
NeverResumesBadContext == halted \notin {"null", "crash"}

\* Main gave up the thread in ~Scheduler, and Dispatch left its loop.
Parked(c) ==
  \/ c = Main /\ shutdown
  \/ c = Dispatcher /\ loop = "left"

WaitsIn(c) == {w \in Workers : c \in Range(waitList[w])}

(***************************************************************************)
(* No live context is ever lost: unless it runs it is in the ready queue,  *)
(* or in a queue that a later call empties into the ready queue.           *)
(***************************************************************************)
NoContextIsLost ==
  GoesOn => \A c \in Live \ {active} :
              \/ c \in Range(ready) \/ c \in Range(cond)
              \/ WaitsIn(c) # {} \/ Parked(c)

(***************************************************************************)
(* No context is in two places at once, so none is resumed twice for one   *)
(* suspension: the running context and those parked are in no queue, and   *)
(* each of the others is in one queue, once.                               *)
(***************************************************************************)
OnePlaceEach ==
  GoesOn =>
    /\ IsInjective(ready) /\ IsInjective(cond)
    /\ Range(ready) \cap Range(cond) = {}
    /\ \A w \in Workers : IsInjective(waitList[w])
    /\ \A c \in Contexts :
         /\ WaitsIn(c) # {} => c \notin Range(ready) \cup Range(cond)
         /\ \A v, w \in WaitsIn(c) : v = w
         /\ c = active \/ Parked(c) =>
              WaitsIn(c) = {} /\ c \notin Range(ready) \cup Range(cond)

(***************************************************************************)
(* Join() may not enter the wait list of a fiber that has already woken    *)
(* its joiners: nobody would ever wake the late one.                       *)
(***************************************************************************)
NobodyWaitsForTheDead ==
  \A w \in Workers : waitList[w] # <<>> => Created(w) /\ w \notin terminated

(***************************************************************************)
(* When ~Scheduler goes on after its Suspend() the workers and the         *)
(* terminated fibers are gone (the assertions of Scheduler.cpp:23-24): the *)
(* main context is not resumed before Dispatch left its loop.  The third   *)
(* assertion, that nobody sleeps, fails whenever somebody slept; and a     *)
(* main context that slept may be resumed too early.                       *)
(***************************************************************************)
DestructorFindsQueuesEmpty ==
  GoesOn /\ active = Main /\ shutdown => workerQueue = {} /\ terminatedQueue = {}

(***************************************************************************)
(* Join() returns only after the joined fiber's function has returned.     *)
(***************************************************************************)
JoinReturnsAfterTermination ==
  [][\A c \in Fibers :
       joining[c] # NoOne /\ joining'[c] = NoOne => joining[c] \in terminated]_vars

(***************************************************************************)
(* A context that is ready gets the thread, however often the others yield *)
(* or wake each other up - unless the thread halts, or ~Scheduler leaves   *)
(* it behind (see AllWorkProcessed).                                       *)
(***************************************************************************)
StarvationFree ==
  \A c \in Contexts :
    c \in Range(ready) ~> active = c \/ halted # "no" \/ loop = "left"

(***************************************************************************)
(* Everyone who joins a fiber returns from Join() after it terminated.     *)
(***************************************************************************)
JoinersReleased ==
  \A c \in Fibers : \A w \in Workers :
    joining[c] = w /\ w \in terminated
      ~> joining[c] # w \/ halted # "no" \/ loop = "left"

(***************************************************************************)
(* Once the thread's main context is in ~Scheduler, the dispatcher comes   *)
(* back to it and the thread ends - unless the thread halts, or fibers     *)
(* that are still attached wait, for ever or again and again.              *)
(***************************************************************************)
ShutdownEnds ==
  shutdown ~> \/ Exited \/ halted # "no"
              \/ []<>(\E w \in workerQueue : joining[w] # NoOne \/ w \in Range(cond))

\* The places of c in sleepQueue_.
EntriesOf(c) == {i \in DOMAIN sleepQueue : sleepQueue[i] = c}

\* sleepQueue_ holds an entry of a call of WaitUntil from which c came back
\* early: c has a second one, or no time to be woken at.
Stale(c) == \E i \in EntriesOf(c) : tp[c] = Never \/ EntriesOf(c) # {i}

(***************************************************************************)
(* WaitUntil changes the tp_ of a context whose old entry may still be in  *)
(* the multiset.  Nothing else disturbs the order in which                 *)
(* ProcSleepToReady and SuspendUntil look for the sleepers that are due:   *)
(* while no entry is stale none stands before one with an earlier time.    *)
(***************************************************************************)
OrderedUnlessStale ==
  (\A c \in Sleepers : ~Stale(c)) =>
    \A i, j \in DOMAIN sleepQueue : i < j => tp[sleepQueue[i]] <= tp[sleepQueue[j]]

\* Every entry of c stands behind one that is not due.
BehindTheUndue(c) ==
  \A j \in EntriesOf(c) : \E i \in 1 .. j - 1 : tp[sleepQueue[i]] > now

(***************************************************************************)
(* A sleeper whose time has come leaves sleepQueue_, though others keep    *)
(* the thread busy or the dispatcher is suspended - unless entries that    *)
(* are not due, at the first of which ProcSleepToReady stops, stand before *)
(* it for ever or again and again.  By OrderedUnlessStale it takes stale   *)
(* entries to bring this about.                                            *)
(***************************************************************************)
DueSleepersAreScheduled ==
  \A c \in Sleepers :
    c \in Range(sleepQueue) /\ tp[c] <= now
      ~> tp[c] > now \/ halted # "no" \/ loop = "left" \/ []<>BehindTheUndue(c)

-----------------------------------------------------------------------------
(***************************************************************************)
(* What the source says of the thread and the code does not do.            *)
(***************************************************************************)

\* Scheduler.cpp:82 (and :112): at shutdown all work is processed before
\* Dispatch returns to the main context.
AllWorkProcessed ==
  shutdown ~> Exited /\ \A w \in Workers : Created(w) => w \in terminated

\* The safety part of the same comment: Dispatch leaves no fiber behind.
NoWorkLeftBehind ==
  loop = "left" => \A w \in Workers : Created(w) => w \in terminated

-----------------------------------------------------------------------------
(***************************************************************************)
(* What this thread shows of FiberLifecycle: contexts of the program only, *)
(* where the dispatcher, ~Scheduler and a fiber that has ended are idle.   *)
(***************************************************************************)
CONSTANT Cond     (* FiberLifecycle's name of a condition variable *)

ASSUME CondIsAName == Cond \notin Contexts \cup {NoOne}

ShowsIdle == active \notin Fibers \ terminated \/ (active = Main /\ shutdown)

LifeStatus(c) ==
  CASE c \in terminated \/ (c = Main /\ shutdown)  -> "ended"
    [] c \in Workers /\ ~Created(c)                -> "unborn"
    [] OTHER ->
       CASE c = active                             -> "running"
         [] c \in Range(cond) \/ WaitsIn(c) # {}   -> "waiting"
         [] c \in Range(ready)                     -> "ready"
         [] OTHER                                  -> "lost"

LifeAwaits(c) ==
  IF c \in Range(cond) THEN Cond
  ELSE IF WaitsIn(c) # {} THEN CHOOSE w \in WaitsIn(c) : TRUE
  ELSE NoOne

Lifecycle ==
  INSTANCE FiberLifecycle WITH
    Mains   <- {Main},
    Idle    <- Dispatcher,
    Nobody  <- NoOne,
    status  <- [c \in Fibers |-> LifeStatus(c)],
    running <- [t \in {Main} |-> IF ShowsIdle THEN Dispatcher ELSE active],
    awaits  <- [c \in Fibers |-> LifeAwaits(c)]

\* The thread implements the abstract life of a fiber.
ImplementsLifecycle == Lifecycle!Spec

=============================================================================
