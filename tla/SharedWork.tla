----------------------------- MODULE SharedWork -----------------------------
(***************************************************************************)
(* Several OS threads.  Each has its main context, its dispatcher and its  *)
(* own ready queue; those that chose SharedWorkPolicy also share one       *)
(* static queue of workers.  Contexts are launched here and resumed there, *)
(* and fibers of different threads notify and join each other.             *)
(*                                                                         *)
(* A step is what a thread does between two accesses to data of others: a  *)
(* call of the library up to its switch, the choice of the next context    *)
(* (PickNext), the switch with its lambda, one wake-up, or one turn of the *)
(* dispatcher.  A context is resumable exactly when saved.                 *)
(***************************************************************************)
EXTENDS Integers, Sequences, FiniteSets, Functions

CONSTANTS
  Mains,         (* the main contexts; each also names its OS thread      *)
  Workers,       (* the worker contexts                                   *)
  DispatcherOf,  (* [Mains -> dispatcher contexts]                        *)
  NoOne,         (* no context, no thread                                 *)
  Calls          (* [Fibers -> SUBSET AllCalls], what the program has each
                    of its fibers call                                    *)

Dispatchers == Range(DispatcherOf)
Pinned == Mains \cup Dispatchers
Fibers == Mains \cup Workers
Contexts == Pinned \cup Workers

AllCalls == {"post", "dispatch", "async", "yield", "origin", "wait", "notify",
             "join", "exit"}

ASSUME ThreadsAssumption ==
  /\ DispatcherOf \in Injection(Mains, Dispatchers)
  /\ Mains \cap Workers = {}
  /\ Dispatchers \cap Fibers = {}
  /\ NoOne \notin Contexts
  /\ Calls \in [Fibers -> SUBSET AllCalls]

VARIABLES
  policy,      (* [Mains -> {"shared", "local"}], the thread's policy       *)
  active,      (* [Mains -> Contexts], active_ of each thread               *)
  saved,       (* [Contexts -> BOOLEAN], Context::c_ is not null            *)
  shared,      (* SharedWorkPolicy::readyQueue_                             *)
  own,         (* [Mains -> Seq(Contexts)], localQueue_, or readyQueue_ of a
                  RoundRobinPolicy                                          *)
  home,        (* [Contexts -> Mains or NoOne], Context::scheduler_         *)
  origin,      (* [Workers -> Mains or NoOne], originScheduler_; not null
                  exactly for Async fibers                                  *)
  attached,    (* [Mains -> SUBSET Workers], Scheduler::workerQueue_        *)
  mtx,         (* [Mains -> BOOLEAN], Scheduler::mtx_ is locked             *)
  launched,    (* the workers that were made                                *)
  terminated,  (* the workers whose terminated_ is set                      *)
  cond,        (* ConditionVariableAny::waitQueue_                          *)
  condLock,    (* the thread that holds ConditionVariableAny::m_            *)
  waitList,    (* [Workers -> Seq(Fibers)], Context::waitList_              *)
  at,          (* [Mains -> ...], where each thread is                      *)
  chosen,      (* [Mains -> Contexts or NoOne], what PickNext returned; in
                  Join the fiber that is joined                             *)
  back,        (* [Mains -> Contexts or NoOne], Resume's readyCtx           *)
  shutdown,    (* [Mains -> BOOLEAN], Scheduler::shutdown_                  *)
  halted       (* "no", or why the program can not go on                    *)

queueVars == <<shared, own, home, attached>>
lifeVars  == <<policy, origin, launched, terminated>>
waitVars  == <<cond, condLock, waitList>>
cpuVars   == <<active, saved, at, chosen, back>>
vars == <<queueVars, lifeVars, waitVars, cpuVars, mtx, shutdown, halted>>

(***************************************************************************)
(* The program stops by "mutex": a thread locks the mtx_ it holds, which   *)
(* throws in a noexcept function; "null": PickNext returned nullptr to a   *)
(* caller that dereferences it, or a context without a scheduler used it;  *)
(* "crash": a context without continuation is resumed; "freed": a context  *)
(* is woken whose scheduler was destroyed; "race": two threads are in one  *)
(* std::list or std::queue.                                                *)
(***************************************************************************)
HaltReasons == {"no", "mutex", "null", "crash", "freed", "race"}

Places == {"code", "join", "pick", "switch", "notifyOne", "notifyAll", "ending",
           "leaving", "loop", "idle", "exited"}

Local(t) == policy[t] = "local"
IsAsync(w) == origin[w] # NoOne
Resumable(c) == saved[c] /\ c \notin terminated

\* Thread t is in the code of the fiber c.
InUserCode(t, c) == at[t] = "code" /\ active[t] = c

Goto(t, place) == at' = [at EXCEPT ![t] = place]

Halt(why) ==
  /\ halted' = why
  /\ UNCHANGED <<queueVars, lifeVars, waitVars, cpuVars, mtx, shutdown>>

\* Where a thread goes on in the context c it has just switched to.
Entry(t, c) ==
  IF c \in Dispatchers THEN "loop"
  ELSE IF c = t /\ shutdown[t] THEN "exited" ELSE "code"

(***************************************************************************)
(* Each thread's first call of the library made it a main context and a    *)
(* dispatcher, under the policy it asked for.                              *)
(***************************************************************************)
Init ==
  /\ policy \in [Mains -> {"shared", "local"}]
  /\ active = [t \in Mains |-> t]
  /\ saved = [c \in Contexts |-> c \in Dispatchers]
  /\ shared = <<>>
  /\ own = [t \in Mains |-> <<DispatcherOf[t]>>]
  /\ home = [c \in Contexts |-> IF c \in Mains THEN c
               ELSE IF c \in Workers THEN NoOne
               ELSE CHOOSE t \in Mains : DispatcherOf[t] = c]
  /\ origin = [w \in Workers |-> NoOne]
  /\ attached = [t \in Mains |-> {}]
  /\ mtx = [t \in Mains |-> FALSE]
  /\ launched = {} /\ terminated = {}
  /\ cond = <<>> /\ condLock = NoOne
  /\ waitList = [w \in Workers |-> <<>>]
  /\ at = [t \in Mains |-> "code"]
  /\ chosen = [t \in Mains |-> NoOne]
  /\ back = [t \in Mains |-> NoOne]
  /\ shutdown = [t \in Mains |-> FALSE]
  /\ halted = "no"

-----------------------------------------------------------------------------
\* Mutant of Schedule: the context is not detached.
ScheduleAttached(t, c, hm, att) ==
  /\ home' = hm /\ attached' = att
  /\ IF c \in Pinned \/ Local(t)
     THEN own' = [own EXCEPT ![t] = Append(@, c)] /\ UNCHANGED shared
     ELSE shared' = Append(shared, c) /\ UNCHANGED own

(***************************************************************************)
(* Awakened of t's policy, with hm and att as the values of home and       *)
(* attached: SharedWorkPolicy detaches a worker (Async fibers stay as they *)
(* are) and puts it into the queue of all threads.                         *)
(***************************************************************************)
Schedule(t, c, hm, att) ==
  IF c \in Pinned \/ Local(t)
  THEN /\ own' = [own EXCEPT ![t] = Append(@, c)]
       /\ home' = hm /\ attached' = att
       /\ UNCHANGED shared
  ELSE /\ shared' = Append(shared, c)
       /\ home' = [hm EXCEPT ![c] = IF IsAsync(c) THEN @ ELSE NoOne]
       /\ attached' = IF IsAsync(c) THEN att
                      ELSE [att EXCEPT ![hm[c]] = @ \ {c}]
       /\ UNCHANGED own

\* Context::Wake may go on: the context's scheduler is there.
Reachable(c) == home[c] # NoOne /\ at[home[c]] # "exited"

WakeHalts(c) ==
  /\ ~Reachable(c)
  /\ Halt(IF home[c] = NoOne THEN "null" ELSE "freed")

-----------------------------------------------------------------------------
\* Fiber's constructor with ELaunch::Post.
Post(t, c, w) ==
  /\ "post" \in Calls[c]
  /\ InUserCode(t, c) /\ home[c] = t /\ ~mtx[t]
  /\ w \notin launched
  /\ launched' = launched \cup {w}
  /\ saved' = [saved EXCEPT ![w] = TRUE]
  /\ Schedule(t, w, [home EXCEPT ![w] = t], [attached EXCEPT ![t] = @ \cup {w}])
  /\ UNCHANGED <<policy, origin, terminated, waitVars, active, at, chosen, back,
                 mtx, shutdown, halted>>

\* Fiber's constructor with ELaunch::Dispatch: the launcher is scheduled by
\* the lambda that runs on the new fiber's stack.
Dispatch(t, c, w) ==
  /\ "dispatch" \in Calls[c]
  /\ InUserCode(t, c) /\ home[c] = t /\ ~mtx[t]
  /\ w \notin launched
  /\ launched' = launched \cup {w}
  /\ active' = [active EXCEPT ![t] = w]
  /\ saved' = [saved EXCEPT ![c] = TRUE]
  /\ Schedule(t, c, [home EXCEPT ![w] = t], [attached EXCEPT ![t] = @ \cup {w}])
  /\ UNCHANGED <<policy, origin, terminated, waitVars, at, chosen, back, mtx,
                 shutdown, halted>>

\* Fiber's constructor with ELaunch::Async: AwakenedAsync, on any thread.
Async(t, c, w) ==
  /\ "async" \in Calls[c]
  /\ InUserCode(t, c)
  /\ w \notin launched
  /\ launched' = launched \cup {w}
  /\ saved' = [saved EXCEPT ![w] = TRUE]
  /\ origin' = [origin EXCEPT ![w] = home[c]]
  /\ shared' = Append(shared, w)
  /\ UNCHANGED <<own, home, attached, policy, terminated, waitVars, active, at,
                 chosen, back, mtx, shutdown, halted>>

\* A launch needs the launcher's scheduler, and its mtx_.
LaunchHalts(t, c) ==
  /\ Calls[c] \cap {"post", "dispatch"} # {}
  /\ InUserCode(t, c) /\ launched # Workers
  /\ home[c] = NoOne \/ mtx[t]
  /\ Halt(IF home[c] = NoOne THEN "null" ELSE "mutex")

-----------------------------------------------------------------------------
\* The fiber that runs on t suspends, and readyCtx is to be scheduled by the
\* lambda of Resume.
Suspend(t, readyCtx) ==
  /\ Goto(t, "pick")
  /\ back' = [back EXCEPT ![t] = readyCtx]
  /\ UNCHANGED <<active, saved, chosen>>

Yield(t, c) ==
  /\ "yield" \in Calls[c]
  /\ InUserCode(t, c) /\ home[c] = t
  /\ attached' = [attached EXCEPT ![t] = @ \ {c}]
  /\ Suspend(t, c)
  /\ UNCHANGED <<shared, own, home, lifeVars, waitVars, mtx, shutdown, halted>>

(***************************************************************************)
(* Scheduler::YieldOrigin.  An Async fiber is handed to the policy of the  *)
(* thread that launched it and goes on running here, without a scheduler.  *)
(***************************************************************************)
YieldOrigin(t, c) ==
  /\ "origin" \in Calls[c]
  /\ InUserCode(t, c) /\ home[c] = t
  /\ LET left == [attached EXCEPT ![t] = @ \ {c}]
     IN  IF c \in Workers /\ IsAsync(c)
         THEN IF at[origin[c]] = "exited" THEN Halt("freed")
              ELSE /\ Schedule(origin[c], c, [home EXCEPT ![c] = NoOne], left)
                   /\ UNCHANGED <<lifeVars, waitVars, cpuVars, mtx, shutdown, halted>>
         ELSE /\ attached' = left
              /\ Suspend(t, c)
              /\ UNCHANGED <<shared, own, home, lifeVars, waitVars, mtx, shutdown, halted>>

\* A suspension by a fiber that has no scheduler.
SuspendHalts(t, c) ==
  /\ Calls[c] \cap {"yield", "origin", "wait"} # {}
  /\ InUserCode(t, c) /\ home[c] = NoOne
  /\ Halt("null")

-----------------------------------------------------------------------------
\* Mutant of CondWait: m_ is given back before the switch.
CondWaitUnlocked(t, c) ==
  /\ "wait" \in Calls[c]
  /\ InUserCode(t, c) /\ home[c] # NoOne
  /\ condLock = NoOne
  /\ cond' = Append(cond, c)
  /\ Suspend(t, NoOne)
  /\ UNCHANGED <<queueVars, lifeVars, waitList, condLock, mtx, shutdown, halted>>

\* ConditionVariableAny::Wait up to the switch, which gives m_ back.
CondWait(t, c) ==
  /\ "wait" \in Calls[c]
  /\ InUserCode(t, c) /\ home[c] # NoOne
  /\ condLock = NoOne
  /\ cond' = Append(cond, c)
  /\ condLock' = t
  /\ Suspend(t, NoOne)
  /\ UNCHANGED <<queueVars, lifeVars, waitList, mtx, shutdown, halted>>

\* ConditionVariableAny::NotifyOne and NotifyAll lock m_.
Notify(t, c, how) ==
  /\ "notify" \in Calls[c]
  /\ InUserCode(t, c)
  /\ condLock = NoOne /\ cond # <<>>
  /\ condLock' = t
  /\ Goto(t, how)
  /\ UNCHANGED <<queueVars, lifeVars, cond, waitList, active, saved, chosen, back,
                 mtx, shutdown, halted>>

\* Mutant of NotifyWakes: the context woken stays at the head of the queue.
NotifyWakesKeeping(t) ==
  /\ at[t] \in {"notifyOne", "notifyAll"}
  /\ cond # <<>> /\ Reachable(Head(cond))
  /\ Schedule(home[Head(cond)], Head(cond), home, attached)
  /\ condLock' = NoOne
  /\ Goto(t, "code")
  /\ UNCHANGED <<lifeVars, cond, waitList, active, saved, chosen, back, mtx,
                 shutdown, halted>>

\* One turn of WaitQueue::NotifyOne or NotifyAll: Wake goes through the
\* policy of the thread that the context belongs to.
NotifyWakes(t) ==
  /\ at[t] \in {"notifyOne", "notifyAll"}
  /\ cond # <<>> /\ Reachable(Head(cond))
  /\ cond' = Tail(cond)
  /\ Schedule(home[Head(cond)], Head(cond), home, attached)
  /\ IF at[t] = "notifyOne" \/ Tail(cond) = <<>>
     THEN condLock' = NoOne /\ Goto(t, "code")
     ELSE UNCHANGED <<condLock, at>>
  /\ UNCHANGED <<lifeVars, waitList, active, saved, chosen, back, mtx, shutdown,
                 halted>>

NotifyHalts(t) ==
  /\ at[t] \in {"notifyOne", "notifyAll"}
  /\ WakeHalts(Head(cond))

-----------------------------------------------------------------------------
\* Mutant of Join: terminated_ is not tested.
JoinUntested(t, c, w) ==
  /\ "join" \in Calls[c]
  /\ InUserCode(t, c) /\ home[c] # NoOne
  /\ c # w /\ w \in launched
  /\ Goto(t, "join")
  /\ chosen' = [chosen EXCEPT ![t] = w]
  /\ UNCHANGED <<queueVars, lifeVars, waitVars, active, saved, back, mtx, shutdown,
                 halted>>

\* Context::Join reads terminated_ without a lock ...
Join(t, c, w) ==
  /\ "join" \in Calls[c]
  /\ InUserCode(t, c) /\ home[c] # NoOne
  /\ c # w /\ w \in launched \ terminated
  /\ Goto(t, "join")
  /\ chosen' = [chosen EXCEPT ![t] = w]
  /\ UNCHANGED <<queueVars, lifeVars, waitVars, active, saved, back, mtx, shutdown,
                 halted>>

\* ... and then enters the wait list, also without a lock.
JoinWait(t) ==
  /\ at[t] = "join"
  /\ waitList' = [waitList EXCEPT ![chosen[t]] = Append(@, active[t])]
  /\ Goto(t, "pick")
  /\ back' = [back EXCEPT ![t] = NoOne]
  /\ chosen' = [chosen EXCEPT ![t] = NoOne]
  /\ UNCHANGED <<queueVars, lifeVars, cond, condLock, active, saved, mtx, shutdown,
                 halted>>

\* The function of the fiber w has returned: Context::Terminate.
EndFiber(t, w) ==
  /\ InUserCode(t, w) /\ w \in Workers
  /\ terminated' = terminated \cup {w}
  /\ Goto(t, "ending")
  /\ UNCHANGED <<queueVars, policy, origin, launched, waitVars, active, saved,
                 chosen, back, mtx, shutdown, halted>>

\* One turn of its NotifyAll on waitList_, or the end of that.
WakeJoiner(t) ==
  /\ at[t] = "ending"
  /\ LET w == active[t] IN
     IF waitList[w] = <<>>
     THEN Goto(t, "leaving") /\ UNCHANGED <<queueVars, waitList>>
     ELSE /\ Reachable(Head(waitList[w]))
          /\ waitList' = [waitList EXCEPT ![w] = Tail(@)]
          /\ Schedule(home[Head(waitList[w])], Head(waitList[w]), home, attached)
          /\ UNCHANGED at
  /\ UNCHANGED <<lifeVars, cond, condLock, active, saved, chosen, back, mtx,
                 shutdown, halted>>

WakeJoinerHalts(t) ==
  /\ at[t] = "ending" /\ waitList[active[t]] # <<>>
  /\ WakeHalts(Head(waitList[active[t]]))

\* Scheduler::Terminate up to its switch; mtx_ stays locked.
Terminate(t) ==
  /\ at[t] = "leaving"
  /\ home[active[t]] = t /\ ~mtx[t]
  /\ mtx' = [mtx EXCEPT ![t] = TRUE]
  /\ attached' = [attached EXCEPT ![t] = @ \ {active[t]}]
  /\ Suspend(t, NoOne)
  /\ UNCHANGED <<shared, own, home, lifeVars, waitVars, shutdown, halted>>

TerminateHalts(t) ==
  /\ at[t] = "leaving"
  /\ home[active[t]] = NoOne \/ mtx[t]
  /\ Halt(IF home[active[t]] = NoOne THEN "null" ELSE "mutex")

-----------------------------------------------------------------------------
\* The head of the shared queue is attached to t.  An Async fiber that comes
\* back to the queue still has a scheduler_: it fails the assertion at
\* Scheduler.cpp:204, and a build without assertions attaches it again.
TakeShared(t) ==
  /\ ~mtx[t]
  /\ shared' = Tail(shared)
  /\ attached' = [attached EXCEPT ![t] = @ \cup {Head(shared)}]
  /\ home' = [home EXCEPT ![Head(shared)] = t]
  /\ chosen' = [chosen EXCEPT ![t] = Head(shared)]
  /\ Goto(t, "switch")
  /\ UNCHANGED own

\* The head of t's own queue is t's already.
TakeOwn(t) ==
  /\ own' = [own EXCEPT ![t] = Tail(@)]
  /\ chosen' = [chosen EXCEPT ![t] = Head(own[t])]
  /\ Goto(t, "switch")
  /\ UNCHANGED <<shared, home, attached>>

\* The dispatcher finds nothing, and sleeps or looks again.
FindNothing(t, sleeps) ==
  /\ active[t] \in Dispatchers
  /\ Goto(t, IF sleeps THEN "idle" ELSE "loop")
  /\ UNCHANGED <<queueVars, chosen>>

NotPicked == <<lifeVars, waitVars, active, saved, back, mtx, shutdown, halted>>

\* Mutant of PickNext: a dispatcher that finds nothing to do suspends its
\* thread, whatever the policy.
PickNextSuspending(t) ==
  /\ at[t] = "pick"
  /\ IF shared # <<>> /\ ~Local(t) THEN TakeShared(t)
     ELSE IF own[t] # <<>> THEN TakeOwn(t)
     ELSE FindNothing(t, ~shutdown[t])
  /\ UNCHANGED NotPicked

\* Mutant of PickNext: what is taken from the thread's own queue is attached
\* as well.
PickNextAttachingAll(t) ==
  /\ at[t] = "pick" /\ own[t] # <<>>
  /\ own' = [own EXCEPT ![t] = Tail(@)]
  /\ attached' = [attached EXCEPT ![t] = @ \cup {Head(own[t])}]
  /\ home' = [home EXCEPT ![Head(own[t])] = t]
  /\ chosen' = [chosen EXCEPT ![t] = Head(own[t])]
  /\ Goto(t, "switch")
  /\ UNCHANGED <<shared, NotPicked>>

\* Mutant of PickNext: the thread's own queue is served first.
PickNextOwnFirst(t) ==
  /\ at[t] = "pick"
  /\ IF own[t] # <<>> THEN TakeOwn(t)
     ELSE IF shared # <<>> /\ ~Local(t) THEN TakeShared(t)
     ELSE FindNothing(t, Local(t) /\ ~shutdown[t])
  /\ UNCHANGED NotPicked

(***************************************************************************)
(* PickNext.  SharedWorkPolicy takes from the shared queue first and       *)
(* attaches what it took; from its own queue only when that one is empty.  *)
(* Only the dispatcher bears to find nothing: under SharedWorkPolicy it    *)
(* looks again, under RoundRobinPolicy it sleeps until somebody notifies   *)
(* it, which only ~Scheduler has it do.                                    *)
(***************************************************************************)
PickNext(t) ==
  /\ at[t] = "pick"
  /\ IF shared # <<>> /\ ~Local(t) THEN TakeShared(t)
     ELSE IF own[t] # <<>> THEN TakeOwn(t)
     ELSE FindNothing(t, Local(t) /\ ~shutdown[t])
  /\ UNCHANGED NotPicked

PickNextHalts(t) ==
  /\ at[t] = "pick"
  /\ IF shared # <<>> /\ ~Local(t)
     THEN mtx[t] /\ Halt("mutex")
     ELSE own[t] = <<>> /\ active[t] \notin Dispatchers /\ Halt("null")

(***************************************************************************)
(* Context::Resume on the context chosen, in each of its forms: the lambda *)
(* saves the context that ran, then schedules readyCtx, or gives m_ back.  *)
(***************************************************************************)
Switch(t) ==
  /\ at[t] = "switch"
  /\ Resumable(chosen[t])
  /\ active' = [active EXCEPT ![t] = chosen[t]]
  /\ saved' = [saved EXCEPT ![active[t]] = TRUE, ![chosen[t]] = FALSE]
  /\ IF back[t] = NoOne THEN UNCHANGED queueVars
     ELSE Schedule(t, back[t], home, attached)
  /\ condLock' = IF condLock = t THEN NoOne ELSE condLock
  /\ Goto(t, Entry(t, chosen[t]))
  /\ chosen' = [chosen EXCEPT ![t] = NoOne]
  /\ back' = [back EXCEPT ![t] = NoOne]
  /\ UNCHANGED <<lifeVars, cond, waitList, mtx, shutdown, halted>>

SwitchHalts(t) == at[t] = "switch" /\ ~Resumable(chosen[t]) /\ Halt("crash")

-----------------------------------------------------------------------------
\* Mutant of DispatchTurn: workerQueue_ is not tested.
DispatchTurnUntested(t) ==
  /\ at[t] = "loop"
  /\ Goto(t, IF shutdown[t] THEN "switch" ELSE "pick")
  /\ chosen' = [chosen EXCEPT ![t] = IF shutdown[t] THEN t ELSE NoOne]
  /\ back' = [back EXCEPT ![t] = IF shutdown[t] THEN NoOne ELSE active[t]]
  /\ UNCHANGED <<queueVars, lifeVars, waitVars, active, saved, mtx, shutdown, halted>>

\* The head of the loop of Scheduler::Dispatch: at shutdown, with no worker
\* attached, the dispatcher returns to the main context.
DispatchTurn(t) ==
  /\ at[t] = "loop"
  /\ LET ends == shutdown[t] /\ attached[t] = {}
     IN  /\ Goto(t, IF ends THEN "switch" ELSE "pick")
         /\ chosen' = [chosen EXCEPT ![t] = IF ends THEN t ELSE NoOne]
         /\ back' = [back EXCEPT ![t] = IF ends THEN NoOne ELSE active[t]]
  /\ UNCHANGED <<queueVars, lifeVars, waitVars, active, saved, mtx, shutdown, halted>>

\* ~Scheduler, called as the thread ends.
ShutDown(t) ==
  /\ "exit" \in Calls[t]
  /\ InUserCode(t, t)
  /\ shutdown' = [shutdown EXCEPT ![t] = TRUE]
  /\ Suspend(t, NoOne)
  /\ UNCHANGED <<queueVars, lifeVars, waitVars, mtx, halted>>

-----------------------------------------------------------------------------
\* The lists without a lock that Schedule(t, c, ...) works on.
Lists(t, c) ==
  IF c \in Pinned \/ Local(t) THEN {<<"own", t>>}
  ELSE IF IsAsync(c) \/ home[c] = NoOne THEN {} ELSE {<<"attached", home[c]>>}

\* The lists without a lock that a call of the fiber c on t works on: the one
\* it attaches to or leaves, and the queue that a launch or YieldOrigin fills.
CallTouches(t, c) ==
  LET makes(calls) == Calls[c] \cap calls # {}
  IN  {x \in {"attached", "own"} \X Mains :
         \/ x = <<"attached", t>> /\ makes({"post", "dispatch", "yield", "origin"})
         \/ x = <<"own", t>> /\ Local(t) /\ makes({"post", "dispatch"})
         \/ x = <<"own", t>> /\ c \in Pinned /\ makes({"dispatch"})
         \/ /\ c \in Workers /\ x = <<"own", origin[c]>>
            /\ Local(origin[c]) /\ makes({"origin"})}

\* The lists without a lock that the next step of t may work on.
Touches(t) ==
  CASE at[t] = "code" -> CallTouches(t, active[t])
    [] at[t] = "pick" ->
         IF shared # <<>> /\ ~Local(t) THEN {<<"attached", t>>} ELSE {<<"own", t>>}
    [] at[t] = "switch" -> IF back[t] = NoOne THEN {} ELSE Lists(t, back[t])
    [] at[t] \in {"notifyOne", "notifyAll"} /\ Reachable(Head(cond)) ->
         Lists(home[Head(cond)], Head(cond))
    [] at[t] = "join" -> {<<"wait", chosen[t]>>}
    [] at[t] = "ending" -> {<<"wait", active[t]>>}
    [] at[t] = "leaving" \/ (at[t] = "loop" /\ shutdown[t]) -> {<<"attached", t>>}
    [] OTHER -> {}

\* Two threads are in one list at the same time: anything may follow.
Race ==
  /\ \E t, u \in Mains : t # u /\ Touches(t) \cap Touches(u) # {}
  /\ Halt("race")

\* The calls by which a fiber lets go of its thread.
GiveUp(t) ==
  /\ halted = "no"
  /\ \/ \E c \in Fibers : Yield(t, c) \/ CondWait(t, c)
     \/ \E w \in Workers : EndFiber(t, w)
     \/ ShutDown(t)

ThreadStep(t) ==
  /\ halted = "no"
  /\ \/ \E c \in Fibers :
          \/ \E w \in Workers :
               Post(t, c, w) \/ Dispatch(t, c, w) \/ Async(t, c, w) \/ Join(t, c, w)
          \/ LaunchHalts(t, c) \/ Yield(t, c) \/ YieldOrigin(t, c) \/ SuspendHalts(t, c)
          \/ CondWait(t, c) \/ Notify(t, c, "notifyOne") \/ Notify(t, c, "notifyAll")
     \/ NotifyWakes(t) \/ NotifyHalts(t) \/ JoinWait(t)
     \/ \E w \in Workers : EndFiber(t, w)
     \/ WakeJoiner(t) \/ WakeJoinerHalts(t) \/ Terminate(t) \/ TerminateHalts(t)
     \/ PickNext(t) \/ PickNextHalts(t) \/ Switch(t) \/ SwitchHalts(t)
     \/ DispatchTurn(t) \/ ShutDown(t)

Next == (\E t \in Mains : ThreadStep(t)) \/ (halted = "no" /\ Race)

Spec == Init /\ [][Next]_vars

\* The OS runs every thread, and a fiber that runs lets go at last.
FairSpec ==
  /\ Spec
  /\ \A t \in Mains : WF_vars(ThreadStep(t)) /\ SF_vars(GiveUp(t))

-----------------------------------------------------------------------------
\* The values of every variable.
TypeOK ==
  /\ policy \in [Mains -> {"shared", "local"}]
  /\ active \in [Mains -> Contexts]
  /\ saved \in [Contexts -> BOOLEAN]
  /\ shared \in Seq(Workers)
  /\ own \in [Mains -> Seq(Contexts)]
  /\ home \in [Contexts -> Mains \cup {NoOne}]
  /\ origin \in [Workers -> Mains \cup {NoOne}]
  /\ attached \in [Mains -> SUBSET Workers]
  /\ mtx \in [Mains -> BOOLEAN]
  /\ launched \subseteq Workers /\ terminated \subseteq launched
  /\ cond \in Seq(Fibers) /\ condLock \in Mains \cup {NoOne}
  /\ waitList \in [Workers -> Seq(Fibers)]
  /\ at \in [Mains -> Places]
  /\ chosen \in [Mains -> Contexts \cup {NoOne}]
  /\ back \in [Mains -> Contexts \cup {NoOne}]
  /\ shutdown \in [Mains -> BOOLEAN]
  /\ halted \in HaltReasons

Running == Range(active)
Parked(c) ==
  \E t \in Mains : \/ c = t /\ shutdown[t]
                   \/ c = DispatcherOf[t] /\ at[t] = "exited"

\* Where c runs or can be taken from, each place as often as c is in it.  A
\* context that runs may be in a wait list already; it is there once it stops.
RunsAt(c)   == {<<"runs", t>> : t \in {t \in Mains : active[t] = c}}
NextAt(c)   == {<<"next", t>> : t \in {t \in Mains : chosen[t] = c /\ at[t] = "switch"}}
SharedAt(c) == {<<"shared", i>> : i \in {i \in DOMAIN shared : shared[i] = c}}
OwnAt(c)    == UNION {{<<t, i>> : i \in {i \in DOMAIN own[t] : own[t][i] = c}} : t \in Mains}
CondAt(c)   == {<<"cond", i>> : i \in {i \in DOMAIN cond : cond[i] = c}}
JoinAt(c)   == UNION {{<<w, i>> : i \in {i \in DOMAIN waitList[w] : waitList[w][i] = c}}
                       : w \in Workers}
ParkedAt(c) == IF Parked(c) /\ ~\E t \in Mains : chosen[t] = c THEN {"parked"} ELSE {}

PlacesOf(c) ==
  RunsAt(c) \cup NextAt(c) \cup SharedAt(c) \cup OwnAt(c)
    \cup IF c \in Running THEN {} ELSE CondAt(c) \cup JoinAt(c) \cup ParkedAt(c)

(***************************************************************************)
(* Whatever the threads do to each other's contexts, a live context is in  *)
(* exactly one place: it runs on one thread, or one thread is about to     *)
(* resume it, or it is once in one queue.  Nothing is lost on the way      *)
(* between threads and nothing can be resumed by two of them.              *)
(***************************************************************************)
EachInOnePlace ==
  halted = "no" =>
    \A c \in Pinned \cup (launched \ terminated) : Cardinality(PlacesOf(c)) = 1

(***************************************************************************)
(* A context in a ready queue has its continuation (the assertions in      *)
(* RoundRobinPolicy.cpp:10 and :22), although another thread may have put  *)
(* it there: ConditionVariableAny keeps m_ until the waiter is saved.      *)
(***************************************************************************)
QueuedAreResumable ==
  \A c \in Contexts :
    c \in Range(shared) \/ (\E t \in Mains : c \in Range(own[t])) => Resumable(c)

\* No caller of PickNext is left with nothing, and no switch goes to a
\* context without a continuation.
NeverResumesBadContext == halted \notin {"null", "crash"}

(***************************************************************************)
(* A fiber is in the workerQueue_ of one thread at most, the thread that   *)
(* is its scheduler_; one in the shared queue has neither (the assertion   *)
(* in Scheduler.cpp:204).  Async fibers are never detached and excepted:   *)
(* they fail that assertion when they are taken from the queue again.      *)
(***************************************************************************)
OneScheduler ==
  \A w \in Workers : ~IsAsync(w) =>
    /\ \A t \in Mains : w \in attached[t] => home[w] = t
    /\ w \in Range(shared) => home[w] = NoOne

(***************************************************************************)
(* Join reads terminated_ and enters the wait list without a lock, so the  *)
(* joined fiber may end in between and leave the joiner behind.  That      *)
(* takes two threads: a join within one thread is never late, although     *)
(* both fibers may have come there from others.                            *)
(***************************************************************************)
LateJoinsCrossThreads ==
  \A w \in terminated \ Running : \A c \in Range(waitList[w]) : home[c] # home[w]

(***************************************************************************)
(* A scheduler is destroyed only when no fiber that somebody may wake is   *)
(* bound to it - except under RoundRobinPolicy, where a fiber that yielded *)
(* has left workerQueue_ (see RoundRobinScheduler).                        *)
(***************************************************************************)
NoWaiterOutlivesItsThread ==
  \A c \in Range(cond) :
    home[c] # NoOne /\ at[home[c]] = "exited" => Local(home[c])

(***************************************************************************)
(* A fiber in the shared queue gets a thread, if one is left that takes    *)
(* from it.                                                                *)
(***************************************************************************)
SharedServed ==
  \A w \in Workers :
    w \in Range(shared) ~> \/ w \notin Range(shared) \/ halted # "no"
                           \/ \A t \in Mains : Local(t) \/ at[t] = "exited"

(***************************************************************************)
(* A main context that is ready gets its thread back, with the two         *)
(* exceptions the code has: the shared queue is served first and may keep  *)
(* the thread busy, and a round-robin dispatcher that sleeps is not        *)
(* notified of what another thread put into its queue.                     *)
(***************************************************************************)
MainServed ==
  \A t \in Mains :
    t \in Range(own[t]) ~> \/ active[t] = t
                          \/ halted # "no"
                          \/ (Local(t) /\ at[t] = "idle")
                          \/ (~Local(t) /\ []<>(shared # <<>>))

-----------------------------------------------------------------------------
\* What RoundRobinPolicy.cpp:10 asserts of every context it is given, and
\* what YieldOrigin does not keep to.
AwakenedAreResumable ==
  \A t \in Mains : Local(t) => \A c \in Range(own[t]) : saved[c]

-----------------------------------------------------------------------------
(***************************************************************************)
(* What the threads show of FiberLifecycle: a fiber runs from one switch   *)
(* to the next, wherever the queues and the scheduler's own steps are.     *)
(***************************************************************************)
CONSTANTS
  Cond,   (* FiberLifecycle's name of the condition variable      *)
  Idle    (* FiberLifecycle's name of a thread without a fiber     *)

ASSUME LifeNames == Cond \notin Contexts \cup {NoOne} /\ Idle \notin Contexts

Gone(c) == c \in Mains /\ shutdown[c] /\ ~(active[c] = c /\ at[c] \in {"pick", "switch"})

LifeStatus(c) ==
  CASE (c \in terminated /\ c \notin Running) \/ Gone(c)     -> "ended"
    [] c \in Workers /\ c \notin launched                    -> "unborn"
    [] OTHER ->
       CASE c \in Running                                     -> "running"
         [] c \in Range(cond) \ Running                       -> "waiting"
         [] OTHER                                             -> "ready"

Lifecycle ==
  INSTANCE FiberLifecycle WITH
    Nobody  <- NoOne,
    status  <- [c \in Fibers |-> LifeStatus(c)],
    running <- [t \in Mains |-> IF active[t] \in Fibers /\ ~Gone(active[t])
                               THEN active[t] ELSE Idle],
    awaits  <- [c \in Fibers |-> IF c \in Range(cond) /\ c \notin Running
                                THEN Cond ELSE NoOne]

\* In programs without Join and YieldOrigin all threads together implement the
\* abstract life of their fibers.
ImplementsLifecycle == Lifecycle!Spec

=============================================================================
