------------------------ MODULE RoundRobinInvariant ------------------------
(***************************************************************************)
(* The inductive invariant of RoundRobinScheduler for programs that never  *)
(* sleep.  Every part but the first five speaks of a thread that goes on. *)
(***************************************************************************)
EXTENDS RoundRobinScheduler

NoSleep == sleepQueue = <<>>

HaltsOnlyOnMutex == halted \in {"no", "mutex"}

\* Only a fiber that was made has run to its end.
OnlyMadeFibersEnd == \A w \in terminated : Created(w)

\* A worker has a continuation only from its launch on.
SavedOnlyIfMade == \A w \in Workers : saved[w] => Created(w)

\* The running context is live, and the live contexts with a continuation to
\* resume are exactly the others.
OthersAreSaved ==
  /\ active \in Live
  /\ \A c \in Live : saved[c] <=> c # active

\* The contexts that wait for a fiber or on the condition variable.
Waiting == Range(cond) \cup UNION {Range(waitList[w]) : w \in Workers}

\* The queues hold live contexts that do not run, each once.
ReadyIsApart ==
  /\ IsInjective(ready)
  /\ Range(ready) \subseteq Live \ {active}

CondIsApart ==
  /\ IsInjective(cond)
  /\ Range(cond) \subseteq (Fibers \cap Live) \ {active}
  /\ Range(cond) \cap Range(ready) = {}

WaitListsAreApart ==
  /\ \A w \in Workers :
       /\ IsInjective(waitList[w])
       /\ Range(waitList[w]) \subseteq (Fibers \cap Live) \ {active}
       /\ Range(waitList[w]) \cap Range(ready) = {}
       /\ Range(waitList[w]) \cap Range(cond) = {}
  /\ \A v, w \in Workers :
       v # w => Range(waitList[v]) \cap Range(waitList[w]) = {}

\* The dispatcher runs or is ready until it leaves its loop.
DispatcherIsNear ==
  /\ loop # "left" => active = Dispatcher \/ Dispatcher \in Range(ready)
  /\ loop = "idle" => active = Dispatcher

\* In ~Scheduler the main context runs again exactly when Dispatch has left
\* its loop, which it does when the worker queue is empty.
MainIsParked ==
  /\ shutdown => /\ joining[Main] = NoOne
                 /\ Main \notin Range(ready) \cup Waiting
                 /\ active = Main => loop = "left"
  /\ loop = "left" => /\ active = Main /\ shutdown
                      /\ Dispatcher \notin Range(ready)
                      /\ workerQueue = {} /\ terminatedQueue = {}

\* A fiber that joins waits in the wait list, unless it has been woken.
JoinersWaitOrAreWoken ==
  \A c \in Fibers : \A w \in Workers :
    joining[c] = w => c \in Range(waitList[w]) \/ w \in terminated

\* Where the contexts of a thread that goes on are.
Places ==
  /\ OthersAreSaved
  /\ ReadyIsApart
  /\ CondIsApart
  /\ WaitListsAreApart
  /\ DispatcherIsNear
  /\ MainIsParked
  /\ JoinersWaitOrAreWoken
  /\ NoContextIsLost

(***************************************************************************)
(* The inductive invariant.                                                *)
(***************************************************************************)
Inv ==
  /\ TypeOK
  /\ NoSleep
  /\ HaltsOnlyOnMutex
  /\ NobodyWaitsForTheDead
  /\ OnlyMadeFibersEnd
  /\ SavedOnlyIfMade
  /\ GoesOn => Places

=============================================================================
