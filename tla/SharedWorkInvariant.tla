------------------------ MODULE SharedWorkInvariant ------------------------
(***************************************************************************)
(* The inductive invariant of SharedWork for programs without YieldOrigin. *)
(* Every part but those named "if nobody joins" holds for programs that    *)
(* join across threads, too.                                               *)
(***************************************************************************)
EXTENDS SharedWork

NoOrigins == \A c \in Fibers : "origin" \notin Calls[c]
NoJoins   == \A c \in Fibers : "join" \notin Calls[c]

Live == Pinned \cup (launched \ terminated)

-----------------------------------------------------------------------------
(***************************************************************************)
(* What TypeOK needs, whatever the program calls.                          *)
(***************************************************************************)
\* A worker has a continuation, or runs, only from its launch on.
OnlyMadeOnesRun ==
  /\ \A w \in Workers : saved[w] => w \in launched
  /\ \A t \in Mains : active[t] \in Workers => active[t] \in launched

\* A thread that switches, joins or ends a fiber knows which context.
ThreadsKnowWhom ==
  \A t \in Mains :
    /\ at[t] = "switch" => chosen[t] # NoOne
    /\ at[t] = "join" => active[t] \in Fibers /\ chosen[t] \in launched
    /\ at[t] \in {"ending", "leaving"} => active[t] \in terminated

TypeInv == TypeOK /\ OnlyMadeOnesRun /\ ThreadsKnowWhom

-----------------------------------------------------------------------------
(***************************************************************************)
(* Where a context may be kept: in a queue, in a wait list, or chosen by a *)
(* thread that is about to resume it.                                      *)
(***************************************************************************)
SharedQ  == <<"shared", NoOne>>
CondQ    == <<"cond", NoOne>>
OwnQ(t)  == <<"own", t>>
NextOf(t) == <<"next", t>>
WaitQ(w) == <<"wait", w>>

Spots == {SharedQ, CondQ} \cup {OwnQ(t) : t \in Mains} \cup {NextOf(t) : t \in Mains}
           \cup {WaitQ(w) : w \in Workers}

kept ==
  [c \in Contexts |->
          {s \in {SharedQ} : c \in Range(shared)}
     \cup {s \in {CondQ} : c \in Range(cond)}
     \cup {OwnQ(t) : t \in {t \in Mains : c \in Range(own[t])}}
     \cup {NextOf(t) : t \in {t \in Mains : at[t] = "switch" /\ chosen[t] = c}}
     \cup {WaitQ(w) : w \in {w \in Workers : c \in Range(waitList[w])}}]

\* The context that runs on t has suspended itself, and the lambda of the
\* switch will not schedule it.
Waits(t) == at[t] \in {"pick", "switch"} /\ back[t] = NoOne

\* A context is kept in one spot at most, once.
OneSpotEach == \A c \in Contexts : \A r, s \in kept[c] : r = s

QueuesRepeatNothing ==
  /\ IsInjective(shared) /\ IsInjective(cond)
  /\ \A t \in Mains : IsInjective(own[t])
  /\ \A w \in Workers : IsInjective(waitList[w])

\* What is kept is live; it may still run only while it waits.
KeptAreLive == \A c \in Contexts : kept[c] # {} => c \in Live

RunningIsFree ==
  \A t \in Mains : kept[active[t]] # {} => Waits(t) /\ active[t] # DispatcherOf[t]

\* Each live context runs, is kept, or is parked.
LiveAreSomewhere ==
  \A c \in Live : c \in Running \/ kept[c] # {} \/ Parked(c)

\* ... and so will be the context that runs when its thread leaves it.
WaitersAreKept ==
  \A t \in Mains : Waits(t) =>
    \/ kept[active[t]] # {}
    \/ active[t] \in terminated
    \/ active[t] = t /\ shutdown[t]
    \/ active[t] = DispatcherOf[t] /\ at[t] = "switch" /\ chosen[t] = t /\ shutdown[t]

\* A context runs on one thread, and the live contexts with a continuation
\* are the others.
ActiveApart == \A t, u \in Mains : active[t] = active[u] => t = u

OthersAreSaved == \A c \in Live : saved[c] <=> c \notin Running

\* A fiber that has ended is on its way to its last switch.
EndedOnesLeave ==
  \A t \in Mains : active[t] \in terminated => at[t] \in {"ending", "leaving"} \/ Waits(t)

-----------------------------------------------------------------------------
(***************************************************************************)
(* scheduler_ names the thread that a context runs on, is about to run on, *)
(* or is ready on.                                                         *)
(***************************************************************************)
PinnedAtHome == \A t \in Mains : home[t] = t /\ home[DispatcherOf[t]] = t

RunningAtHome ==
  \A t \in Mains :
    ~Waits(t) \/ active[t] \in Pinned \cup terminated => home[active[t]] = t

KeptAtHome ==
  \A c \in Contexts :
    /\ \A t \in Mains : OwnQ(t) \in kept[c] \/ NextOf(t) \in kept[c] => home[c] = t
    /\ CondQ \in kept[c] => c \in Fibers /\ home[c] # NoOne
    /\ \A w \in Workers : WaitQ(w) \in kept[c] => c \in Fibers /\ home[c] # NoOne
    /\ SharedQ \in kept[c] => c \in Workers

UnmadeHaveNoHome == \A w \in Workers \ launched : home[w] = NoOne /\ origin[w] = NoOne

-----------------------------------------------------------------------------
\* The places of a thread and the context it is in.
ThreadsKeepOrder ==
  \A t \in Mains :
    /\ at[t] \in {"pick", "switch"} => back[t] \in {NoOne, active[t]}
    /\ at[t] \notin {"switch", "join"} => chosen[t] = NoOne
    /\ at[t] \in {"loop", "idle"} => active[t] = DispatcherOf[t]
    /\ at[t] \in {"code", "notifyOne", "notifyAll", "join"} => active[t] \in Fibers
    /\ at[t] = "exited" => active[t] = t /\ shutdown[t]

\* m_ is held by a notifier, or by a waiter up to its switch.
CondLockHeld ==
  \A t \in Mains :
    /\ condLock = t <=> \/ at[t] \in {"notifyOne", "notifyAll"}
                        \/ Waits(t) /\ CondQ \in kept[active[t]]
    /\ at[t] \in {"notifyOne", "notifyAll"} => cond # <<>>

\* In ~Scheduler the main context is in no queue, until the dispatcher
\* returns to it and leaves no fiber attached.
MainIsParked ==
  \A t \in Mains :
    /\ shutdown[t] =>
         /\ kept[t] \subseteq {NextOf(t)}
         /\ active[t] = t => Waits(t) \/ at[t] = "exited"
         /\ at[t] = "switch" /\ chosen[t] = t =>
              active[t] = DispatcherOf[t] /\ back[t] = NoOne /\ attached[t] = {}
    /\ at[t] = "exited" => attached[t] = {} /\ kept[DispatcherOf[t]] = {}

\* A fiber on a sharing thread is attached to it, unless it yields.
SharersAttach ==
  \A t \in Mains : ~Local(t) =>
    /\ at[t] \in {"code", "notifyOne", "notifyAll", "join"} =>
         active[t] \in Pinned \cup attached[t]
    /\ \A c \in Workers :
         /\ OwnQ(t) \notin kept[c]
         /\ NextOf(t) \in kept[c] => c \in attached[t]
         /\ CondQ \in kept[c] /\ home[c] = t => c \in attached[t]

\* OneScheduler in terms of the spots.
AttachedAtHome ==
  \A w \in Workers : ~IsAsync(w) =>
    /\ \A t \in Mains : w \in attached[t] => home[w] = t
    /\ SharedQ \in kept[w] => home[w] = NoOne

-----------------------------------------------------------------------------
\* A late joiner came from another thread.
LateJoiners ==
  /\ \A t \in Mains :
       at[t] = "join" /\ chosen[t] \in terminated => home[chosen[t]] # t
  /\ \A w \in terminated :
       \/ \E t \in Mains : active[t] = w /\ at[t] = "ending"
       \/ \A c \in Contexts : WaitQ(w) \in kept[c] => home[c] # home[w]

NoNull == halted # "null"

\* If nobody joins, only the waiters of a condition variable are kept while
\* they run, and every switch is good.
WithoutJoins ==
  NoJoins =>
    /\ halted # "crash"
    /\ \A t \in Mains : at[t] # "join"
    /\ \A w \in Workers : waitList[w] = <<>>
    /\ \A t \in Mains : kept[active[t]] \subseteq {CondQ}

(***************************************************************************)
(* The inductive invariant.                                                *)
(***************************************************************************)
SharedInv ==
  /\ TypeInv
  /\ OneSpotEach
  /\ QueuesRepeatNothing
  /\ KeptAreLive
  /\ RunningIsFree
  /\ LiveAreSomewhere
  /\ WaitersAreKept
  /\ ActiveApart
  /\ OthersAreSaved
  /\ EndedOnesLeave
  /\ PinnedAtHome
  /\ RunningAtHome
  /\ KeptAtHome
  /\ UnmadeHaveNoHome
  /\ ThreadsKeepOrder
  /\ CondLockHeld
  /\ MainIsParked
  /\ SharersAttach
  /\ AttachedAtHome
  /\ LateJoiners
  /\ NoNull
  /\ WithoutJoins

=============================================================================
