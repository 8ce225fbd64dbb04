-------------------------- MODULE SharedWorkProofs --------------------------
(***************************************************************************)
(* Theorems about SharedWork, for any number of threads and fibers.        *)
(***************************************************************************)
EXTENDS SharedWorkInvariant, QueueLemmas, FiniteSetTheorems

-----------------------------------------------------------------------------
\* The kinds of contexts are apart, and each thread has its dispatcher.
LEMMA Kinds ==
  /\ Mains \cap Workers = {} /\ Mains \cap Dispatchers = {}
  /\ Workers \cap Dispatchers = {} /\ NoOne \notin Contexts
  /\ Pinned \cap Workers = {}
  /\ Contexts = Mains \cup Dispatchers \cup Workers
  /\ Pinned \subseteq Contexts /\ Fibers \subseteq Contexts
  /\ \A t \in Mains : DispatcherOf[t] \in Dispatchers
  /\ \A d \in Dispatchers : \E t \in Mains : d = DispatcherOf[t]
  /\ \A t, u \in Mains : DispatcherOf[t] = DispatcherOf[u] => t = u
<1>1. DispatcherOf \in [Mains -> Dispatchers] /\ IsInjective(DispatcherOf)
  BY ThreadsAssumption DEF Injection
<1>2. \A t, u \in Mains : DispatcherOf[t] = DispatcherOf[u] => t = u
  BY <1>1 DEF IsInjective
<1>3. \A d \in Dispatchers : \E t \in Mains : d = DispatcherOf[t]
  BY <1>1 DEF Dispatchers, Range
<1> QED
  BY <1>1, <1>2, <1>3, ThreadsAssumption DEF Pinned, Fibers, Contexts

-----------------------------------------------------------------------------
(***************************************************************************)
(* Types, for every program.                                               *)
(***************************************************************************)
LEMMA ScheduleType ==
  ASSUME TypeOK, NEW t \in Mains, NEW c \in Contexts,
         NEW hm \in [Contexts -> Mains \cup {NoOne}],
         NEW att \in [Mains -> SUBSET Workers],
         Schedule(t, c, hm, att)
  PROVE  /\ shared' \in Seq(Workers) /\ own' \in [Mains -> Seq(Contexts)]
         /\ home' \in [Contexts -> Mains \cup {NoOne}]
         /\ attached' \in [Mains -> SUBSET Workers]
<1>1. Append(own[t], c) \in Seq(Contexts)
  BY AppendApart DEF TypeOK
<1>2. c \notin Pinned => Append(shared, c) \in Seq(Workers)
  <2>1. c \notin Pinned => c \in Workers
    BY DEF Contexts
  <2> QED BY <2>1, AppendApart DEF TypeOK
<1>3. [hm EXCEPT ![c] = IF IsAsync(c) THEN @ ELSE NoOne] \in [Contexts -> Mains \cup {NoOne}]
  OBVIOUS
<1>4. [att EXCEPT ![hm[c]] = @ \ {c}] \in [Mains -> SUBSET Workers]
  OBVIOUS
<1>5. CASE c \in Pinned \/ Local(t)
  BY <1>1, <1>5 DEF Schedule, TypeOK
<1>6. CASE ~(c \in Pinned \/ Local(t))
  <2>1. CASE IsAsync(c)
    BY <1>2, <1>3, <1>6, <2>1 DEF Schedule, TypeOK
  <2>2. CASE ~IsAsync(c)
    BY <1>2, <1>3, <1>4, <1>6, <2>2 DEF Schedule, TypeOK
  <2> QED BY <2>1, <2>2
<1> QED
  BY <1>5, <1>6

LEMMA TypeInit == Init => TypeInv
<1> SUFFICES ASSUME Init PROVE TypeInv
  OBVIOUS
<1>1. home \in [Contexts -> Mains \cup {NoOne}]
  BY Kinds DEF Init
<1>2. own \in [Mains -> Seq(Contexts)]
  <2>1. \A t \in Mains : <<DispatcherOf[t]>> \in Seq(Contexts)
    BY Kinds
  <2> QED BY <2>1 DEF Init
<1>3. TypeOK
  BY <1>1, <1>2, Kinds DEF Init, TypeOK, Places, HaltReasons
<1> QED
  BY <1>3, Kinds DEF Init, TypeInv, OnlyMadeOnesRun, ThreadsKnowWhom

LEMMA TypeStep == TypeInv /\ [Next]_vars => TypeInv'
<1> SUFFICES ASSUME TypeInv, [Next]_vars PROVE TypeInv'
  OBVIOUS
<1> USE DEF TypeInv
<1>k. /\ \A c \in Fibers : c \in Contexts
      /\ \A w \in Workers : w \in Contexts /\ w \notin Pinned
      /\ \A t \in Mains : t \in Contexts /\ t \in Pinned
      /\ NoOne \notin Contexts
  BY Kinds DEF Pinned
<1>h. ASSUME NEW why \in HaltReasons, Halt(why)  PROVE TypeInv'
  BY <1>h DEF Halt, TypeOK, OnlyMadeOnesRun, ThreadsKnowWhom, queueVars, lifeVars,
              waitVars, cpuVars
<1>1. ASSUME NEW t \in Mains, NEW c \in Fibers, NEW w \in Workers, Post(t, c, w)
      PROVE  TypeInv'
  <2>1. /\ [home EXCEPT ![w] = t] \in [Contexts -> Mains \cup {NoOne}]
        /\ [attached EXCEPT ![t] = @ \cup {w}] \in [Mains -> SUBSET Workers]
        /\ Schedule(t, w, [home EXCEPT ![w] = t], [attached EXCEPT ![t] = @ \cup {w}])
    BY <1>1 DEF Post, TypeOK
  <2>2. /\ shared' \in Seq(Workers) /\ own' \in [Mains -> Seq(Contexts)]
        /\ home' \in [Contexts -> Mains \cup {NoOne}]
        /\ attached' \in [Mains -> SUBSET Workers]
    BY <2>1, <1>k, ScheduleType
  <2>3. TypeOK'
    BY <1>1, <1>k, <2>2 DEF Post, TypeOK, waitVars
  <2>4. OnlyMadeOnesRun' /\ ThreadsKnowWhom'
    BY <1>1, <1>k DEF Post, TypeOK, OnlyMadeOnesRun, ThreadsKnowWhom
  <2> QED
    BY <2>3, <2>4
<1>2. ASSUME NEW t \in Mains, NEW c \in Fibers, NEW w \in Workers, Dispatch(t, c, w)
      PROVE  TypeInv'
  <2>1. /\ [home EXCEPT ![w] = t] \in [Contexts -> Mains \cup {NoOne}]
        /\ [attached EXCEPT ![t] = @ \cup {w}] \in [Mains -> SUBSET Workers]
        /\ Schedule(t, c, [home EXCEPT ![w] = t], [attached EXCEPT ![t] = @ \cup {w}])
    BY <1>2 DEF Dispatch, TypeOK
  <2>2. /\ shared' \in Seq(Workers) /\ own' \in [Mains -> Seq(Contexts)]
        /\ home' \in [Contexts -> Mains \cup {NoOne}]
        /\ attached' \in [Mains -> SUBSET Workers]
    BY <2>1, <1>k, ScheduleType
  <2>3. TypeOK'
    BY <1>2, <1>k, <2>2 DEF Dispatch, TypeOK, waitVars
  <2>4. c \in Workers => c \in launched
    BY <1>2 DEF Dispatch, InUserCode, OnlyMadeOnesRun
  <2>5. OnlyMadeOnesRun'
    BY <1>2, <1>k, <2>4 DEF Dispatch, TypeOK, OnlyMadeOnesRun
  <2>6. ThreadsKnowWhom'
    BY <1>2, <1>k DEF Dispatch, InUserCode, TypeOK, ThreadsKnowWhom
  <2> QED
    BY <2>3, <2>5, <2>6
<1>3. ASSUME NEW t \in Mains, NEW c \in Fibers, NEW w \in Workers, Async(t, c, w)
      PROVE  TypeInv'
  <2>1. shared' \in Seq(Workers)
    BY <1>3, AppendApart DEF Async, TypeOK
  <2> QED
    BY <1>3, <1>k, <2>1 DEF Async, TypeOK, OnlyMadeOnesRun, ThreadsKnowWhom, waitVars
<1>4. ASSUME NEW t \in Mains, NEW c \in Fibers, Yield(t, c)  PROVE TypeInv'
  BY <1>4, <1>k DEF Yield, Suspend, Goto, TypeOK, OnlyMadeOnesRun, ThreadsKnowWhom,
                    lifeVars, waitVars, Places
<1>5. ASSUME NEW t \in Mains, NEW c \in Fibers, YieldOrigin(t, c)  PROVE TypeInv'
  <2> DEFINE left == [attached EXCEPT ![t] = @ \ {c}]
  <2>1. left \in [Mains -> SUBSET Workers]
    BY DEF TypeOK
  <2>2. CASE c \in Workers /\ IsAsync(c)
    <3>1. CASE at[origin[c]] = "exited"
      BY <1>5, <1>h, <2>2, <3>1 DEF YieldOrigin, HaltReasons
    <3>2. CASE at[origin[c]] # "exited"
      <4>1. /\ origin[c] \in Mains
            /\ [home EXCEPT ![c] = NoOne] \in [Contexts -> Mains \cup {NoOne}]
        BY <2>2 DEF TypeOK, IsAsync
      <4>2. Schedule(origin[c], c, [home EXCEPT ![c] = NoOne], left)
        BY <1>5, <2>2, <3>2 DEF YieldOrigin
      <4>3. /\ shared' \in Seq(Workers) /\ own' \in [Mains -> Seq(Contexts)]
            /\ home' \in [Contexts -> Mains \cup {NoOne}]
            /\ attached' \in [Mains -> SUBSET Workers]
        BY <4>1, <4>2, <2>1, <1>k, ScheduleType
      <4> QED
        BY <1>5, <2>2, <3>2, <4>3
        DEF YieldOrigin, TypeOK, OnlyMadeOnesRun, ThreadsKnowWhom, lifeVars, waitVars,
            cpuVars
    <3> QED BY <3>1, <3>2
  <2>3. CASE ~(c \in Workers /\ IsAsync(c))
    <3>a. /\ attached' = left /\ at' = [at EXCEPT ![t] = "pick"]
          /\ back' = [back EXCEPT ![t] = c]
          /\ UNCHANGED <<shared, own, home, policy, origin, launched, terminated, cond,
                         condLock, waitList, active, saved, chosen, mtx, shutdown, halted>>
      BY <1>5, <2>3 DEF YieldOrigin, Suspend, Goto, lifeVars, waitVars
    <3>1. TypeOK'
      BY <1>k, <2>1, <3>a DEF TypeOK, Places
    <3>2. OnlyMadeOnesRun' /\ ThreadsKnowWhom'
      BY <1>5, <2>3
      DEF YieldOrigin, Suspend, Goto, TypeOK, OnlyMadeOnesRun, ThreadsKnowWhom, lifeVars
    <3> QED BY <3>1, <3>2
  <2> QED BY <2>2, <2>3
<1>6. ASSUME NEW t \in Mains, NEW c \in Fibers, CondWait(t, c)  PROVE TypeInv'
  <2>1. cond' \in Seq(Fibers)
    BY <1>6, AppendApart DEF CondWait, TypeOK
  <2> QED
    BY <1>6, <2>1 DEF CondWait, Suspend, Goto, TypeOK, OnlyMadeOnesRun, ThreadsKnowWhom,
                      queueVars, lifeVars, Places
<1>7. ASSUME NEW t \in Mains, NEW c \in Fibers, NEW how \in {"notifyOne", "notifyAll"},
             Notify(t, c, how)
      PROVE  TypeInv'
  BY <1>7 DEF Notify, Goto, TypeOK, OnlyMadeOnesRun, ThreadsKnowWhom, queueVars, lifeVars,
              Places
<1>8. ASSUME NEW t \in Mains, NotifyWakes(t)  PROVE TypeInv'
  <2>1. Head(cond) \in Fibers /\ Tail(cond) \in Seq(Fibers)
    BY <1>8, TailApart DEF NotifyWakes, TypeOK
  <2>2. home[Head(cond)] \in Mains
    BY <1>8, <1>k, <2>1 DEF NotifyWakes, Reachable, TypeOK
  <2>3. /\ shared' \in Seq(Workers) /\ own' \in [Mains -> Seq(Contexts)]
        /\ home' \in [Contexts -> Mains \cup {NoOne}]
        /\ attached' \in [Mains -> SUBSET Workers]
    BY <1>8, <1>k, <2>1, <2>2, ScheduleType DEF NotifyWakes, TypeOK
  <2> QED
    BY <1>8, <2>1, <2>3
    DEF NotifyWakes, Goto, TypeOK, OnlyMadeOnesRun, ThreadsKnowWhom, lifeVars, Places
<1>9. ASSUME NEW t \in Mains, NEW c \in Fibers, NEW w \in Workers, Join(t, c, w)
      PROVE  TypeInv'
  <2>1. TypeOK'
    BY <1>9, <1>k DEF Join, Goto, TypeOK, queueVars, lifeVars, waitVars, Places
  <2>2. OnlyMadeOnesRun' /\ ThreadsKnowWhom'
    BY <1>9 DEF Join, InUserCode, Goto, TypeOK, OnlyMadeOnesRun, ThreadsKnowWhom, lifeVars
  <2> QED
    BY <2>1, <2>2
<1>10. ASSUME NEW t \in Mains, JoinWait(t)  PROVE TypeInv'
  <2>1. chosen[t] \in Workers /\ active[t] \in Fibers
    BY <1>10 DEF JoinWait, ThreadsKnowWhom, TypeOK
  <2>2. Append(waitList[chosen[t]], active[t]) \in Seq(Fibers)
    BY <2>1, AppendApart DEF TypeOK
  <2>3. waitList' \in [Workers -> Seq(Fibers)]
    BY <1>10, <2>2 DEF JoinWait, TypeOK
  <2> QED
    BY <1>10, <2>3 DEF JoinWait, Goto, TypeOK, OnlyMadeOnesRun, ThreadsKnowWhom,
                       queueVars, lifeVars, Places
<1>11. ASSUME NEW t \in Mains, NEW w \in Workers, EndFiber(t, w)  PROVE TypeInv'
  BY <1>11 DEF EndFiber, InUserCode, Goto, TypeOK, OnlyMadeOnesRun, ThreadsKnowWhom,
               queueVars, waitVars, Places
<1>12. ASSUME NEW t \in Mains, WakeJoiner(t)  PROVE TypeInv'
  <2> DEFINE w == active[t]
  <2>1. w \in Workers
    BY <1>12 DEF WakeJoiner, ThreadsKnowWhom, TypeOK
  <2>2. CASE waitList[w] = <<>>
    BY <1>12, <2>2 DEF WakeJoiner, Goto, TypeOK, OnlyMadeOnesRun, ThreadsKnowWhom,
                       queueVars, lifeVars, Places
  <2>3. CASE waitList[w] # <<>>
    <3>1. Head(waitList[w]) \in Fibers /\ Tail(waitList[w]) \in Seq(Fibers)
      BY <2>1, <2>3, TailApart DEF TypeOK
    <3>2. home[Head(waitList[w])] \in Mains
      BY <1>12, <1>k, <2>3, <3>1 DEF WakeJoiner, Reachable, TypeOK
    <3>3. /\ shared' \in Seq(Workers) /\ own' \in [Mains -> Seq(Contexts)]
          /\ home' \in [Contexts -> Mains \cup {NoOne}]
          /\ attached' \in [Mains -> SUBSET Workers]
      BY <1>12, <1>k, <2>3, <3>1, <3>2, ScheduleType DEF WakeJoiner, TypeOK
    <3>4. waitList' \in [Workers -> Seq(Fibers)]
      BY <1>12, <2>3, <3>1 DEF WakeJoiner, TypeOK
    <3> QED
      BY <1>12, <2>3, <3>3, <3>4
      DEF WakeJoiner, TypeOK, OnlyMadeOnesRun, ThreadsKnowWhom, lifeVars
  <2> QED BY <2>2, <2>3
<1>13. ASSUME NEW t \in Mains, Terminate(t)  PROVE TypeInv'
  BY <1>13 DEF Terminate, Suspend, Goto, TypeOK, OnlyMadeOnesRun, ThreadsKnowWhom,
               lifeVars, waitVars, Places
<1>14. ASSUME NEW t \in Mains, PickNext(t)  PROVE TypeInv'
  <2> USE DEF NotPicked, lifeVars, waitVars
  <2>1. CASE shared # <<>> /\ ~Local(t)
    <3>1. Head(shared) \in Workers /\ Tail(shared) \in Seq(Workers)
      BY <2>1, TailApart DEF TypeOK
    <3>a. /\ shared' = Tail(shared)
          /\ attached' = [attached EXCEPT ![t] = @ \cup {Head(shared)}]
          /\ home' = [home EXCEPT ![Head(shared)] = t]
          /\ chosen' = [chosen EXCEPT ![t] = Head(shared)]
          /\ at' = [at EXCEPT ![t] = "switch"]
          /\ UNCHANGED <<own, policy, origin, launched, terminated, cond, condLock, waitList,
                         active, saved, back, mtx, shutdown, halted>>
      BY <1>14, <2>1 DEF PickNext, TakeShared, Goto
    <3>2. TypeOK'
      BY <1>k, <3>1, <3>a DEF TypeOK, Places
    <3>3. OnlyMadeOnesRun' /\ ThreadsKnowWhom'
      BY <1>14, <1>k, <2>1, <3>1
      DEF PickNext, TakeShared, Goto, TypeOK, OnlyMadeOnesRun, ThreadsKnowWhom
    <3> QED BY <3>2, <3>3
  <2>2. CASE ~(shared # <<>> /\ ~Local(t)) /\ own[t] # <<>>
    <3>1. Head(own[t]) \in Contexts /\ Tail(own[t]) \in Seq(Contexts)
      BY <2>2, TailApart DEF TypeOK
    <3>a. /\ own' = [own EXCEPT ![t] = Tail(@)]
          /\ chosen' = [chosen EXCEPT ![t] = Head(own[t])]
          /\ at' = [at EXCEPT ![t] = "switch"]
          /\ UNCHANGED <<shared, home, attached, policy, origin, launched, terminated, cond,
                         condLock, waitList, active, saved, back, mtx, shutdown, halted>>
      BY <1>14, <2>2 DEF PickNext, TakeOwn, Goto
    <3>2. TypeOK'
      BY <1>k, <3>1, <3>a DEF TypeOK, Places
    <3>3. OnlyMadeOnesRun' /\ ThreadsKnowWhom'
      BY <1>14, <1>k, <2>2, <3>1
      DEF PickNext, TakeOwn, Goto, TypeOK, OnlyMadeOnesRun, ThreadsKnowWhom
    <3> QED BY <3>2, <3>3
  <2>3. CASE ~(shared # <<>> /\ ~Local(t)) /\ own[t] = <<>>
    <3>1. /\ at' = [at EXCEPT ![t] = IF Local(t) /\ ~shutdown[t] THEN "idle" ELSE "loop"]
          /\ UNCHANGED <<shared, own, home, attached, policy, origin, launched, terminated,
                         cond, condLock, waitList, active, saved, chosen, back, mtx,
                         shutdown, halted>>
      BY <1>14, <2>3 DEF PickNext, FindNothing, Goto, queueVars
    <3>2. TypeOK'
      BY <3>1 DEF TypeOK, Places
    <3>3. OnlyMadeOnesRun' /\ ThreadsKnowWhom'
      BY <3>1 DEF TypeOK, OnlyMadeOnesRun, ThreadsKnowWhom
    <3> QED BY <3>2, <3>3
  <2> QED BY <2>1, <2>2, <2>3
<1>15. ASSUME NEW t \in Mains, Switch(t)  PROVE TypeInv'
  <2>1. chosen[t] \in Contexts
    BY <1>15 DEF Switch, ThreadsKnowWhom, TypeOK
  <2>2. chosen[t] \in Workers => chosen[t] \in launched
    BY <1>15, <2>1 DEF Switch, Resumable, OnlyMadeOnesRun
  <2>3. /\ shared' \in Seq(Workers) /\ own' \in [Mains -> Seq(Contexts)]
        /\ home' \in [Contexts -> Mains \cup {NoOne}]
        /\ attached' \in [Mains -> SUBSET Workers]
    <3>1. CASE back[t] = NoOne
      BY <1>15, <3>1 DEF Switch, queueVars, TypeOK
    <3>2. CASE back[t] # NoOne
      BY <1>15, <3>2, ScheduleType DEF Switch, TypeOK
    <3> QED BY <3>1, <3>2
  <2>4. at' \in [Mains -> Places] /\ at'[t] \in {"loop", "exited", "code"}
    BY <1>15 DEF Switch, Goto, Entry, TypeOK, Places
  <2>5. TypeOK'
    BY <1>15, <2>1, <2>3, <2>4 DEF Switch, TypeOK, lifeVars
  <2>6. OnlyMadeOnesRun'
    <3>1. /\ active' = [active EXCEPT ![t] = chosen[t]]
          /\ saved' = [saved EXCEPT ![active[t]] = TRUE, ![chosen[t]] = FALSE]
          /\ launched' = launched
      BY <1>15 DEF Switch, lifeVars
    <3>2. \A c \in Contexts : c # active[t] => (saved'[c] => saved[c])
      BY <3>1, <2>1 DEF TypeOK
    <3>3. \A w \in Workers : saved'[w] => w \in launched
      BY <3>2, <1>k DEF OnlyMadeOnesRun
    <3> QED
      BY <2>2, <3>1, <3>3 DEF TypeOK, OnlyMadeOnesRun
  <2>7. ThreadsKnowWhom'
    BY <1>15, <2>4 DEF Switch, Goto, TypeOK, ThreadsKnowWhom, lifeVars
  <2> QED
    BY <2>5, <2>6, <2>7
<1>16. ASSUME NEW t \in Mains, DispatchTurn(t)  PROVE TypeInv'
  BY <1>16, <1>k DEF DispatchTurn, Goto, TypeOK, OnlyMadeOnesRun, ThreadsKnowWhom,
                     queueVars, lifeVars, waitVars, Places
<1>17. ASSUME NEW t \in Mains, ShutDown(t)  PROVE TypeInv'
  BY <1>17 DEF ShutDown, InUserCode, Suspend, Goto, TypeOK, OnlyMadeOnesRun,
               ThreadsKnowWhom, queueVars, lifeVars, waitVars, Places
<1>19. ASSUME NEW t \in Mains, NEW c \in Fibers,
              LaunchHalts(t, c) \/ SuspendHalts(t, c)
       PROVE  TypeInv'
  BY <1>19, <1>h DEF LaunchHalts, SuspendHalts, HaltReasons
<1>20. ASSUME NEW t \in Mains,
              NotifyHalts(t) \/ WakeJoinerHalts(t) \/ TerminateHalts(t) \/ PickNextHalts(t)
                \/ SwitchHalts(t)
       PROVE  TypeInv'
  BY <1>20, <1>h DEF NotifyHalts, WakeJoinerHalts, WakeHalts, TerminateHalts,
                     PickNextHalts, SwitchHalts, HaltReasons
<1>21. CASE Race
  BY <1>21, <1>h DEF Race, HaltReasons
<1>22. CASE UNCHANGED vars
  BY <1>22 DEF vars, queueVars, lifeVars, waitVars, cpuVars, TypeOK, OnlyMadeOnesRun,
               ThreadsKnowWhom
<1> QED
  BY <1>1, <1>2, <1>3, <1>4, <1>5, <1>6, <1>7, <1>8, <1>9, <1>10, <1>11, <1>12, <1>13,
     <1>14, <1>15, <1>16, <1>17, <1>19, <1>20, <1>21, <1>22
  DEF Next, ThreadStep

(***************************************************************************)
(* Whatever its fibers call - YieldOrigin and joins across threads         *)
(* included - every variable keeps to its values.                          *)
(***************************************************************************)
THEOREM SharedTypes == Spec => []TypeOK
<1>1. TypeInv /\ [Next]_vars => TypeInv'
  BY TypeStep
<1>2. TypeInv => TypeOK
  BY DEF TypeInv
<1> QED
  BY <1>1, <1>2, TypeInit, PTL DEF Spec

-----------------------------------------------------------------------------
(***************************************************************************)
(* Spots.                                                                  *)
(***************************************************************************)
LEMMA SpotsApart ==
  /\ SharedQ \in Spots /\ CondQ \in Spots /\ SharedQ # CondQ
  /\ \A t \in Mains :
       /\ OwnQ(t) \in Spots /\ OwnQ(t) # SharedQ /\ OwnQ(t) # CondQ
       /\ NextOf(t) \in Spots /\ NextOf(t) # SharedQ /\ NextOf(t) # CondQ
       /\ \A u \in Mains : /\ NextOf(t) # OwnQ(u)
                           /\ OwnQ(t) = OwnQ(u) => t = u
                           /\ NextOf(t) = NextOf(u) => t = u
       /\ \A w \in Workers : NextOf(t) # WaitQ(w) /\ OwnQ(t) # WaitQ(w)
  /\ \A w \in Workers :
       /\ WaitQ(w) \in Spots /\ WaitQ(w) # SharedQ /\ WaitQ(w) # CondQ
       /\ \A v \in Workers : WaitQ(w) = WaitQ(v) => w = v
BY DEF Spots, SharedQ, CondQ, OwnQ, NextOf, WaitQ

\* What is in each spot.
SpotsHold ==
  /\ kept \in [Contexts -> SUBSET Spots]
  /\ \A c \in Contexts :
       /\ SharedQ \in kept[c] <=> c \in Range(shared)
       /\ CondQ \in kept[c] <=> c \in Range(cond)
       /\ \A t \in Mains :
            /\ OwnQ(t) \in kept[c] <=> c \in Range(own[t])
            /\ NextOf(t) \in kept[c] <=> at[t] = "switch" /\ chosen[t] = c
       /\ \A w \in Workers : WaitQ(w) \in kept[c] <=> c \in Range(waitList[w])

LEMMA Held == SpotsHold
BY SpotsApart DEF SpotsHold, kept

LEMMA HeldNext == SpotsHold'
BY Held, PTL

\* Two sets of spots are equal if they agree on each kind of spot.
LEMMA SameSpots ==
  ASSUME NEW A \in SUBSET Spots, NEW B \in SUBSET Spots,
         SharedQ \in A <=> SharedQ \in B, CondQ \in A <=> CondQ \in B,
         \A t \in Mains : /\ OwnQ(t) \in A <=> OwnQ(t) \in B
                          /\ NextOf(t) \in A <=> NextOf(t) \in B,
         \A w \in Workers : WaitQ(w) \in A <=> WaitQ(w) \in B
  PROVE  A = B
BY DEF Spots

\* A step keeps the context c where it is ...
Stays(c) ==
  /\ c \in Range(shared') <=> c \in Range(shared)
  /\ c \in Range(cond') <=> c \in Range(cond)
  /\ \A t \in Mains :
       /\ c \in Range(own'[t]) <=> c \in Range(own[t])
       /\ at'[t] = "switch" /\ chosen'[t] = c <=> at[t] = "switch" /\ chosen[t] = c
  /\ \A w \in Workers : c \in Range(waitList'[w]) <=> c \in Range(waitList[w])

\* ... or puts it into the spot s, and only there.
Goes(c, s) ==
  /\ c \in Range(shared') <=> s = SharedQ
  /\ c \in Range(cond') <=> s = CondQ
  /\ \A t \in Mains :
       /\ c \in Range(own'[t]) <=> s = OwnQ(t)
       /\ at'[t] = "switch" /\ chosen'[t] = c <=> s = NextOf(t)
  /\ \A w \in Workers : c \in Range(waitList'[w]) <=> s = WaitQ(w)

LEMMA KeptStays ==
  ASSUME NEW c \in Contexts, Stays(c)
  PROVE  kept'[c] = kept[c]
<1>1. kept[c] \in SUBSET Spots /\ kept'[c] \in SUBSET Spots
  BY Held, HeldNext DEF SpotsHold
<1> QED
  BY <1>1, Held, HeldNext, SameSpots DEF Stays, SpotsHold

LEMMA KeptGoes ==
  ASSUME NEW c \in Contexts, NEW s \in Spots, Goes(c, s)
  PROVE  kept'[c] = {s}
<1> DEFINE A == {s}
<1>1. A \in SUBSET Spots /\ kept'[c] \in SUBSET Spots
  BY HeldNext DEF SpotsHold
<1>2. \A r : r \in A <=> s = r
  OBVIOUS
<1> HIDE DEF A
<1>3. kept'[c] = A
  BY <1>1, <1>2, HeldNext, SameSpots DEF Goes, SpotsHold
<1> QED
  BY <1>3 DEF A

\* Where Schedule puts c.
ReadySpot(t, c) == IF c \in Pinned \/ Local(t) THEN OwnQ(t) ELSE SharedQ

LEMMA ReadySpots ==
  ASSUME NEW t \in Mains, NEW c \in Contexts
  PROVE  /\ ReadySpot(t, c) \in Spots /\ ReadySpot(t, c) # CondQ
         /\ \A u \in Mains :
              /\ ReadySpot(t, c) # NextOf(u)
              /\ ReadySpot(t, c) = OwnQ(u) => u = t /\ (c \in Workers => Local(t))
         /\ \A w \in Workers : ReadySpot(t, c) # WaitQ(w)
         /\ ReadySpot(t, c) = SharedQ => c \in Workers /\ ~Local(t)
BY SpotsApart, Kinds DEF ReadySpot, Contexts

LEMMA Scheduled ==
  ASSUME TypeOK, QueuesRepeatNothing, NEW t \in Mains, NEW c \in Contexts, NEW hm,
         NEW att, Schedule(t, c, hm, att), SharedQ \notin kept[c],
         \A u \in Mains : OwnQ(u) \notin kept[c]
  PROVE  /\ ReadySpot(t, c) \in Spots
         /\ IsInjective(shared') /\ \A u \in Mains : IsInjective(own'[u])
         /\ \A d : d # c => /\ d \in Range(shared') <=> d \in Range(shared)
                            /\ \A u \in Mains : d \in Range(own'[u]) <=> d \in Range(own[u])
         /\ c \in Range(shared') <=> ReadySpot(t, c) = SharedQ
         /\ \A u \in Mains : c \in Range(own'[u]) <=> ReadySpot(t, c) = OwnQ(u)
<1>1. c \notin Range(shared) /\ \A u \in Mains : c \notin Range(own[u])
  BY Held DEF SpotsHold
<1>2. CASE c \in Pinned \/ Local(t)
  <2>1. /\ ReadySpot(t, c) = OwnQ(t) /\ shared' = shared
        /\ own' = [own EXCEPT ![t] = Append(@, c)]
    BY <1>2 DEF ReadySpot, Schedule
  <2>2. /\ own[t] \in Seq(Contexts) /\ IsInjective(own[t])
        /\ own'[t] = Append(own[t], c) /\ \A u \in Mains : u # t => own'[u] = own[u]
    BY <2>1 DEF TypeOK, QueuesRepeatNothing
  <2>3. IsInjective(own'[t]) /\ Range(own'[t]) = Range(own[t]) \cup {c}
    BY <1>1, <2>2, AppendApart
  <2> QED
    BY <1>1, <2>1, <2>2, <2>3, SpotsApart DEF QueuesRepeatNothing
<1>3. CASE ~(c \in Pinned \/ Local(t))
  <2>1. ReadySpot(t, c) = SharedQ /\ own' = own /\ shared' = Append(shared, c)
    BY <1>3 DEF ReadySpot, Schedule
  <2>2. c \in Workers
    BY <1>3 DEF Contexts
  <2>3. IsInjective(shared') /\ Range(shared') = Range(shared) \cup {c}
    BY <1>1, <2>1, <2>2, AppendApart DEF TypeOK, QueuesRepeatNothing
  <2> QED
    BY <1>1, <2>1, <2>3, SpotsApart DEF QueuesRepeatNothing
<1> QED
  BY <1>2, <1>3

LEMMA ScheduledHome ==
  ASSUME NEW t \in Mains, NEW c \in Contexts, NEW hm \in [Contexts -> Mains \cup {NoOne}],
         NEW att \in [Mains -> SUBSET Workers], Schedule(t, c, hm, att)
  PROVE  /\ ReadySpot(t, c) \in {OwnQ(t), SharedQ}
         /\ \A d \in Contexts : d # c => home'[d] = hm[d]
         /\ home'[c] = hm[c] \/ (home'[c] = NoOne /\ ReadySpot(t, c) = SharedQ)
         /\ ReadySpot(t, c) = SharedQ /\ ~IsAsync(c) => home'[c] = NoOne
         /\ \A u \in Mains : attached'[u] \subseteq att[u]
         /\ \A u \in Mains : \A d : d # c /\ d \in att[u] => d \in attached'[u]
         /\ \A u \in Mains : u # hm[c] => attached'[u] = att[u]
         /\ ReadySpot(t, c) = OwnQ(t) => attached' = att
         /\ ReadySpot(t, c) = SharedQ /\ ~IsAsync(c) /\ hm[c] \in Mains
              => c \notin attached'[hm[c]]
<1>1. CASE c \in Pinned \/ Local(t)
  <2>1. home' = hm /\ attached' = att /\ ReadySpot(t, c) = OwnQ(t)
    BY <1>1 DEF ReadySpot, Schedule
  <2>2. ReadySpot(t, c) # SharedQ
    BY <2>1, SpotsApart
  <2> QED BY <2>1, <2>2
<1>2. CASE ~(c \in Pinned \/ Local(t)) /\ IsAsync(c)
  BY <1>2, SpotsApart DEF ReadySpot, Schedule
<1>3. CASE ~(c \in Pinned \/ Local(t)) /\ ~IsAsync(c)
  <2>1. /\ home' = [hm EXCEPT ![c] = NoOne] /\ attached' = [att EXCEPT ![hm[c]] = @ \ {c}]
        /\ ReadySpot(t, c) = SharedQ
    BY <1>3 DEF ReadySpot, Schedule
  <2> QED BY <2>1, <1>3, SpotsApart
<1> QED
  BY <1>1, <1>2, <1>3

LEMMA RunningIs == TypeOK => \A c : c \in Running <=> \E t \in Mains : active[t] = c
BY DEF TypeOK, Running, Range

LEMMA RunningNext == TypeOK' => \A c : c \in Running' <=> \E t \in Mains : active'[t] = c
BY DEF TypeOK, Running, Range

\* What every step below uses.
LEMMA Sorts ==
  ASSUME TypeOK
  PROVE  /\ \A t \in Mains : /\ t \in Contexts /\ t \in Pinned /\ t \notin Workers
                             /\ DispatcherOf[t] \in Contexts /\ DispatcherOf[t] \in Pinned
                             /\ DispatcherOf[t] \notin Fibers /\ t # DispatcherOf[t]
                             /\ active[t] \in Contexts
         /\ \A w \in Workers : w \in Contexts /\ w \notin Pinned
         /\ \A c \in Fibers : c \in Contexts
         /\ NoOne \notin Contexts /\ NoOne \notin Mains
         /\ \A w \in launched : w \in Workers /\ w \in Contexts
         /\ \A w \in terminated : w \in launched
BY Kinds DEF TypeOK, Pinned, Fibers

-----------------------------------------------------------------------------
(***************************************************************************)
(* SharedInv is inductive: one lemma per action.                           *)
(***************************************************************************)
\* A worker that is not launched is nowhere.
LEMMA UnmadeNowhere ==
  ASSUME SharedInv, NEW w \in Workers, w \notin launched
  PROVE  /\ kept[w] = {} /\ w \notin Running /\ w \notin terminated
         /\ \A t \in Mains : active[t] # w /\ (~IsAsync(w) => w \notin attached[t])
         /\ home[w] = NoOne /\ origin[w] = NoOne /\ ~IsAsync(w)
<1> USE DEF SharedInv
<1>1. w \in Contexts /\ w \notin Pinned /\ NoOne \notin Mains
  BY Kinds DEF Contexts, Pinned
<1>2. w \notin Live /\ w \notin terminated
  BY <1>1 DEF Live, TypeInv, TypeOK
<1>3. \A t \in Mains : active[t] # w
  BY DEF TypeInv, OnlyMadeOnesRun
<1>4. kept[w] = {}
  BY <1>1, <1>2 DEF KeptAreLive
<1>5. home[w] = NoOne /\ origin[w] = NoOne /\ ~IsAsync(w)
  BY DEF UnmadeHaveNoHome, IsAsync
<1>6. \A t \in Mains : w \notin attached[t]
  BY <1>1, <1>5 DEF AttachedAtHome
<1> QED
  BY <1>2, <1>3, <1>4, <1>5, <1>6, RunningIs DEF TypeInv

LEMMA PostKeeps ==
  ASSUME SharedInv, TypeInv', NEW t \in Mains, NEW c \in Fibers, NEW w \in Workers,
         Post(t, c, w)
  PROVE  SharedInv'
<1> USE DEF SharedInv
<1>k. /\ c \in Contexts /\ w \in Contexts /\ NoOne \notin Contexts /\ NoOne \notin Mains
      /\ \A u \in Mains : /\ u \in Contexts /\ u \in Pinned /\ u \notin Workers
                          /\ DispatcherOf[u] \in Contexts /\ DispatcherOf[u] \in Pinned
                          /\ active[u] \in Contexts
      /\ \A v \in Workers : v \in Contexts /\ v \notin Pinned
      /\ \A v \in launched : v \in Workers /\ v \in Contexts
      /\ \A v \in terminated : v \in launched
  BY Sorts DEF TypeInv
<1>w. /\ kept[w] = {} /\ w \notin terminated /\ \A u \in Mains : active[u] # w /\ w \notin attached[u]
      /\ home[w] = NoOne /\ origin[w] = NoOne /\ ~IsAsync(w)
  BY UnmadeNowhere DEF Post
<1>f. /\ at[t] = "code" /\ active[t] = c /\ home[c] = t /\ w \notin launched
      /\ launched' = launched \cup {w}
      /\ saved'[w] = TRUE /\ \A d \in Contexts : d # w => saved'[d] = saved[d]
      /\ policy' = policy /\ origin' = origin /\ terminated' = terminated /\ cond' = cond
      /\ condLock' = condLock /\ waitList' = waitList /\ active' = active /\ at' = at
      /\ chosen' = chosen /\ back' = back /\ shutdown' = shutdown /\ halted' = halted
  BY <1>k DEF Post, InUserCode, waitVars, TypeInv, TypeOK
<1>g. /\ Local(t) => home'[w] = t /\ attached'[t] = attached[t] \cup {w}
      /\ ~Local(t) => home'[w] = NoOne /\ attached'[t] = attached[t]
      /\ \A d \in Contexts : d # w => home'[d] = home[d]
      /\ \A u \in Mains : u # t => attached'[u] = attached[u]
  <2>1. Schedule(t, w, [home EXCEPT ![w] = t], [attached EXCEPT ![t] = @ \cup {w}])
    BY DEF Post
  <2>2. CASE Local(t)
    BY <1>k, <2>1, <2>2 DEF Schedule, TypeInv, TypeOK
  <2>3. CASE ~Local(t)
    BY <1>k, <1>w, <2>1, <2>3 DEF Schedule, TypeInv, TypeOK
  <2> QED BY <2>2, <2>3
<1>m. /\ kept'[w] = {ReadySpot(t, w)} /\ \A d \in Contexts : d # w => kept'[d] = kept[d]
      /\ QueuesRepeatNothing'
  <2>1. /\ ReadySpot(t, w) \in Spots
        /\ IsInjective(shared') /\ \A u \in Mains : IsInjective(own'[u])
        /\ \A d : d # w => /\ d \in Range(shared') <=> d \in Range(shared)
                           /\ \A u \in Mains : d \in Range(own'[u]) <=> d \in Range(own[u])
        /\ w \in Range(shared') <=> ReadySpot(t, w) = SharedQ
        /\ \A u \in Mains : w \in Range(own'[u]) <=> ReadySpot(t, w) = OwnQ(u)
    BY <1>k, <1>w, Scheduled DEF Post, TypeInv
  <2>2. \A d \in Contexts : d # w => Stays(d)
    BY <1>f, <2>1 DEF Stays
  <2>3. Goes(w, ReadySpot(t, w))
    <3>1. ReadySpot(t, w) \in {OwnQ(t), SharedQ}
      BY DEF ReadySpot
    <3> QED
      BY <1>k, <1>w, <1>f, <2>1, <3>1, Held, SpotsApart DEF Goes, SpotsHold
  <2>4. QueuesRepeatNothing'
    BY <1>f, <2>1 DEF QueuesRepeatNothing
  <2> QED BY <1>k, <1>w, <2>1, <2>2, <2>3, <2>4, KeptStays, KeptGoes
<1>l. \A d \in Live : d \in Contexts
  BY <1>k DEF TypeInv, TypeOK, Live, Contexts
<1>r. /\ ReadySpot(t, w) # CondQ
      /\ \A u \in Mains : /\ ReadySpot(t, w) # NextOf(u)
                          /\ ReadySpot(t, w) = OwnQ(u) => u = t /\ Local(t)
      /\ \A v \in Workers : ReadySpot(t, w) # WaitQ(v)
      /\ ReadySpot(t, w) = SharedQ => ~Local(t)
  BY <1>k, ReadySpots
<1>n. /\ \A s : s \in kept'[w] => s = ReadySpot(t, w)
      /\ kept'[w] # {}
      /\ \A u \in Mains : /\ kept'[active[u]] = kept[active[u]] /\ kept'[u] = kept[u]
                          /\ kept'[DispatcherOf[u]] = kept[DispatcherOf[u]]
      /\ Live' = Live \cup {w} /\ Running' = Running
      /\ \A d : Parked(d)' <=> Parked(d)
  BY <1>k, <1>f, <1>w, <1>m DEF Live, Running, Parked
<1>1. OneSpotEach'
  BY <1>m, <1>n DEF OneSpotEach
<1>2. KeptAreLive'
  BY <1>m, <1>n DEF KeptAreLive
<1>3. RunningIsFree'
  BY <1>f, <1>n DEF RunningIsFree, Waits
<1>4. LiveAreSomewhere'
  BY <1>l, <1>m, <1>n DEF LiveAreSomewhere
<1>5. WaitersAreKept'
  BY <1>f, <1>n DEF WaitersAreKept, Waits
<1>6. ActiveApart'
  BY <1>f DEF ActiveApart
<1>7. OthersAreSaved'
  <2>1. w \notin Running
    BY <1>w, RunningIs DEF TypeInv
  <2> QED
    BY <1>f, <1>l, <1>n, <2>1 DEF OthersAreSaved
<1>8. EndedOnesLeave'
  BY <1>f DEF EndedOnesLeave, Waits
<1>9. PinnedAtHome'
  BY <1>g, <1>k DEF PinnedAtHome
<1>10. RunningAtHome'
  BY <1>f, <1>g, <1>k, <1>w DEF RunningAtHome, Waits
<1>11. KeptAtHome'
  <2>1. ASSUME NEW d \in Contexts, d # w  PROVE kept'[d] = kept[d] /\ home'[d] = home[d]
    BY <1>g, <1>m, <2>1
  <2>2. \A u \in Mains : OwnQ(u) \in kept'[w] \/ NextOf(u) \in kept'[w] => home'[w] = u
    BY <1>g, <1>n, <1>r
  <2>3. CondQ \notin kept'[w] /\ \A v \in Workers : WaitQ(v) \notin kept'[w]
    BY <1>n, <1>r
  <2> QED
    BY <1>k, <2>1, <2>2, <2>3 DEF KeptAtHome
<1>12. UnmadeHaveNoHome'
  BY <1>f, <1>g, <1>k DEF UnmadeHaveNoHome
<1>13. ThreadsKeepOrder'
  BY <1>f DEF ThreadsKeepOrder
<1>14. CondLockHeld'
  BY <1>f, <1>n DEF CondLockHeld, Waits
<1>15. MainIsParked'
  BY <1>f, <1>g, <1>n DEF MainIsParked, Waits
<1>16. SharersAttach'
  BY <1>f, <1>g, <1>k, <1>m, <1>n, <1>r DEF SharersAttach, Local
<1>17. AttachedAtHome'
  BY <1>f, <1>g, <1>k, <1>m, <1>n, <1>r, <1>w DEF AttachedAtHome, IsAsync
<1>18. LateJoiners'
  <2>1. \A v \in launched : home'[v] = home[v]
    BY <1>f, <1>g, <1>k
  <2>2. \A u \in Mains : at[u] = "join" => chosen[u] \in launched
    BY DEF TypeInv, ThreadsKnowWhom
  <2>3. \A d \in Contexts : \A v \in terminated :
          WaitQ(v) \in kept'[d] => WaitQ(v) \in kept[d] /\ home'[d] = home[d]
    BY <1>g, <1>k, <1>m, <1>n, <1>r
  <2> QED
    BY <1>f, <1>k, <2>1, <2>2, <2>3 DEF LateJoiners
<1>19. NoNull'
  BY <1>f DEF NoNull
<1>20. WithoutJoins'
  BY <1>f, <1>n DEF WithoutJoins
<1> QED
  BY <1>m, <1>1, <1>2, <1>3, <1>4, <1>5, <1>6, <1>7, <1>8, <1>9, <1>10, <1>11, <1>12,
     <1>13, <1>14, <1>15, <1>16, <1>17, <1>18, <1>19, <1>20

LEMMA DispatchKeeps ==
  ASSUME SharedInv, TypeInv', NEW t \in Mains, NEW c \in Fibers, NEW w \in Workers,
         Dispatch(t, c, w)
  PROVE  SharedInv'
<1> USE DEF SharedInv
<1> DEFINE S == ReadySpot(t, c)
<1>k. /\ c \in Contexts /\ w \in Contexts /\ w \in Fibers /\ w # c
      /\ NoOne \notin Contexts /\ NoOne \notin Mains
      /\ \A u \in Mains : /\ u \in Contexts /\ u \in Pinned /\ u \notin Workers
                          /\ DispatcherOf[u] \in Contexts /\ DispatcherOf[u] \in Pinned
                          /\ DispatcherOf[u] # c /\ active[u] \in Contexts
      /\ \A v \in Workers : v \in Contexts /\ v \notin Pinned
      /\ \A v \in launched : v \in Workers /\ v \in Contexts
      /\ \A v \in terminated : v \in launched
  <2>1. c # w
    BY DEF Dispatch, InUserCode, TypeInv, OnlyMadeOnesRun
  <2> QED BY <2>1, Sorts DEF TypeInv, Fibers
<1>w. /\ kept[w] = {} /\ w \notin terminated /\ w \notin Running
      /\ \A u \in Mains : active[u] # w /\ w \notin attached[u]
      /\ home[w] = NoOne /\ origin[w] = NoOne /\ ~IsAsync(w)
  BY UnmadeNowhere DEF Dispatch
<1>f. /\ at[t] = "code" /\ active[t] = c /\ home[c] = t /\ w \notin launched
      /\ launched' = launched \cup {w}
      /\ active'[t] = w /\ \A u \in Mains : u # t => active'[u] = active[u]
      /\ saved'[c] = TRUE /\ \A d \in Contexts : d # c => saved'[d] = saved[d]
      /\ policy' = policy /\ origin' = origin /\ terminated' = terminated /\ cond' = cond
      /\ condLock' = condLock /\ waitList' = waitList /\ at' = at
      /\ chosen' = chosen /\ back' = back /\ shutdown' = shutdown /\ halted' = halted
  BY <1>k DEF Dispatch, InUserCode, waitVars, TypeInv, TypeOK
<1>c. /\ kept[c] = {} /\ c \notin terminated /\ c \in Live
      /\ \A u \in Mains : active[u] = c => u = t
      /\ \A u \in Mains : u = c => u = t /\ ~shutdown[u]
  <2>1. kept[c] = {} /\ c \notin terminated
    BY <1>f DEF RunningIsFree, EndedOnesLeave, Waits
  <2>2. c \in Live
    BY <1>f, <2>1 DEF Live, Pinned, Fibers, TypeInv, OnlyMadeOnesRun
  <2>3. \A u \in Mains : u = c => u = t
    BY <1>f DEF PinnedAtHome
  <2> QED
    BY <1>f, <2>1, <2>2, <2>3 DEF ActiveApart, MainIsParked, Waits
<1>s. Schedule(t, c, [home EXCEPT ![w] = t], [attached EXCEPT ![t] = @ \cup {w}])
  BY DEF Dispatch
<1>g. /\ home'[w] = t /\ \A d \in Contexts : d # c /\ d # w => home'[d] = home[d]
      /\ home'[c] = t \/ (home'[c] = NoOne /\ S = SharedQ)
      /\ S = SharedQ /\ ~IsAsync(c) => home'[c] = NoOne /\ c \notin attached'[t]
      /\ w \in attached'[t]
      /\ \A u \in Mains : u # t => attached'[u] = attached[u]
      /\ \A d : d # c /\ d \in attached[t] => d \in attached'[t]
      /\ \A d : d # w /\ d \in attached'[t] => d \in attached[t]
  <2> DEFINE hm == [home EXCEPT ![w] = t]
             att == [attached EXCEPT ![t] = @ \cup {w}]
  <2>1. /\ hm \in [Contexts -> Mains \cup {NoOne}] /\ att \in [Mains -> SUBSET Workers]
        /\ hm[w] = t /\ hm[c] = t /\ \A d \in Contexts : d # w => hm[d] = home[d]
        /\ att[t] = attached[t] \cup {w} /\ \A u \in Mains : u # t => att[u] = attached[u]
    BY <1>f, <1>k DEF TypeInv, TypeOK
  <2> HIDE DEF hm, att
  <2>2. Schedule(t, c, hm, att)
    BY <1>s DEF hm, att
  <2> QED
    BY <1>k, <2>1, <2>2, ScheduledHome
<1>m. /\ kept'[c] = {S} /\ \A d \in Contexts : d # c => kept'[d] = kept[d]
      /\ QueuesRepeatNothing'
  <2>1. /\ S \in Spots
        /\ IsInjective(shared') /\ \A u \in Mains : IsInjective(own'[u])
        /\ \A d : d # c => /\ d \in Range(shared') <=> d \in Range(shared)
                           /\ \A u \in Mains : d \in Range(own'[u]) <=> d \in Range(own[u])
        /\ c \in Range(shared') <=> S = SharedQ
        /\ \A u \in Mains : c \in Range(own'[u]) <=> S = OwnQ(u)
    BY <1>k, <1>c, <1>s, Scheduled DEF TypeInv
  <2>2. \A d \in Contexts : d # c => Stays(d)
    BY <1>f, <2>1 DEF Stays
  <2>3. Goes(c, S)
    BY <1>k, <1>c, <1>f, <2>1, ReadySpots, Held DEF Goes, SpotsHold
  <2>4. QueuesRepeatNothing'
    BY <1>f, <2>1 DEF QueuesRepeatNothing
  <2> QED BY <1>k, <2>1, <2>2, <2>3, <2>4, KeptStays, KeptGoes
<1>r. /\ S # CondQ /\ \A v \in Workers : S # WaitQ(v)
      /\ \A u \in Mains : /\ S # NextOf(u)
                          /\ S = OwnQ(u) => u = t /\ (c \in Workers => Local(t))
      /\ S = SharedQ => c \in Workers /\ ~Local(t)
  BY <1>k, ReadySpots
<1> HIDE DEF S
<1>n. /\ \A s : s \in kept'[c] => s = S
      /\ kept'[c] # {} /\ kept'[w] = {}
      /\ \A u \in Mains : /\ u # t => kept'[active[u]] = kept[active[u]]
                          /\ u # c => kept'[u] = kept[u]
                          /\ kept'[DispatcherOf[u]] = kept[DispatcherOf[u]]
      /\ Live' = Live \cup {w} /\ \A d : Parked(d)' <=> Parked(d)
      /\ \A d \in Live : d \in Contexts
      /\ \A d : d \in Running' <=> d = w \/ (d \in Running /\ d # c)
  <2>1. Live' = Live \cup {w} /\ \A d : Parked(d)' <=> Parked(d)
    BY <1>f, <1>w DEF Live, Parked
  <2>2. \A d : d \in Running' <=> d = w \/ (d \in Running /\ d # c)
    <3>1. \A d : d \in Running <=> \E u \in Mains : active[u] = d
      BY RunningIs DEF TypeInv
    <3>2. \A d : d \in Running' <=> \E u \in Mains : active'[u] = d
      BY RunningNext DEF TypeInv
    <3> QED
      BY <1>f, <1>c, <1>w, <3>1, <3>2
  <2> QED
    BY <1>k, <1>c, <1>f, <1>w, <1>m, <2>1, <2>2 DEF Live, Contexts
<1>1. OneSpotEach'
  BY <1>m, <1>n DEF OneSpotEach
<1>2. KeptAreLive'
  BY <1>c, <1>m, <1>n DEF KeptAreLive
<1>3. RunningIsFree'
  BY <1>f, <1>n DEF RunningIsFree, Waits
<1>4. LiveAreSomewhere'
  BY <1>m, <1>n DEF LiveAreSomewhere
<1>5. WaitersAreKept'
  BY <1>f, <1>n DEF WaitersAreKept, Waits
<1>6. ActiveApart'
  BY <1>f, <1>w DEF ActiveApart
<1>7. OthersAreSaved'
  <2>1. ~saved[w]
    BY <1>f DEF TypeInv, OnlyMadeOnesRun
  <2> QED
    BY <1>f, <1>k, <1>n, <2>1 DEF OthersAreSaved
<1>8. EndedOnesLeave'
  BY <1>f, <1>w DEF EndedOnesLeave, Waits
<1>9. PinnedAtHome'
  BY <1>c, <1>f, <1>g, <1>k, <1>r DEF PinnedAtHome
<1>10. RunningAtHome'
  BY <1>c, <1>f, <1>g, <1>k, <1>w DEF RunningAtHome, Waits
<1>11. KeptAtHome'
  <2>1. ASSUME NEW d \in Contexts, d # c, kept[d] # {}
        PROVE  kept'[d] = kept[d] /\ home'[d] = home[d]
    BY <1>g, <1>m, <1>w, <2>1
  <2>2. /\ \A u \in Mains : OwnQ(u) \in kept'[c] \/ NextOf(u) \in kept'[c] => home'[c] = u
        /\ CondQ \notin kept'[c] /\ \A v \in Workers : WaitQ(v) \notin kept'[c]
        /\ SharedQ \in kept'[c] => c \in Workers
    BY <1>g, <1>n, <1>r, SpotsApart
  <2> QED
    BY <1>m, <1>k, <2>1, <2>2 DEF KeptAtHome
<1>12. UnmadeHaveNoHome'
  BY <1>f, <1>g, <1>k, <1>c DEF UnmadeHaveNoHome, TypeInv, OnlyMadeOnesRun
<1>13. ThreadsKeepOrder'
  BY <1>f, <1>k DEF ThreadsKeepOrder
<1>14. CondLockHeld'
  BY <1>f, <1>n DEF CondLockHeld, Waits
<1>15. MainIsParked'
  BY <1>c, <1>f, <1>g, <1>k, <1>n DEF MainIsParked, Waits
<1>16. SharersAttach'
  BY <1>f, <1>g, <1>k, <1>m, <1>n, <1>r DEF SharersAttach, Local
<1>17. AttachedAtHome'
  BY <1>f, <1>g, <1>k, <1>m, <1>n, <1>r, <1>w DEF AttachedAtHome, IsAsync
<1>18. LateJoiners'
  <2>1. \A v \in terminated : home'[v] = home[v]
    BY <1>c, <1>f, <1>g, <1>k
  <2>2. \A d \in Contexts : \A v \in terminated :
          WaitQ(v) \in kept'[d] => WaitQ(v) \in kept[d] /\ home'[d] = home[d]
    BY <1>g, <1>k, <1>m, <1>n, <1>r, <1>w
  <2> QED
    BY <1>f, <2>1, <2>2 DEF LateJoiners
<1>19. NoNull'
  BY <1>f DEF NoNull
<1>20. WithoutJoins'
  <2>1. \A u \in Mains : kept'[active'[u]] = {} \/ kept'[active'[u]] = kept[active[u]]
    BY <1>f, <1>n
  <2> QED
    BY <1>f, <2>1 DEF WithoutJoins
<1> QED
  BY <1>m, <1>1, <1>2, <1>3, <1>4, <1>5, <1>6, <1>7, <1>8, <1>9, <1>10, <1>11, <1>12,
     <1>13, <1>14, <1>15, <1>16, <1>17, <1>18, <1>19, <1>20

LEMMA AsyncKeeps ==
  ASSUME SharedInv, TypeInv', NEW t \in Mains, NEW c \in Fibers, NEW w \in Workers,
         Async(t, c, w)
  PROVE  SharedInv'
<1> USE DEF SharedInv
<1>k. /\ w \in Contexts /\ NoOne \notin Contexts /\ NoOne \notin Mains
      /\ \A u \in Mains : /\ u \in Contexts /\ u \in Pinned /\ u \notin Workers
                          /\ DispatcherOf[u] \in Contexts /\ DispatcherOf[u] \in Pinned
                          /\ active[u] \in Contexts
      /\ \A v \in Workers : v \in Contexts /\ v \notin Pinned
      /\ \A v \in launched : v \in Workers /\ v \in Contexts
      /\ \A v \in terminated : v \in launched
  BY Sorts DEF TypeInv
<1>w. /\ kept[w] = {} /\ w \notin terminated /\ w \notin Running
      /\ \A u \in Mains : active[u] # w /\ w \notin attached[u]
      /\ home[w] = NoOne
  BY UnmadeNowhere DEF Async
<1>f. /\ w \notin launched /\ launched' = launched \cup {w}
      /\ saved'[w] = TRUE /\ \A d \in Contexts : d # w => saved'[d] = saved[d]
      /\ \A v \in Workers : v # w => origin'[v] = origin[v]
      /\ shared' = Append(shared, w) /\ own' = own
      /\ home' = home /\ attached' = attached /\ policy' = policy
      /\ terminated' = terminated /\ cond' = cond
      /\ condLock' = condLock /\ waitList' = waitList /\ active' = active /\ at' = at
      /\ chosen' = chosen /\ back' = back /\ shutdown' = shutdown /\ halted' = halted
  BY <1>k DEF Async, waitVars, TypeInv, TypeOK
<1>m. /\ kept'[w] = {SharedQ} /\ \A d \in Contexts : d # w => kept'[d] = kept[d]
      /\ QueuesRepeatNothing'
  <2>1. w \notin Range(shared)
    BY <1>k, <1>w, Held DEF SpotsHold
  <2>2. Range(shared') = Range(shared) \cup {w} /\ IsInjective(shared')
    BY <1>f, <2>1, AppendApart DEF QueuesRepeatNothing, TypeInv, TypeOK
  <2>3. \A d \in Contexts : d # w => Stays(d)
    BY <1>f, <2>2 DEF Stays
  <2>4. Goes(w, SharedQ)
    BY <1>k, <1>w, <1>f, <2>2, SpotsApart, Held DEF Goes, SpotsHold
  <2>5. QueuesRepeatNothing'
    BY <1>f, <2>2 DEF QueuesRepeatNothing
  <2> QED BY <1>k, <2>3, <2>4, <2>5, KeptStays, KeptGoes, SpotsApart
<1>n. /\ \A s : s \in kept'[w] => s = SharedQ
      /\ kept'[w] # {}
      /\ \A u \in Mains : /\ kept'[active[u]] = kept[active[u]] /\ kept'[u] = kept[u]
                          /\ kept'[DispatcherOf[u]] = kept[DispatcherOf[u]]
      /\ Live' = Live \cup {w} /\ Running' = Running
      /\ \A d : Parked(d)' <=> Parked(d)
      /\ \A d \in Live : d \in Contexts
  <2>1. \A d \in Live : d \in Contexts
    BY <1>k DEF Live, Contexts
  <2> QED
    BY <1>k, <1>f, <1>w, <1>m, <2>1 DEF Live, Running, Parked
<1>r. \A u \in Mains : SharedQ # OwnQ(u) /\ SharedQ # NextOf(u)
  BY SpotsApart
<1>q. SharedQ # CondQ /\ \A v \in Workers : SharedQ # WaitQ(v)
  BY SpotsApart
<1>1. OneSpotEach'
  BY <1>m, <1>n DEF OneSpotEach
<1>2. KeptAreLive'
  BY <1>m, <1>n DEF KeptAreLive
<1>3. RunningIsFree'
  BY <1>f, <1>n DEF RunningIsFree, Waits
<1>4. LiveAreSomewhere'
  BY <1>m, <1>n DEF LiveAreSomewhere
<1>5. WaitersAreKept'
  BY <1>f, <1>n DEF WaitersAreKept, Waits
<1>6. ActiveApart'
  BY <1>f DEF ActiveApart
<1>7. OthersAreSaved'
  BY <1>f, <1>n, <1>w DEF OthersAreSaved
<1>8. EndedOnesLeave'
  BY <1>f DEF EndedOnesLeave, Waits
<1>9. PinnedAtHome'
  BY <1>f DEF PinnedAtHome
<1>10. RunningAtHome'
  BY <1>f DEF RunningAtHome, Waits
<1>11. KeptAtHome'
  <2>1. \A d \in Contexts : d # w => kept'[d] = kept[d]
    BY <1>m
  <2>2. /\ \A u \in Mains : OwnQ(u) \notin kept'[w] /\ NextOf(u) \notin kept'[w]
        /\ CondQ \notin kept'[w] /\ \A v \in Workers : WaitQ(v) \notin kept'[w]
    BY <1>n, <1>q, <1>r
  <2> QED
    BY <1>f, <2>1, <2>2 DEF KeptAtHome
<1>12. UnmadeHaveNoHome'
  BY <1>f DEF UnmadeHaveNoHome
<1>13. ThreadsKeepOrder'
  BY <1>f DEF ThreadsKeepOrder
<1>14. CondLockHeld'
  BY <1>f, <1>n DEF CondLockHeld, Waits
<1>15. MainIsParked'
  BY <1>f, <1>n DEF MainIsParked, Waits
<1>16. SharersAttach'
  BY <1>f, <1>k, <1>m, <1>n, <1>q, <1>r DEF SharersAttach, Local
<1>17. AttachedAtHome'
  BY <1>f, <1>k, <1>m, <1>w DEF AttachedAtHome, IsAsync
<1>18. LateJoiners'
  <2>1. \A d \in Contexts : \A v \in terminated :
          WaitQ(v) \in kept'[d] => WaitQ(v) \in kept[d]
    BY <1>k, <1>m, <1>n, <1>q
  <2> QED
    BY <1>f, <2>1 DEF LateJoiners
<1>19. NoNull'
  BY <1>f DEF NoNull
<1>20. WithoutJoins'
  BY <1>f, <1>n DEF WithoutJoins
<1> QED
  BY <1>m, <1>1, <1>2, <1>3, <1>4, <1>5, <1>6, <1>7, <1>8, <1>9, <1>10, <1>11, <1>12,
     <1>13, <1>14, <1>15, <1>16, <1>17, <1>18, <1>19, <1>20

\* A step that moves no context and changes the places of threads only: the
\* parts of SharedInv that it can not disturb.
LEMMA Unmoved ==
  ASSUME SharedInv, \A c \in Contexts : Stays(c),
         UNCHANGED <<shared, own, cond, waitList, active, saved, launched, home, origin,
                     policy, halted>>,
         terminated \subseteq terminated',
         \A w \in terminated' : w \in terminated \/ kept[w] = {}
  PROVE  /\ Running' = Running /\ \A c \in Live' : c \in Live /\ c \in Contexts
         /\ \A c \in Contexts : kept'[c] = kept[c]
         /\ \A t \in Mains : /\ kept'[t] = kept[t] /\ kept'[active[t]] = kept[active[t]]
                             /\ kept'[DispatcherOf[t]] = kept[DispatcherOf[t]]
         /\ OneSpotEach' /\ QueuesRepeatNothing' /\ KeptAreLive' /\ ActiveApart'
         /\ OthersAreSaved' /\ PinnedAtHome' /\ KeptAtHome' /\ UnmadeHaveNoHome' /\ NoNull'
<1> USE DEF SharedInv
<1>1. \A c \in Contexts : kept'[c] = kept[c]
  BY KeptStays
<1>2. \A t \in Mains : /\ kept'[t] = kept[t] /\ kept'[active[t]] = kept[active[t]]
                       /\ kept'[DispatcherOf[t]] = kept[DispatcherOf[t]]
  BY <1>1, Sorts DEF TypeInv
<1>r. Running' = Running /\ \A c \in Live' : c \in Live /\ c \in Contexts
  <2>1. \A c \in Live : c \in Contexts
    BY Sorts DEF TypeInv, Live, Contexts
  <2> QED BY <2>1 DEF Running, Live
<1>3. KeptAreLive' /\ OthersAreSaved'
  BY <1>1 DEF KeptAreLive, OthersAreSaved, Live, Running
<1>4. QueuesRepeatNothing' /\ OneSpotEach'
  BY <1>1 DEF QueuesRepeatNothing, OneSpotEach
<1>5. ActiveApart' /\ PinnedAtHome' /\ UnmadeHaveNoHome' /\ NoNull'
  BY DEF ActiveApart, PinnedAtHome, UnmadeHaveNoHome, NoNull
<1>6. KeptAtHome'
  BY <1>1 DEF KeptAtHome
<1> QED
  BY <1>1, <1>2, <1>r, <1>3, <1>4, <1>5, <1>6

LEMMA YieldKeeps ==
  ASSUME SharedInv, TypeInv', NEW t \in Mains, NEW c \in Fibers,
         Yield(t, c)
  PROVE  SharedInv'
<1> USE DEF SharedInv
<1>k. /\ NoOne \notin Contexts /\ NoOne \notin Mains
      /\ \A u \in Mains : /\ u \in Contexts /\ u \in Pinned /\ u \notin Workers
                          /\ DispatcherOf[u] \in Contexts /\ DispatcherOf[u] \in Pinned
                          /\ DispatcherOf[u] # u /\ DispatcherOf[u] \notin Fibers
                          /\ active[u] \in Contexts
      /\ \A v \in Workers : v \in Contexts /\ v \notin Pinned
      /\ \A v \in launched : v \in Workers /\ v \in Contexts
      /\ \A v \in terminated : v \in launched
  BY Sorts DEF TypeInv
<1>f. /\ at[t] = "code" /\ active[t] = c /\ home[c] = t
      /\ at'[t] = "pick" /\ back'[t] = c
      /\ attached'[t] = attached[t] \ {c}
      /\ \A u \in Mains : u # t => at'[u] = at[u] /\ back'[u] = back[u] /\ attached'[u] = attached[u]
      /\ UNCHANGED <<shared, own, home, policy, origin, launched, terminated, cond, condLock,
                     waitList, active, saved, chosen, shutdown, halted>>
  BY DEF Yield, InUserCode, Suspend, Goto, lifeVars, waitVars, TypeInv, TypeOK
<1>u. /\ Running' = Running /\ \A d \in Live' : d \in Live /\ d \in Contexts
      /\ \A d \in Contexts : kept'[d] = kept[d]
      /\ \A u \in Mains : /\ kept'[u] = kept[u] /\ kept'[active[u]] = kept[active[u]]
                          /\ kept'[DispatcherOf[u]] = kept[DispatcherOf[u]]
      /\ OneSpotEach' /\ QueuesRepeatNothing' /\ KeptAreLive' /\ ActiveApart'
      /\ OthersAreSaved' /\ PinnedAtHome' /\ KeptAtHome' /\ UnmadeHaveNoHome' /\ NoNull'
  <2>1. \A d \in Contexts : Stays(d)
    BY <1>f, <1>k DEF Stays
  <2> QED BY <1>f, <2>1, Unmoved
<1>c. kept[c] = {} /\ c # NoOne
  BY <1>f, <1>k DEF RunningIsFree, Waits
<1>1. RunningIsFree'
  BY <1>f, <1>k, <1>u, <1>c DEF RunningIsFree, Waits
<1>2. LiveAreSomewhere'
  <2>1. \A d : Parked(d) => Parked(d)'
    BY <1>f DEF Parked
  <2> QED BY <1>u, <2>1 DEF LiveAreSomewhere
<1>3. WaitersAreKept'
  BY <1>f, <1>k, <1>u, <1>c DEF WaitersAreKept, Waits
<1>4. EndedOnesLeave'
  BY <1>f, <1>k, <1>u DEF EndedOnesLeave, Waits
<1>5. RunningAtHome'
  BY <1>f, <1>k, <1>u, <1>c DEF RunningAtHome, Waits
<1>6. ThreadsKeepOrder'
  BY <1>f, <1>k, <1>u DEF ThreadsKeepOrder
<1>7. CondLockHeld'
  BY <1>f, <1>k, <1>u, <1>c DEF CondLockHeld, Waits
<1>8. MainIsParked'
  BY <1>f, <1>k, <1>u, <1>c DEF MainIsParked, Waits
<1>9. SharersAttach'
  BY <1>f, <1>k, <1>u, <1>c DEF SharersAttach, Local
<1>10. AttachedAtHome'
  BY <1>f, <1>k, <1>u DEF AttachedAtHome, IsAsync
<1>11. LateJoiners'
  BY <1>f, <1>k, <1>u DEF LateJoiners
<1>12. WithoutJoins'
  BY <1>f, <1>k, <1>u DEF WithoutJoins
<1> QED
  BY <1>u, <1>1, <1>2, <1>3, <1>4, <1>5, <1>6, <1>7, <1>8, <1>9, <1>10, <1>11, <1>12

LEMMA NotifyKeeps ==
  ASSUME SharedInv, TypeInv', NEW t \in Mains, NEW c \in Fibers, NEW how \in {"notifyOne", "notifyAll"},
         Notify(t, c, how)
  PROVE  SharedInv'
<1> USE DEF SharedInv
<1>k. /\ NoOne \notin Contexts /\ NoOne \notin Mains
      /\ \A u \in Mains : /\ u \in Contexts /\ u \in Pinned /\ u \notin Workers
                          /\ DispatcherOf[u] \in Contexts /\ DispatcherOf[u] \in Pinned
                          /\ DispatcherOf[u] # u /\ DispatcherOf[u] \notin Fibers
                          /\ active[u] \in Contexts
      /\ \A v \in Workers : v \in Contexts /\ v \notin Pinned
      /\ \A v \in launched : v \in Workers /\ v \in Contexts
      /\ \A v \in terminated : v \in launched
  BY Sorts DEF TypeInv
<1>f. /\ at[t] = "code" /\ active[t] = c /\ c \in Fibers /\ condLock = NoOne /\ cond # <<>>
      /\ at'[t] = how /\ how \in {"notifyOne", "notifyAll"} /\ condLock' = t
      /\ \A u \in Mains : u # t => at'[u] = at[u]
      /\ UNCHANGED <<shared, own, home, attached, policy, origin, launched, terminated, cond,
                     waitList, active, saved, chosen, back, shutdown, halted>>
  BY DEF Notify, InUserCode, Goto, queueVars, lifeVars, TypeInv, TypeOK
<1>u. /\ Running' = Running /\ \A d \in Live' : d \in Live /\ d \in Contexts
      /\ \A d \in Contexts : kept'[d] = kept[d]
      /\ \A u \in Mains : /\ kept'[u] = kept[u] /\ kept'[active[u]] = kept[active[u]]
                          /\ kept'[DispatcherOf[u]] = kept[DispatcherOf[u]]
      /\ OneSpotEach' /\ QueuesRepeatNothing' /\ KeptAreLive' /\ ActiveApart'
      /\ OthersAreSaved' /\ PinnedAtHome' /\ KeptAtHome' /\ UnmadeHaveNoHome' /\ NoNull'
  <2>1. \A d \in Contexts : Stays(d)
    BY <1>f, <1>k DEF Stays
  <2> QED BY <1>f, <2>1, Unmoved
<1>1. RunningIsFree'
  BY <1>f, <1>k, <1>u DEF RunningIsFree, Waits
<1>2. LiveAreSomewhere'
  <2>1. \A d : Parked(d) => Parked(d)'
    BY <1>f DEF Parked
  <2> QED BY <1>u, <2>1 DEF LiveAreSomewhere
<1>3. WaitersAreKept'
  BY <1>f, <1>k, <1>u DEF WaitersAreKept, Waits
<1>4. EndedOnesLeave'
  BY <1>f, <1>k, <1>u DEF EndedOnesLeave, Waits
<1>5. RunningAtHome'
  BY <1>f, <1>k, <1>u DEF RunningAtHome, Waits
<1>6. ThreadsKeepOrder'
  BY <1>f, <1>k, <1>u DEF ThreadsKeepOrder
<1>7. CondLockHeld'
  BY <1>f, <1>k, <1>u DEF CondLockHeld, Waits
<1>8. MainIsParked'
  BY <1>f, <1>k, <1>u DEF MainIsParked, Waits
<1>9. SharersAttach'
  BY <1>f, <1>k, <1>u DEF SharersAttach, Local
<1>10. AttachedAtHome'
  BY <1>f, <1>k, <1>u DEF AttachedAtHome, IsAsync
<1>11. LateJoiners'
  BY <1>f, <1>k, <1>u DEF LateJoiners
<1>12. WithoutJoins'
  BY <1>f, <1>k, <1>u DEF WithoutJoins
<1> QED
  BY <1>u, <1>1, <1>2, <1>3, <1>4, <1>5, <1>6, <1>7, <1>8, <1>9, <1>10, <1>11, <1>12

LEMMA JoinKeeps ==
  ASSUME SharedInv, TypeInv', NEW t \in Mains, NEW c \in Fibers, NEW w \in Workers,
         Join(t, c, w)
  PROVE  SharedInv'
<1> USE DEF SharedInv
<1>k. /\ NoOne \notin Contexts /\ NoOne \notin Mains
      /\ \A u \in Mains : /\ u \in Contexts /\ u \in Pinned /\ u \notin Workers
                          /\ DispatcherOf[u] \in Contexts /\ DispatcherOf[u] \in Pinned
                          /\ DispatcherOf[u] # u /\ DispatcherOf[u] \notin Fibers
                          /\ active[u] \in Contexts
      /\ \A v \in Workers : v \in Contexts /\ v \notin Pinned
      /\ \A v \in launched : v \in Workers /\ v \in Contexts
      /\ \A v \in terminated : v \in launched
  BY Sorts DEF TypeInv
<1>f. /\ at[t] = "code" /\ active[t] = c /\ c \in Fibers /\ "join" \in Calls[c] /\ w \notin terminated
      /\ at'[t] = "join" /\ chosen'[t] = w
      /\ \A u \in Mains : u # t => at'[u] = at[u] /\ chosen'[u] = chosen[u]
      /\ UNCHANGED <<shared, own, home, attached, policy, origin, launched, terminated, cond,
                     condLock, waitList, active, saved, back, shutdown, halted>>
  BY DEF Join, InUserCode, Goto, queueVars, lifeVars, waitVars, TypeInv, TypeOK
<1>u. /\ Running' = Running /\ \A d \in Live' : d \in Live /\ d \in Contexts
      /\ \A d \in Contexts : kept'[d] = kept[d]
      /\ \A u \in Mains : /\ kept'[u] = kept[u] /\ kept'[active[u]] = kept[active[u]]
                          /\ kept'[DispatcherOf[u]] = kept[DispatcherOf[u]]
      /\ OneSpotEach' /\ QueuesRepeatNothing' /\ KeptAreLive' /\ ActiveApart'
      /\ OthersAreSaved' /\ PinnedAtHome' /\ KeptAtHome' /\ UnmadeHaveNoHome' /\ NoNull'
  <2>1. \A d \in Contexts : Stays(d)
    BY <1>f, <1>k DEF Stays
  <2> QED BY <1>f, <2>1, Unmoved
<1>1. RunningIsFree'
  BY <1>f, <1>k, <1>u DEF RunningIsFree, Waits
<1>2. LiveAreSomewhere'
  <2>1. \A d : Parked(d) => Parked(d)'
    BY <1>f DEF Parked
  <2> QED BY <1>u, <2>1 DEF LiveAreSomewhere
<1>3. WaitersAreKept'
  BY <1>f, <1>k, <1>u DEF WaitersAreKept, Waits
<1>4. EndedOnesLeave'
  BY <1>f, <1>k, <1>u DEF EndedOnesLeave, Waits
<1>5. RunningAtHome'
  BY <1>f, <1>k, <1>u DEF RunningAtHome, Waits
<1>6. ThreadsKeepOrder'
  BY <1>f, <1>k, <1>u DEF ThreadsKeepOrder
<1>7. CondLockHeld'
  BY <1>f, <1>k, <1>u DEF CondLockHeld, Waits
<1>8. MainIsParked'
  BY <1>f, <1>k, <1>u DEF MainIsParked, Waits
<1>9. SharersAttach'
  BY <1>f, <1>k, <1>u DEF SharersAttach, Local
<1>10. AttachedAtHome'
  BY <1>f, <1>k, <1>u DEF AttachedAtHome, IsAsync
<1>11. LateJoiners'
  BY <1>f, <1>k, <1>u DEF LateJoiners
<1>12. WithoutJoins'
  BY <1>f DEF WithoutJoins, NoJoins
<1> QED
  BY <1>u, <1>1, <1>2, <1>3, <1>4, <1>5, <1>6, <1>7, <1>8, <1>9, <1>10, <1>11, <1>12

LEMMA EndFiberKeeps ==
  ASSUME SharedInv, TypeInv', NEW t \in Mains, NEW w \in Workers,
         EndFiber(t, w)
  PROVE  SharedInv'
<1> USE DEF SharedInv
<1>k. /\ NoOne \notin Contexts /\ NoOne \notin Mains
      /\ \A u \in Mains : /\ u \in Contexts /\ u \in Pinned /\ u \notin Workers
                          /\ DispatcherOf[u] \in Contexts /\ DispatcherOf[u] \in Pinned
                          /\ DispatcherOf[u] # u /\ DispatcherOf[u] \notin Fibers
                          /\ active[u] \in Contexts
      /\ \A v \in Workers : v \in Contexts /\ v \notin Pinned
      /\ \A v \in launched : v \in Workers /\ v \in Contexts
      /\ \A v \in terminated : v \in launched
  BY Sorts DEF TypeInv
<1>f. /\ at[t] = "code" /\ active[t] = w /\ w \in Workers
      /\ at'[t] = "ending" /\ terminated' = terminated \cup {w}
      /\ \A u \in Mains : u # t => at'[u] = at[u]
      /\ UNCHANGED <<shared, own, home, attached, policy, origin, launched, cond, condLock,
                     waitList, active, saved, chosen, back, shutdown, halted>>
  BY DEF EndFiber, InUserCode, Goto, queueVars, waitVars, TypeInv, TypeOK
<1>c. /\ kept[w] = {} /\ home[w] = t /\ \A u \in Mains : active[u] = w => u = t
  BY <1>f DEF RunningIsFree, RunningAtHome, ActiveApart, Waits
<1>u. /\ Running' = Running /\ \A d \in Live' : d \in Live /\ d \in Contexts
      /\ \A d \in Contexts : kept'[d] = kept[d]
      /\ \A u \in Mains : /\ kept'[u] = kept[u] /\ kept'[active[u]] = kept[active[u]]
                          /\ kept'[DispatcherOf[u]] = kept[DispatcherOf[u]]
      /\ OneSpotEach' /\ QueuesRepeatNothing' /\ KeptAreLive' /\ ActiveApart'
      /\ OthersAreSaved' /\ PinnedAtHome' /\ KeptAtHome' /\ UnmadeHaveNoHome' /\ NoNull'
  <2>1. \A d \in Contexts : Stays(d)
    BY <1>f, <1>k DEF Stays
  <2> QED BY <1>f, <2>1, Unmoved, <1>c
<1>1. RunningIsFree'
  BY <1>f, <1>k, <1>u DEF RunningIsFree, Waits
<1>2. LiveAreSomewhere'
  <2>1. \A d : Parked(d) => Parked(d)'
    BY <1>f DEF Parked
  <2> QED BY <1>u, <2>1 DEF LiveAreSomewhere
<1>3. WaitersAreKept'
  BY <1>f, <1>k, <1>u DEF WaitersAreKept, Waits
<1>4. EndedOnesLeave'
  BY <1>f, <1>k, <1>u, <1>c DEF EndedOnesLeave, Waits
<1>5. RunningAtHome'
  BY <1>f, <1>k, <1>u, <1>c DEF RunningAtHome, Waits
<1>6. ThreadsKeepOrder'
  BY <1>f, <1>k, <1>u DEF ThreadsKeepOrder
<1>7. CondLockHeld'
  BY <1>f, <1>k, <1>u DEF CondLockHeld, Waits
<1>8. MainIsParked'
  BY <1>f, <1>k, <1>u DEF MainIsParked, Waits
<1>9. SharersAttach'
  BY <1>f, <1>k, <1>u DEF SharersAttach, Local
<1>10. AttachedAtHome'
  BY <1>f, <1>k, <1>u DEF AttachedAtHome, IsAsync
<1>11. LateJoiners'
  BY <1>f, <1>k, <1>u, <1>c DEF LateJoiners
<1>12. WithoutJoins'
  BY <1>f, <1>k, <1>u DEF WithoutJoins
<1> QED
  BY <1>u, <1>1, <1>2, <1>3, <1>4, <1>5, <1>6, <1>7, <1>8, <1>9, <1>10, <1>11, <1>12

LEMMA TerminateKeeps ==
  ASSUME SharedInv, TypeInv', NEW t \in Mains,
         Terminate(t)
  PROVE  SharedInv'
<1> USE DEF SharedInv
<1>k. /\ NoOne \notin Contexts /\ NoOne \notin Mains
      /\ \A u \in Mains : /\ u \in Contexts /\ u \in Pinned /\ u \notin Workers
                          /\ DispatcherOf[u] \in Contexts /\ DispatcherOf[u] \in Pinned
                          /\ DispatcherOf[u] # u /\ DispatcherOf[u] \notin Fibers
                          /\ active[u] \in Contexts
      /\ \A v \in Workers : v \in Contexts /\ v \notin Pinned
      /\ \A v \in launched : v \in Workers /\ v \in Contexts
      /\ \A v \in terminated : v \in launched
  BY Sorts DEF TypeInv
<1>f. /\ at[t] = "leaving" /\ home[active[t]] = t
      /\ at'[t] = "pick" /\ back'[t] = NoOne
      /\ attached'[t] = attached[t] \ {active[t]}
      /\ \A u \in Mains : u # t => at'[u] = at[u] /\ back'[u] = back[u] /\ attached'[u] = attached[u]
      /\ UNCHANGED <<shared, own, home, policy, origin, launched, terminated, cond, condLock,
                     waitList, active, saved, chosen, shutdown, halted>>
  BY DEF Terminate, Suspend, Goto, lifeVars, waitVars, TypeInv, TypeOK
<1>u. /\ Running' = Running /\ \A d \in Live' : d \in Live /\ d \in Contexts
      /\ \A d \in Contexts : kept'[d] = kept[d]
      /\ \A u \in Mains : /\ kept'[u] = kept[u] /\ kept'[active[u]] = kept[active[u]]
                          /\ kept'[DispatcherOf[u]] = kept[DispatcherOf[u]]
      /\ OneSpotEach' /\ QueuesRepeatNothing' /\ KeptAreLive' /\ ActiveApart'
      /\ OthersAreSaved' /\ PinnedAtHome' /\ KeptAtHome' /\ UnmadeHaveNoHome' /\ NoNull'
  <2>1. \A d \in Contexts : Stays(d)
    BY <1>f, <1>k DEF Stays
  <2> QED BY <1>f, <2>1, Unmoved
<1>c. kept[active[t]] = {} /\ active[t] \in terminated /\ active[t] \notin Pinned
  BY <1>f, <1>k DEF RunningIsFree, TypeInv, ThreadsKnowWhom, Waits
<1>1. RunningIsFree'
  BY <1>f, <1>k, <1>u, <1>c DEF RunningIsFree, Waits
<1>2. LiveAreSomewhere'
  <2>1. \A d : Parked(d) => Parked(d)'
    BY <1>f DEF Parked
  <2> QED BY <1>u, <2>1 DEF LiveAreSomewhere
<1>3. WaitersAreKept'
  BY <1>f, <1>k, <1>u, <1>c DEF WaitersAreKept, Waits
<1>4. EndedOnesLeave'
  BY <1>f, <1>k, <1>u DEF EndedOnesLeave, Waits
<1>5. RunningAtHome'
  BY <1>f, <1>k, <1>u, <1>c DEF RunningAtHome, Waits
<1>6. ThreadsKeepOrder'
  BY <1>f, <1>k, <1>u DEF ThreadsKeepOrder
<1>7. CondLockHeld'
  BY <1>f, <1>k, <1>u, <1>c DEF CondLockHeld, Waits
<1>8. MainIsParked'
  BY <1>f, <1>k, <1>u, <1>c DEF MainIsParked, Waits
<1>9. SharersAttach'
  BY <1>f, <1>k, <1>u, <1>c DEF SharersAttach, Local
<1>10. AttachedAtHome'
  BY <1>f, <1>k, <1>u DEF AttachedAtHome, IsAsync
<1>11. LateJoiners'
  BY <1>f, <1>k, <1>u DEF LateJoiners
<1>12. WithoutJoins'
  BY <1>f, <1>k, <1>u DEF WithoutJoins
<1> QED
  BY <1>u, <1>1, <1>2, <1>3, <1>4, <1>5, <1>6, <1>7, <1>8, <1>9, <1>10, <1>11, <1>12

LEMMA ShutDownKeeps ==
  ASSUME SharedInv, TypeInv', NEW t \in Mains,
         ShutDown(t)
  PROVE  SharedInv'
<1> USE DEF SharedInv
<1>k. /\ NoOne \notin Contexts /\ NoOne \notin Mains
      /\ \A u \in Mains : /\ u \in Contexts /\ u \in Pinned /\ u \notin Workers
                          /\ DispatcherOf[u] \in Contexts /\ DispatcherOf[u] \in Pinned
                          /\ DispatcherOf[u] # u /\ DispatcherOf[u] \notin Fibers
                          /\ active[u] \in Contexts
      /\ \A v \in Workers : v \in Contexts /\ v \notin Pinned
      /\ \A v \in launched : v \in Workers /\ v \in Contexts
      /\ \A v \in terminated : v \in launched
  BY Sorts DEF TypeInv
<1>f. /\ at[t] = "code" /\ active[t] = t
      /\ at'[t] = "pick" /\ back'[t] = NoOne /\ shutdown'[t] = TRUE
      /\ \A u \in Mains : u # t => at'[u] = at[u] /\ back'[u] = back[u] /\ shutdown'[u] = shutdown[u]
      /\ UNCHANGED <<shared, own, home, attached, policy, origin, launched, terminated, cond,
                     condLock, waitList, active, saved, chosen, halted>>
  BY DEF ShutDown, InUserCode, Suspend, Goto, queueVars, lifeVars, waitVars, TypeInv, TypeOK
<1>u. /\ Running' = Running /\ \A d \in Live' : d \in Live /\ d \in Contexts
      /\ \A d \in Contexts : kept'[d] = kept[d]
      /\ \A u \in Mains : /\ kept'[u] = kept[u] /\ kept'[active[u]] = kept[active[u]]
                          /\ kept'[DispatcherOf[u]] = kept[DispatcherOf[u]]
      /\ OneSpotEach' /\ QueuesRepeatNothing' /\ KeptAreLive' /\ ActiveApart'
      /\ OthersAreSaved' /\ PinnedAtHome' /\ KeptAtHome' /\ UnmadeHaveNoHome' /\ NoNull'
  <2>1. \A d \in Contexts : Stays(d)
    BY <1>f, <1>k DEF Stays
  <2> QED BY <1>f, <2>1, Unmoved
<1>c. kept[t] = {}
  BY <1>f DEF RunningIsFree, Waits
<1>1. RunningIsFree'
  BY <1>f, <1>k, <1>u DEF RunningIsFree, Waits
<1>2. LiveAreSomewhere'
  <2>1. \A d : Parked(d) => Parked(d)'
    BY <1>f DEF Parked
  <2> QED BY <1>u, <2>1 DEF LiveAreSomewhere
<1>3. WaitersAreKept'
  BY <1>f, <1>k, <1>u, <1>c DEF WaitersAreKept, Waits
<1>4. EndedOnesLeave'
  BY <1>f, <1>k, <1>u DEF EndedOnesLeave, Waits
<1>5. RunningAtHome'
  BY <1>f, <1>k, <1>u DEF RunningAtHome, Waits
<1>6. ThreadsKeepOrder'
  BY <1>f, <1>k, <1>u DEF ThreadsKeepOrder
<1>7. CondLockHeld'
  BY <1>f, <1>k, <1>u, <1>c DEF CondLockHeld, Waits
<1>8. MainIsParked'
  BY <1>f, <1>k, <1>u, <1>c DEF MainIsParked, Waits
<1>9. SharersAttach'
  BY <1>f, <1>k, <1>u DEF SharersAttach, Local
<1>10. AttachedAtHome'
  BY <1>f, <1>k, <1>u DEF AttachedAtHome, IsAsync
<1>11. LateJoiners'
  BY <1>f, <1>k, <1>u DEF LateJoiners
<1>12. WithoutJoins'
  BY <1>f, <1>k, <1>u DEF WithoutJoins
<1> QED
  BY <1>u, <1>1, <1>2, <1>3, <1>4, <1>5, <1>6, <1>7, <1>8, <1>9, <1>10, <1>11, <1>12

LEMMA FindNothingKeeps ==
  ASSUME SharedInv, TypeInv', NEW t \in Mains, NEW sleeps,
         at[t] = "pick", FindNothing(t, sleeps), UNCHANGED NotPicked
  PROVE  SharedInv'
<1> USE DEF SharedInv
<1>k. /\ NoOne \notin Contexts /\ NoOne \notin Mains
      /\ \A u \in Mains : /\ u \in Contexts /\ u \in Pinned /\ u \notin Workers
                          /\ DispatcherOf[u] \in Contexts /\ DispatcherOf[u] \in Pinned
                          /\ DispatcherOf[u] # u /\ DispatcherOf[u] \notin Fibers
                          /\ active[u] \in Contexts
      /\ \A v \in Workers : v \in Contexts /\ v \notin Pinned
      /\ \A v \in launched : v \in Workers /\ v \in Contexts
      /\ \A v \in terminated : v \in launched
  BY Sorts DEF TypeInv
<1>f. /\ at[t] = "pick" /\ active[t] \in Dispatchers
      /\ at'[t] \in {"idle", "loop"}
      /\ \A u \in Mains : u # t => at'[u] = at[u]
      /\ UNCHANGED <<shared, own, home, attached, policy, origin, launched, terminated, cond,
                     condLock, waitList, active, saved, chosen, back, shutdown, halted>>
  BY DEF FindNothing, Goto, NotPicked, queueVars, lifeVars, waitVars, TypeInv, TypeOK
<1>u. /\ Running' = Running /\ \A d \in Live' : d \in Live /\ d \in Contexts
      /\ \A d \in Contexts : kept'[d] = kept[d]
      /\ \A u \in Mains : /\ kept'[u] = kept[u] /\ kept'[active[u]] = kept[active[u]]
                          /\ kept'[DispatcherOf[u]] = kept[DispatcherOf[u]]
      /\ OneSpotEach' /\ QueuesRepeatNothing' /\ KeptAreLive' /\ ActiveApart'
      /\ OthersAreSaved' /\ PinnedAtHome' /\ KeptAtHome' /\ UnmadeHaveNoHome' /\ NoNull'
  <2>1. \A d \in Contexts : Stays(d)
    BY <1>f, <1>k DEF Stays
  <2> QED BY <1>f, <2>1, Unmoved
<1>c. active[t] = DispatcherOf[t] /\ kept[active[t]] = {}
  BY <1>f, Kinds DEF RunningIsFree, RunningAtHome, PinnedAtHome, Pinned
<1>1. RunningIsFree'
  BY <1>f, <1>k, <1>u, <1>c DEF RunningIsFree, Waits
<1>2. LiveAreSomewhere'
  <2>1. \A d : Parked(d) => Parked(d)'
    BY <1>f DEF Parked
  <2> QED BY <1>u, <2>1 DEF LiveAreSomewhere
<1>3. WaitersAreKept'
  BY <1>f, <1>k, <1>u, <1>c DEF WaitersAreKept, Waits
<1>4. EndedOnesLeave'
  BY <1>f, <1>k, <1>u, <1>c DEF EndedOnesLeave, Waits
<1>5. RunningAtHome'
  BY <1>f, <1>k, <1>u, <1>c DEF RunningAtHome, Waits
<1>6. ThreadsKeepOrder'
  BY <1>f, <1>k, <1>u, <1>c DEF ThreadsKeepOrder
<1>7. CondLockHeld'
  BY <1>f, <1>k, <1>u, <1>c DEF CondLockHeld, Waits
<1>8. MainIsParked'
  BY <1>f, <1>k, <1>u, <1>c DEF MainIsParked, Waits
<1>9. SharersAttach'
  BY <1>f, <1>k, <1>u, <1>c DEF SharersAttach, Local
<1>10. AttachedAtHome'
  BY <1>f, <1>k, <1>u DEF AttachedAtHome, IsAsync
<1>11. LateJoiners'
  BY <1>f, <1>k, <1>u DEF LateJoiners
<1>12. WithoutJoins'
  BY <1>f, <1>k, <1>u DEF WithoutJoins
<1> QED
  BY <1>u, <1>1, <1>2, <1>3, <1>4, <1>5, <1>6, <1>7, <1>8, <1>9, <1>10, <1>11, <1>12

LEMMA TurnKeeps ==
  ASSUME SharedInv, TypeInv', NEW t \in Mains,
         DispatchTurn(t), ~(shutdown[t] /\ attached[t] = {})
  PROVE  SharedInv'
<1> USE DEF SharedInv
<1>k. /\ NoOne \notin Contexts /\ NoOne \notin Mains
      /\ \A u \in Mains : /\ u \in Contexts /\ u \in Pinned /\ u \notin Workers
                          /\ DispatcherOf[u] \in Contexts /\ DispatcherOf[u] \in Pinned
                          /\ DispatcherOf[u] # u /\ DispatcherOf[u] \notin Fibers
                          /\ active[u] \in Contexts
      /\ \A v \in Workers : v \in Contexts /\ v \notin Pinned
      /\ \A v \in launched : v \in Workers /\ v \in Contexts
      /\ \A v \in terminated : v \in launched
  BY Sorts DEF TypeInv
<1>f. /\ at[t] = "loop" /\ at'[t] = "pick" /\ chosen'[t] = NoOne /\ back'[t] = active[t]
      /\ \A u \in Mains : u # t => at'[u] = at[u] /\ back'[u] = back[u] /\ chosen'[u] = chosen[u]
      /\ UNCHANGED <<shared, own, home, attached, policy, origin, launched, terminated, cond,
                     condLock, waitList, active, saved, shutdown, halted>>
  BY DEF DispatchTurn, Goto, queueVars, lifeVars, waitVars, TypeInv, TypeOK
<1>u. /\ Running' = Running /\ \A d \in Live' : d \in Live /\ d \in Contexts
      /\ \A d \in Contexts : kept'[d] = kept[d]
      /\ \A u \in Mains : /\ kept'[u] = kept[u] /\ kept'[active[u]] = kept[active[u]]
                          /\ kept'[DispatcherOf[u]] = kept[DispatcherOf[u]]
      /\ OneSpotEach' /\ QueuesRepeatNothing' /\ KeptAreLive' /\ ActiveApart'
      /\ OthersAreSaved' /\ PinnedAtHome' /\ KeptAtHome' /\ UnmadeHaveNoHome' /\ NoNull'
  <2>1. \A d \in Contexts : Stays(d)
    BY <1>f, <1>k DEF Stays
  <2> QED BY <1>f, <2>1, Unmoved
<1>c. active[t] = DispatcherOf[t] /\ kept[active[t]] = {} /\ active[t] # NoOne
  BY <1>f, <1>k DEF RunningIsFree, ThreadsKeepOrder, Waits
<1>1. RunningIsFree'
  BY <1>f, <1>k, <1>u, <1>c DEF RunningIsFree, Waits
<1>2. LiveAreSomewhere'
  <2>1. \A d : Parked(d) => Parked(d)'
    BY <1>f DEF Parked
  <2> QED BY <1>u, <2>1 DEF LiveAreSomewhere
<1>3. WaitersAreKept'
  BY <1>f, <1>k, <1>u, <1>c DEF WaitersAreKept, Waits
<1>4. EndedOnesLeave'
  BY <1>f, <1>k, <1>u, <1>c DEF EndedOnesLeave, Waits
<1>5. RunningAtHome'
  BY <1>f, <1>k, <1>u, <1>c DEF RunningAtHome, Waits
<1>6. ThreadsKeepOrder'
  BY <1>f, <1>k, <1>u, <1>c DEF ThreadsKeepOrder
<1>7. CondLockHeld'
  BY <1>f, <1>k, <1>u, <1>c DEF CondLockHeld, Waits
<1>8. MainIsParked'
  BY <1>f, <1>k, <1>u, <1>c DEF MainIsParked, Waits
<1>9. SharersAttach'
  BY <1>f, <1>k, <1>u, <1>c DEF SharersAttach, Local
<1>10. AttachedAtHome'
  BY <1>f, <1>k, <1>u DEF AttachedAtHome, IsAsync
<1>11. LateJoiners'
  BY <1>f, <1>k, <1>u DEF LateJoiners
<1>12. WithoutJoins'
  BY <1>f, <1>k, <1>u DEF WithoutJoins
<1> QED
  BY <1>u, <1>1, <1>2, <1>3, <1>4, <1>5, <1>6, <1>7, <1>8, <1>9, <1>10, <1>11, <1>12

\* A step that moves one context only: the parts of SharedInv that follow
\* from that.
LEMMA Moved ==
  ASSUME SharedInv, NEW m \in Live, NEW s \in Spots, Goes(m, s),
         \A c \in Contexts : c # m => Stays(c),
         UNCHANGED <<launched, terminated>>
  PROVE  /\ kept'[m] = {s} /\ \A c \in Contexts : c # m => kept'[c] = kept[c]
         /\ Live' = Live /\ \A c \in Live : c \in Contexts
         /\ OneSpotEach' /\ KeptAreLive'
<1> USE DEF SharedInv
<1>1. \A c \in Live : c \in Contexts
  BY Sorts DEF TypeInv, Live, Contexts
<1>2. kept'[m] = {s} /\ \A c \in Contexts : c # m => kept'[c] = kept[c]
  BY <1>1, KeptStays, KeptGoes
<1>3. Live' = Live
  BY DEF Live
<1>4. OneSpotEach'
  <2>1. ASSUME NEW c \in Contexts, NEW r \in kept'[c], NEW q \in kept'[c]  PROVE r = q
    BY <1>2 DEF OneSpotEach
  <2> QED BY <2>1 DEF OneSpotEach
<1>5. KeptAreLive'
  BY <1>2, <1>3 DEF KeptAreLive
<1> QED
  BY <1>1, <1>2, <1>3, <1>4, <1>5

LEMMA CondWaitKeeps ==
  ASSUME SharedInv, TypeInv', NEW t \in Mains, NEW c \in Fibers,
         CondWait(t, c)
  PROVE  SharedInv'
<1> USE DEF SharedInv
<1>k. /\ c \in Contexts /\ c \in Fibers /\ NoOne \notin Contexts /\ NoOne \notin Mains
      /\ \A u \in Mains : /\ u \in Contexts /\ u \in Pinned /\ u \notin Workers
                          /\ DispatcherOf[u] \in Contexts /\ DispatcherOf[u] \in Pinned
                          /\ DispatcherOf[u] # c /\ active[u] \in Contexts
      /\ \A v \in Workers : v \in Contexts /\ v \notin Pinned
      /\ \A v \in launched : v \in Workers /\ v \in Contexts
      /\ \A v \in terminated : v \in launched
  BY Sorts DEF TypeInv
<1>f. /\ at[t] = "code" /\ active[t] = c /\ condLock = NoOne
      /\ cond' = Append(cond, c) /\ condLock' = t
      /\ at'[t] = "pick" /\ back'[t] = NoOne
      /\ \A u \in Mains : u # t => at'[u] = at[u] /\ back'[u] = back[u]
      /\ UNCHANGED <<shared, own, home, attached, policy, origin, launched, terminated,
                     waitList, active, saved, chosen, shutdown, halted>>
  BY DEF CondWait, InUserCode, Suspend, Goto, queueVars, lifeVars, TypeInv, TypeOK
<1>c. /\ kept[c] = {} /\ c \in Live /\ home[c] = t
      /\ \A u \in Mains : active[u] = c => u = t
      /\ \A u \in Mains : u = c => u = t /\ ~shutdown[u]
  <2>1. kept[c] = {} /\ c \notin terminated
    BY <1>f DEF RunningIsFree, EndedOnesLeave, Waits
  <2>2. c \in Live
    BY <1>f, <2>1 DEF Live, Pinned, Fibers, TypeInv, OnlyMadeOnesRun
  <2>3. home[c] = t
    BY <1>f DEF RunningAtHome, Waits
  <2>4. \A u \in Mains : u = c => u = t
    BY <2>3 DEF PinnedAtHome
  <2> QED
    BY <1>f, <2>1, <2>2, <2>3, <2>4 DEF ActiveApart, MainIsParked, Waits
<1>m. /\ kept'[c] = {CondQ} /\ \A d \in Contexts : d # c => kept'[d] = kept[d]
      /\ Live' = Live /\ \A d \in Live : d \in Contexts
      /\ OneSpotEach' /\ KeptAreLive' /\ QueuesRepeatNothing'
  <2>1. c \notin Range(cond)
    BY <1>k, <1>c, Held DEF SpotsHold
  <2>2. Range(cond') = Range(cond) \cup {c} /\ IsInjective(cond')
    BY <1>f, <2>1, AppendApart DEF QueuesRepeatNothing, TypeInv, TypeOK
  <2>3. \A d \in Contexts : d # c => Stays(d)
    BY <1>f, <2>2 DEF Stays
  <2>4. Goes(c, CondQ)
    BY <1>k, <1>c, <1>f, <2>2, SpotsApart, Held DEF Goes, SpotsHold
  <2>5. QueuesRepeatNothing'
    BY <1>f, <2>2 DEF QueuesRepeatNothing
  <2> QED BY <1>c, <1>f, <2>3, <2>4, <2>5, Moved, SpotsApart
<1>n. /\ \A s : s \in kept'[c] => s = CondQ
      /\ CondQ \in kept'[c]
      /\ \A u \in Mains : /\ u # t => kept'[active[u]] = kept[active[u]]
                          /\ u # c => kept'[u] = kept[u]
                          /\ kept'[DispatcherOf[u]] = kept[DispatcherOf[u]]
      /\ Running' = Running /\ \A d : Parked(d) => Parked(d)'
  BY <1>k, <1>c, <1>f, <1>m DEF Running, Parked
<1>r. /\ \A u \in Mains : CondQ # OwnQ(u) /\ CondQ # NextOf(u)
      /\ SharedQ # CondQ /\ \A v \in Workers : CondQ # WaitQ(v)
  BY SpotsApart
<1>1. RunningIsFree'
  BY <1>f, <1>k, <1>n DEF RunningIsFree, Waits
<1>2. LiveAreSomewhere'
  BY <1>m, <1>n DEF LiveAreSomewhere
<1>3. WaitersAreKept'
  BY <1>f, <1>n DEF WaitersAreKept, Waits
<1>4. ActiveApart' /\ PinnedAtHome' /\ UnmadeHaveNoHome' /\ NoNull'
  BY <1>f DEF ActiveApart, PinnedAtHome, UnmadeHaveNoHome, NoNull
<1>5. OthersAreSaved'
  BY <1>f, <1>m, <1>n DEF OthersAreSaved
<1>6. EndedOnesLeave'
  BY <1>f DEF EndedOnesLeave, Waits
<1>7. RunningAtHome'
  BY <1>f, <1>c DEF RunningAtHome, Waits
<1>8. KeptAtHome'
  BY <1>c, <1>f, <1>k, <1>m, <1>n, <1>r DEF KeptAtHome
<1>9. ThreadsKeepOrder'
  BY <1>f DEF ThreadsKeepOrder
<1>10. CondLockHeld'
  BY <1>f, <1>k, <1>n DEF CondLockHeld, Waits
<1>11. MainIsParked'
  BY <1>c, <1>f, <1>n DEF MainIsParked, Waits
<1>12. SharersAttach'
  BY <1>c, <1>f, <1>k, <1>m, <1>n, <1>r DEF SharersAttach, Local
<1>13. AttachedAtHome'
  BY <1>f, <1>k, <1>m, <1>n, <1>r DEF AttachedAtHome, IsAsync
<1>14. LateJoiners'
  <2>1. \A d \in Contexts : \A v \in terminated :
          WaitQ(v) \in kept'[d] => WaitQ(v) \in kept[d]
    BY <1>k, <1>m, <1>n, <1>r
  <2> QED
    BY <1>f, <2>1 DEF LateJoiners
<1>15. WithoutJoins'
  BY <1>f, <1>n DEF WithoutJoins
<1> QED
  BY <1>m, <1>1, <1>2, <1>3, <1>4, <1>5, <1>6, <1>7, <1>8, <1>9, <1>10, <1>11, <1>12,
     <1>13, <1>14, <1>15

LEMMA JoinWaitKeeps ==
  ASSUME SharedInv, TypeInv', NEW t \in Mains, JoinWait(t)
  PROVE  SharedInv'
<1> USE DEF SharedInv
<1> DEFINE a == active[t]
           w == chosen[t]
           S == WaitQ(w)
<1>k. /\ NoOne \notin Contexts /\ NoOne \notin Mains
      /\ \A u \in Mains : /\ u \in Contexts /\ u \in Pinned /\ u \notin Workers
                          /\ DispatcherOf[u] \in Contexts /\ DispatcherOf[u] \in Pinned
                          /\ DispatcherOf[u] \notin Fibers /\ active[u] \in Contexts
      /\ \A v \in Workers : v \in Contexts /\ v \notin Pinned
      /\ \A v \in launched : v \in Workers /\ v \in Contexts
      /\ \A v \in terminated : v \in launched
  BY Sorts DEF TypeInv
<1>f. /\ at[t] = "join" /\ a \in Fibers /\ w \in Workers
      /\ waitList'[w] = Append(waitList[w], a)
      /\ \A v \in Workers : v # w => waitList'[v] = waitList[v]
      /\ at'[t] = "pick" /\ back'[t] = NoOne /\ chosen'[t] = NoOne
      /\ \A u \in Mains : u # t => /\ at'[u] = at[u] /\ back'[u] = back[u]
                                   /\ chosen'[u] = chosen[u]
      /\ UNCHANGED <<shared, own, home, attached, policy, origin, launched, terminated, cond,
                     condLock, active, saved, shutdown, halted>>
  <2>1. a \in Fibers /\ w \in Workers /\ w \in launched
    BY <1>k DEF JoinWait, TypeInv, ThreadsKnowWhom
  <2> QED
    BY <1>k, <2>1 DEF JoinWait, Goto, queueVars, lifeVars, TypeInv, TypeOK
<1>c. /\ kept[a] = {} /\ a \in Live /\ home[a] = t
      /\ \A u \in Mains : active[u] = a => u = t
      /\ \A u \in Mains : u = a => u = t /\ ~shutdown[u]
      /\ \A u \in Mains : DispatcherOf[u] # a
  <2>1. kept[a] = {} /\ a \notin terminated
    BY <1>f DEF RunningIsFree, EndedOnesLeave, Waits
  <2>2. a \in Live
    BY <1>f, <2>1 DEF Live, Pinned, Fibers, TypeInv, OnlyMadeOnesRun
  <2>3. home[a] = t
    BY <1>f DEF RunningAtHome, Waits
  <2>4. \A u \in Mains : u = a => u = t
    BY <2>3 DEF PinnedAtHome
  <2> QED
    BY <1>f, <1>k, <2>1, <2>2, <2>3, <2>4 DEF ActiveApart, MainIsParked, Waits
<1>r. /\ \A u \in Mains : S # OwnQ(u) /\ S # NextOf(u)
      /\ S # SharedQ /\ S # CondQ /\ S \in Spots
      /\ \A v \in Workers : S = WaitQ(v) => v = w
  BY <1>f, SpotsApart
<1>m. /\ kept'[a] = {S} /\ \A d \in Contexts : d # a => kept'[d] = kept[d]
      /\ Live' = Live /\ \A d \in Live : d \in Contexts
      /\ OneSpotEach' /\ KeptAreLive' /\ QueuesRepeatNothing'
  <2>1. a \notin Range(waitList[w])
    BY <1>f, <1>k, <1>c, Held DEF SpotsHold
  <2>2. Range(waitList'[w]) = Range(waitList[w]) \cup {a} /\ IsInjective(waitList'[w])
    BY <1>f, <2>1, AppendApart DEF QueuesRepeatNothing, TypeInv, TypeOK
  <2>3. \A d \in Contexts : d # a => Stays(d)
    BY <1>f, <1>k, <2>2 DEF Stays
  <2>4. Goes(a, S)
    <3>1. /\ a \notin Range(shared) /\ a \notin Range(cond)
          /\ \A u \in Mains : a \notin Range(own[u]) /\ ~(at[u] = "switch" /\ chosen[u] = a)
          /\ \A v \in Workers : a \notin Range(waitList[v])
      BY <1>k, <1>c, Held DEF SpotsHold
    <3>2. \A v \in Workers : a \in Range(waitList'[v]) <=> v = w
      BY <1>f, <2>2, <3>1
    <3> HIDE DEF a
    <3> QED
      BY <1>f, <1>r, <3>1, <3>2 DEF Goes
  <2>5. QueuesRepeatNothing'
    BY <1>f, <2>2 DEF QueuesRepeatNothing
  <2> QED BY <1>c, <1>f, <1>r, <2>3, <2>4, <2>5, Moved
<1> HIDE DEF a, w, S
<1>a. active[t] = a /\ chosen[t] = w
  BY DEF a, w
<1>n. /\ \A s : s \in kept'[a] => s = S
      /\ kept'[a] # {}
      /\ \A u \in Mains : /\ u # t => kept'[active[u]] = kept[active[u]]
                          /\ u # a => kept'[u] = kept[u]
                          /\ kept'[DispatcherOf[u]] = kept[DispatcherOf[u]]
      /\ Running' = Running /\ \A d : Parked(d) => Parked(d)'
  BY <1>k, <1>c, <1>f, <1>m DEF Running, Parked
<1>1. RunningIsFree'
  BY <1>a, <1>c, <1>f, <1>n DEF RunningIsFree, Waits
<1>2. LiveAreSomewhere'
  BY <1>m, <1>n DEF LiveAreSomewhere
<1>3. WaitersAreKept'
  BY <1>a, <1>f, <1>n DEF WaitersAreKept, Waits
<1>4. ActiveApart' /\ PinnedAtHome' /\ UnmadeHaveNoHome' /\ NoNull'
  BY <1>f DEF ActiveApart, PinnedAtHome, UnmadeHaveNoHome, NoNull
<1>5. OthersAreSaved'
  BY <1>f, <1>m, <1>n DEF OthersAreSaved
<1>6. EndedOnesLeave'
  BY <1>f DEF EndedOnesLeave, Waits
<1>7. RunningAtHome'
  BY <1>a, <1>f, <1>c DEF RunningAtHome, Waits
<1>8. KeptAtHome'
  BY <1>c, <1>f, <1>k, <1>m, <1>n, <1>r DEF KeptAtHome
<1>9. ThreadsKeepOrder'
  BY <1>f DEF ThreadsKeepOrder
<1>10. CondLockHeld'
  BY <1>a, <1>f, <1>n, <1>r DEF CondLockHeld, Waits
<1>11. MainIsParked'
  BY <1>a, <1>c, <1>f, <1>n DEF MainIsParked, Waits
<1>12. SharersAttach'
  BY <1>c, <1>f, <1>k, <1>m, <1>n, <1>r DEF SharersAttach, Local
<1>13. AttachedAtHome'
  BY <1>f, <1>k, <1>m, <1>n, <1>r DEF AttachedAtHome, IsAsync
<1>14. LateJoiners'
  <2>1. w \in terminated => home[w] # t
    BY <1>a, <1>f DEF LateJoiners
  <2>2. \A d \in Contexts : \A v \in terminated : WaitQ(v) \in kept'[d] =>
          WaitQ(v) \in kept[d] \/ (d = a /\ v = w)
    BY <1>k, <1>m, <1>n, <1>r
  <2>3. \A u \in Mains : at'[u] = "join" => u # t
    BY <1>f
  <2> QED
    BY <1>c, <1>f, <2>1, <2>2, <2>3 DEF LateJoiners
<1>15. WithoutJoins'
  BY <1>f DEF WithoutJoins
<1> QED
  BY <1>m, <1>1, <1>2, <1>3, <1>4, <1>5, <1>6, <1>7, <1>8, <1>9, <1>10, <1>11, <1>12,
     <1>13, <1>14, <1>15

LEMMA TakeSharedKeeps ==
  ASSUME SharedInv, TypeInv', NEW t \in Mains,
         at[t] = "pick", shared # <<>>, ~Local(t), TakeShared(t), UNCHANGED NotPicked
  PROVE  SharedInv'
<1> USE DEF SharedInv
<1> DEFINE m == Head(shared)
           S == NextOf(t)
<1>k. /\ NoOne \notin Contexts /\ NoOne \notin Mains
      /\ \A u \in Mains : /\ u \in Contexts /\ u \in Pinned /\ u \notin Workers
                          /\ DispatcherOf[u] \in Contexts /\ DispatcherOf[u] \in Pinned
                          /\ active[u] \in Contexts
      /\ \A v \in Workers : v \in Contexts /\ v \notin Pinned
      /\ \A v \in launched : v \in Workers /\ v \in Contexts
      /\ \A v \in terminated : v \in launched
  BY Sorts DEF TypeInv
<1>t. /\ m \in Workers /\ Range(shared) = Range(Tail(shared)) \cup {m}
      /\ IsInjective(Tail(shared)) /\ m \notin Range(Tail(shared))
  BY TailApart DEF QueuesRepeatNothing, TypeInv, TypeOK
<1>f. /\ shared' = Tail(shared)
      /\ home'[m] = t /\ \A d \in Contexts : d # m => home'[d] = home[d]
      /\ attached'[t] = attached[t] \cup {m}
      /\ at'[t] = "switch" /\ chosen'[t] = m
      /\ \A u \in Mains : u # t => /\ at'[u] = at[u] /\ chosen'[u] = chosen[u]
                                   /\ attached'[u] = attached[u]
      /\ UNCHANGED <<own, policy, origin, launched, terminated, cond, condLock, waitList,
                     active, saved, back, shutdown, halted>>
  BY <1>k, <1>t DEF TakeShared, NotPicked, Goto, lifeVars, waitVars, TypeInv, TypeOK
<1>r. /\ \A u \in Mains : S # OwnQ(u) /\ (S = NextOf(u) => u = t)
      /\ S # SharedQ /\ S # CondQ /\ S \in Spots
      /\ \A v \in Workers : S # WaitQ(v)
  BY SpotsApart
<1>c. /\ kept[m] = {SharedQ} /\ m \in Live /\ m \in launched /\ m \notin terminated
      /\ ~IsAsync(m) => home[m] = NoOne
  <2>1. SharedQ \in kept[m]
    BY <1>t, <1>k, Held DEF SpotsHold
  <2>2. kept[m] = {SharedQ}
    BY <2>1, <1>t, <1>k DEF OneSpotEach
  <2>3. m \in Live
    BY <2>1, <1>t, <1>k DEF KeptAreLive
  <2> QED
    BY <1>k, <1>t, <2>1, <2>2, <2>3 DEF Live, AttachedAtHome
<1>m. /\ kept'[m] = {S} /\ \A d \in Contexts : d # m => kept'[d] = kept[d]
      /\ Live' = Live /\ \A d \in Live : d \in Contexts
      /\ OneSpotEach' /\ KeptAreLive' /\ QueuesRepeatNothing'
  <2>1. \A d \in Contexts : d # m => Stays(d)
    BY <1>f, <1>t, <1>k DEF Stays
  <2>2. Goes(m, S)
    <3>1. /\ m \notin Range(shared') /\ m \notin Range(cond)
          /\ \A u \in Mains : m \notin Range(own[u]) /\ ~(at[u] = "switch" /\ chosen[u] = m)
          /\ \A v \in Workers : m \notin Range(waitList[v])
      BY <1>k, <1>c, <1>f, <1>t, Held, SpotsApart DEF SpotsHold
    <3> HIDE DEF m
    <3> QED
      BY <1>f, <1>r, <3>1 DEF Goes
  <2>3. QueuesRepeatNothing'
    BY <1>f, <1>t DEF QueuesRepeatNothing
  <2> QED BY <1>c, <1>f, <1>r, <2>1, <2>2, <2>3, Moved
<1> HIDE DEF m, S
<1>n. /\ \A s : s \in kept'[m] => s = S
      /\ kept'[m] # {} /\ m \in Contexts
      /\ \A u \in Mains : /\ kept[active[u]] # {} <=> kept'[active[u]] # {}
                          /\ CondQ \in kept[active[u]] <=> CondQ \in kept'[active[u]]
                          /\ kept'[u] = kept[u]
                          /\ kept'[DispatcherOf[u]] = kept[DispatcherOf[u]]
      /\ Running' = Running /\ \A d : Parked(d) => Parked(d)'
  <2>1. \A s : (s \in kept'[m] => s = S) /\ (s \in kept[m] => s = SharedQ)
    BY <1>c, <1>m
  <2>2. Running' = Running /\ \A d : Parked(d) => Parked(d)'
    BY <1>f DEF Running, Parked
  <2>3. /\ kept'[m] # {} /\ kept[m] # {} /\ m \in Contexts
        /\ CondQ \notin kept'[m] /\ CondQ \notin kept[m]
    BY <1>c, <1>k, <1>m, <1>r, <1>t, <2>1, SpotsApart
  <2> QED
    BY <1>k, <1>m, <1>t, <2>1, <2>2, <2>3
<1>1. RunningIsFree'
  BY <1>f, <1>n DEF RunningIsFree, Waits
<1>2. LiveAreSomewhere'
  BY <1>m, <1>n DEF LiveAreSomewhere
<1>3. WaitersAreKept'
  BY <1>f, <1>n DEF WaitersAreKept, Waits
<1>4. ActiveApart' /\ UnmadeHaveNoHome' /\ NoNull'
  BY <1>c, <1>f, <1>k DEF ActiveApart, UnmadeHaveNoHome, NoNull
<1>5. OthersAreSaved'
  BY <1>f, <1>m, <1>n DEF OthersAreSaved
<1>6. EndedOnesLeave'
  BY <1>f DEF EndedOnesLeave, Waits
<1>7. RunningAtHome'
  <2>1. \A u \in Mains : active[u] = m => Waits(u) /\ m \notin Pinned
    BY <1>c, <1>k, <1>t, <1>n DEF RunningIsFree
  <2>2. \A u \in Mains : Waits(u)' <=> Waits(u)
    BY <1>f DEF Waits
  <2> QED
    BY <1>c, <1>f, <1>k, <2>1, <2>2 DEF RunningAtHome
<1>8. KeptAtHome'
  <2>1. ASSUME NEW d \in Contexts, d # m  PROVE kept'[d] = kept[d] /\ home'[d] = home[d]
    BY <1>f, <1>m, <2>1
  <2>2. /\ \A u \in Mains : OwnQ(u) \in kept'[m] \/ NextOf(u) \in kept'[m] => home'[m] = u
        /\ CondQ \notin kept'[m] /\ \A v \in Workers : WaitQ(v) \notin kept'[m]
        /\ SharedQ \notin kept'[m]
    BY <1>f, <1>n, <1>r
  <2> QED
    BY <2>1, <2>2 DEF KeptAtHome
<1>9. ThreadsKeepOrder'
  BY <1>f DEF ThreadsKeepOrder
<1>10. CondLockHeld'
  BY <1>f, <1>n DEF CondLockHeld, Waits
<1>11. MainIsParked'
  <2> SUFFICES ASSUME NEW u \in Mains
               PROVE  /\ shutdown'[u] =>
                           /\ kept'[u] \subseteq {NextOf(u)}
                           /\ active'[u] = u => Waits(u)' \/ at'[u] = "exited"
                           /\ at'[u] = "switch" /\ chosen'[u] = u =>
                                active'[u] = DispatcherOf[u] /\ back'[u] = NoOne
                                /\ attached'[u] = {}
                      /\ at'[u] = "exited" => attached'[u] = {} /\ kept'[DispatcherOf[u]] = {}
    BY DEF MainIsParked
  <2>1. kept'[u] = kept[u] /\ kept'[DispatcherOf[u]] = kept[DispatcherOf[u]] /\ u # m
    BY <1>k, <1>n, <1>t
  <2>2. CASE u = t
    BY <1>f, <2>1, <2>2 DEF MainIsParked, Waits
  <2>3. CASE u # t
    BY <1>f, <2>1, <2>3 DEF MainIsParked, Waits
  <2> QED
    BY <2>2, <2>3
<1>12. SharersAttach'
  BY <1>f, <1>k, <1>m, <1>n, <1>r DEF SharersAttach, Local
<1>13. AttachedAtHome'
  BY <1>c, <1>f, <1>k, <1>m, <1>n, <1>r DEF AttachedAtHome, IsAsync
<1>14. LateJoiners'
  <2>1. \A v \in terminated : home'[v] = home[v]
    BY <1>c, <1>f, <1>k
  <2>2. \A d \in Contexts : \A v \in terminated :
          WaitQ(v) \in kept'[d] => WaitQ(v) \in kept[d] /\ home'[d] = home[d]
    BY <1>f, <1>k, <1>m, <1>n, <1>r
  <2>3. \A u \in Mains : at'[u] = "join" => u # t
    BY <1>f
  <2> QED
    BY <1>f, <2>1, <2>2, <2>3 DEF LateJoiners
<1>15. WithoutJoins'
  <2>1. NoJoins => \A u \in Mains : active[u] # m
    BY <1>c, SpotsApart DEF WithoutJoins
  <2>2. NoJoins => \A u \in Mains : kept'[active[u]] = kept[active[u]]
    BY <1>k, <1>m, <2>1
  <2> QED
    BY <1>f, <2>2 DEF WithoutJoins
<1>16. PinnedAtHome'
  BY <1>f, <1>k, <1>t DEF PinnedAtHome
<1> QED
  BY <1>m, <1>1, <1>2, <1>3, <1>4, <1>5, <1>6, <1>7, <1>8, <1>9, <1>10, <1>11, <1>12,
     <1>13, <1>14, <1>15, <1>16

LEMMA TakeOwnKeeps ==
  ASSUME SharedInv, TypeInv', NEW t \in Mains,
         at[t] = "pick", own[t] # <<>>, TakeOwn(t), UNCHANGED NotPicked
  PROVE  SharedInv'
<1> USE DEF SharedInv
<1> DEFINE m == Head(own[t])
           S == NextOf(t)
<1>k. /\ NoOne \notin Contexts /\ NoOne \notin Mains
      /\ \A u \in Mains : /\ u \in Contexts /\ u \in Pinned /\ u \notin Workers
                          /\ DispatcherOf[u] \in Contexts /\ DispatcherOf[u] \in Pinned
                          /\ active[u] \in Contexts
      /\ \A v \in Workers : v \in Contexts /\ v \notin Pinned
      /\ \A v \in launched : v \in Workers /\ v \in Contexts
      /\ \A v \in terminated : v \in launched
  BY Sorts DEF TypeInv
<1>t. /\ m \in Contexts /\ Range(own[t]) = Range(Tail(own[t])) \cup {m}
      /\ IsInjective(Tail(own[t])) /\ m \notin Range(Tail(own[t]))
  BY TailApart DEF QueuesRepeatNothing, TypeInv, TypeOK
<1>f. /\ own'[t] = Tail(own[t]) /\ at'[t] = "switch" /\ chosen'[t] = m
      /\ \A u \in Mains : u # t => /\ at'[u] = at[u] /\ chosen'[u] = chosen[u]
                                   /\ own'[u] = own[u]
      /\ UNCHANGED <<shared, home, attached, policy, origin, launched, terminated, cond,
                     condLock, waitList, active, saved, back, shutdown, halted>>
  BY <1>k, <1>t DEF TakeOwn, NotPicked, Goto, lifeVars, waitVars, TypeInv, TypeOK
<1>r. /\ \A u \in Mains : S # OwnQ(u) /\ (S = NextOf(u) => u = t)
      /\ S # SharedQ /\ S # CondQ /\ S \in Spots
      /\ \A v \in Workers : S # WaitQ(v)
  BY SpotsApart
<1>c. /\ kept[m] = {OwnQ(t)} /\ m \in Live /\ home[m] = t
      /\ m \in Workers => Local(t)
      /\ \A u \in Mains : u = m => ~shutdown[u]
      /\ \A u \in Mains : DispatcherOf[u] = m => at[u] # "exited"
  <2>1. OwnQ(t) \in kept[m]
    BY <1>t, Held DEF SpotsHold
  <2>2. kept[m] = {OwnQ(t)}
    BY <2>1, <1>t DEF OneSpotEach
  <2>3. m \in Live /\ home[m] = t
    BY <2>1, <1>t DEF KeptAreLive, KeptAtHome
  <2>4. m \in Workers => Local(t)
    BY <2>1 DEF SharersAttach
  <2>5. /\ \A u \in Mains : u = m => ~shutdown[u]
        /\ \A u \in Mains : DispatcherOf[u] = m => at[u] # "exited"
    BY <2>1, SpotsApart DEF MainIsParked
  <2> QED
    BY <2>2, <2>3, <2>4, <2>5
<1>m. /\ kept'[m] = {S} /\ \A d \in Contexts : d # m => kept'[d] = kept[d]
      /\ Live' = Live /\ \A d \in Live : d \in Contexts
      /\ OneSpotEach' /\ KeptAreLive' /\ QueuesRepeatNothing'
  <2>1. \A d \in Contexts : d # m => Stays(d)
    <3>1. \A d \in Contexts : d # m => (d \in Range(own'[t]) <=> d \in Range(own[t]))
      BY <1>f, <1>t
    <3> HIDE DEF m
    <3> QED
      BY <1>f, <3>1 DEF Stays
  <2>2. Goes(m, S)
    <3>1. /\ m \notin Range(shared) /\ m \notin Range(cond)
          /\ \A u \in Mains : m \notin Range(own'[u]) /\ ~(at[u] = "switch" /\ chosen[u] = m)
          /\ \A v \in Workers : m \notin Range(waitList[v])
      BY <1>k, <1>c, <1>f, <1>t, Held, SpotsApart DEF SpotsHold
    <3> HIDE DEF m
    <3> QED
      BY <1>f, <1>r, <3>1 DEF Goes
  <2>3. QueuesRepeatNothing'
    BY <1>f, <1>t DEF QueuesRepeatNothing
  <2> QED BY <1>c, <1>f, <1>r, <2>1, <2>2, <2>3, Moved
<1> HIDE DEF m, S
<1>n. /\ \A s : s \in kept'[m] => s = S
      /\ kept'[m] # {} /\ m \in Contexts
      /\ \A u \in Mains : /\ kept[active[u]] # {} <=> kept'[active[u]] # {}
                          /\ CondQ \in kept[active[u]] <=> CondQ \in kept'[active[u]]
                          /\ u # m => kept'[u] = kept[u]
                          /\ DispatcherOf[u] # m =>
                               kept'[DispatcherOf[u]] = kept[DispatcherOf[u]]
      /\ Running' = Running /\ \A d : Parked(d) => Parked(d)'
  <2>1. \A s : (s \in kept'[m] => s = S) /\ (s \in kept[m] => s = OwnQ(t))
    BY <1>c, <1>m
  <2>2. Running' = Running /\ \A d : Parked(d) => Parked(d)'
    BY <1>f DEF Running, Parked
  <2>3. /\ kept'[m] # {} /\ kept[m] # {} /\ m \in Contexts
        /\ CondQ \notin kept'[m] /\ CondQ \notin kept[m]
    BY <1>c, <1>k, <1>m, <1>r, <1>t, <2>1, SpotsApart
  <2> QED
    BY <1>k, <1>m, <1>t, <2>1, <2>2, <2>3
<1>1. RunningIsFree'
  BY <1>f, <1>n DEF RunningIsFree, Waits
<1>2. LiveAreSomewhere'
  BY <1>m, <1>n DEF LiveAreSomewhere
<1>3. WaitersAreKept'
  BY <1>f, <1>n DEF WaitersAreKept, Waits
<1>4. ActiveApart' /\ PinnedAtHome' /\ UnmadeHaveNoHome' /\ NoNull'
  BY <1>f DEF ActiveApart, PinnedAtHome, UnmadeHaveNoHome, NoNull
<1>5. OthersAreSaved'
  BY <1>f, <1>m, <1>n DEF OthersAreSaved
<1>6. EndedOnesLeave'
  BY <1>f DEF EndedOnesLeave, Waits
<1>7. RunningAtHome'
  BY <1>f DEF RunningAtHome, Waits
<1>8. KeptAtHome'
  <2>1. \A d \in Contexts : d # m => kept'[d] = kept[d]
    BY <1>m
  <2>2. /\ \A u \in Mains : OwnQ(u) \in kept'[m] \/ NextOf(u) \in kept'[m] => home'[m] = u
        /\ CondQ \notin kept'[m] /\ \A v \in Workers : WaitQ(v) \notin kept'[m]
        /\ SharedQ \notin kept'[m]
    BY <1>c, <1>f, <1>n, <1>r
  <2> QED
    BY <1>f, <2>1, <2>2 DEF KeptAtHome
<1>9. ThreadsKeepOrder'
  BY <1>f DEF ThreadsKeepOrder
<1>10. CondLockHeld'
  BY <1>f, <1>n DEF CondLockHeld, Waits
<1>11. MainIsParked'
  BY <1>c, <1>f, <1>k, <1>n DEF MainIsParked, Waits
<1>12. SharersAttach'
  BY <1>c, <1>f, <1>k, <1>m, <1>n, <1>r DEF SharersAttach, Local
<1>13. AttachedAtHome'
  BY <1>c, <1>f, <1>k, <1>m, <1>n, <1>r DEF AttachedAtHome, IsAsync
<1>14. LateJoiners'
  <2>1. \A d \in Contexts : \A v \in terminated : WaitQ(v) \in kept'[d] => WaitQ(v) \in kept[d]
    BY <1>k, <1>m, <1>n, <1>r
  <2>3. \A u \in Mains : at'[u] = "join" => u # t
    BY <1>f
  <2> QED
    BY <1>f, <2>1, <2>3 DEF LateJoiners
<1>15. WithoutJoins'
  <2>1. NoJoins => \A u \in Mains : active[u] # m
    BY <1>c, SpotsApart DEF WithoutJoins
  <2>2. NoJoins => \A u \in Mains : kept'[active[u]] = kept[active[u]]
    BY <1>k, <1>m, <2>1
  <2> QED
    BY <1>f, <2>2 DEF WithoutJoins
<1> QED
  BY <1>m, <1>1, <1>2, <1>3, <1>4, <1>5, <1>6, <1>7, <1>8, <1>9, <1>10, <1>11, <1>12,
     <1>13, <1>14, <1>15

\* At shutdown the dispatcher chooses the main context.
LEMMA LastTurnKeeps ==
  ASSUME SharedInv, TypeInv', NEW t \in Mains,
         DispatchTurn(t), shutdown[t], attached[t] = {}
  PROVE  SharedInv'
<1> USE DEF SharedInv
<1> DEFINE S == NextOf(t)
<1>k. /\ NoOne \notin Contexts /\ NoOne \notin Mains
      /\ \A u \in Mains : /\ u \in Contexts /\ u \in Pinned /\ u \notin Workers
                          /\ DispatcherOf[u] \in Contexts /\ DispatcherOf[u] \in Pinned
                          /\ DispatcherOf[u] # t /\ active[u] \in Contexts
      /\ \A v \in Workers : v \in Contexts /\ v \notin Pinned
      /\ \A v \in launched : v \in Workers /\ v \in Contexts
      /\ \A v \in terminated : v \in launched
  BY Sorts, Kinds DEF TypeInv
<1>f. /\ at[t] = "loop" /\ at'[t] = "switch" /\ chosen'[t] = t /\ back'[t] = NoOne
      /\ \A u \in Mains : u # t => /\ at'[u] = at[u] /\ chosen'[u] = chosen[u]
                                   /\ back'[u] = back[u]
      /\ UNCHANGED <<shared, own, home, attached, policy, origin, launched, terminated, cond,
                     condLock, waitList, active, saved, shutdown, halted>>
  BY DEF DispatchTurn, Goto, queueVars, lifeVars, waitVars, TypeInv, TypeOK
<1>r. /\ \A u \in Mains : S # OwnQ(u) /\ (S = NextOf(u) => u = t)
      /\ S # SharedQ /\ S # CondQ /\ S \in Spots /\ S = NextOf(t)
      /\ \A v \in Workers : S # WaitQ(v)
  BY SpotsApart
<1>c. /\ kept[t] = {} /\ t \in Live /\ home[t] = t
      /\ active[t] = DispatcherOf[t] /\ kept[active[t]] = {}
      /\ \A u \in Mains : active[u] # t
  <2>1. kept[t] = {}
    BY <1>f, <1>k, Held DEF MainIsParked, SpotsHold
  <2>2. active[t] = DispatcherOf[t] /\ kept[active[t]] = {}
    BY <1>f DEF ThreadsKeepOrder, RunningIsFree
  <2>3. \A u \in Mains : active[u] # t
    BY <1>k, <2>2 DEF PinnedAtHome, RunningAtHome
  <2> QED
    BY <1>k, <2>1, <2>2, <2>3 DEF Live, PinnedAtHome
<1>m. /\ kept'[t] = {S} /\ \A d \in Contexts : d # t => kept'[d] = kept[d]
      /\ Live' = Live /\ \A d \in Live : d \in Contexts
      /\ OneSpotEach' /\ KeptAreLive' /\ QueuesRepeatNothing'
  <2>1. \A d \in Contexts : d # t => Stays(d)
    BY <1>f DEF Stays
  <2>2. Goes(t, S)
    BY <1>k, <1>c, <1>f, <1>r, Held DEF Goes, SpotsHold
  <2>3. QueuesRepeatNothing'
    BY <1>f DEF QueuesRepeatNothing
  <2> QED BY <1>c, <1>f, <1>r, <2>1, <2>2, <2>3, Moved
<1> HIDE DEF S
<1>n. /\ \A s : s \in kept'[t] => s = S
      /\ kept'[t] # {}
      /\ \A u \in Mains : /\ kept'[active[u]] = kept[active[u]]
                          /\ u # t => kept'[u] = kept[u]
                          /\ kept'[DispatcherOf[u]] = kept[DispatcherOf[u]]
      /\ Running' = Running /\ \A d : Parked(d) => Parked(d)'
  BY <1>c, <1>f, <1>k, <1>m DEF Running, Parked
<1>1. RunningIsFree'
  BY <1>c, <1>f, <1>n DEF RunningIsFree, Waits
<1>2. LiveAreSomewhere'
  BY <1>m, <1>n DEF LiveAreSomewhere
<1>3. WaitersAreKept'
  BY <1>c, <1>f, <1>n DEF WaitersAreKept, Waits
<1>4. ActiveApart' /\ PinnedAtHome' /\ UnmadeHaveNoHome' /\ NoNull'
  BY <1>f DEF ActiveApart, PinnedAtHome, UnmadeHaveNoHome, NoNull
<1>5. OthersAreSaved'
  BY <1>f, <1>m, <1>n DEF OthersAreSaved
<1>6. EndedOnesLeave'
  BY <1>f DEF EndedOnesLeave, Waits
<1>7. RunningAtHome'
  BY <1>c, <1>f, <1>k DEF RunningAtHome, PinnedAtHome, Waits
<1>8. KeptAtHome'
  BY <1>c, <1>f, <1>k, <1>m, <1>n, <1>r DEF KeptAtHome
<1>9. ThreadsKeepOrder'
  BY <1>f DEF ThreadsKeepOrder
<1>10. CondLockHeld'
  BY <1>c, <1>f, <1>n DEF CondLockHeld, Waits
<1>11. MainIsParked'
  BY <1>c, <1>f, <1>k, <1>n, <1>r DEF MainIsParked, Waits
<1>12. SharersAttach'
  BY <1>f, <1>k, <1>m DEF SharersAttach, Local
<1>13. AttachedAtHome'
  BY <1>f, <1>k, <1>m DEF AttachedAtHome, IsAsync
<1>14. LateJoiners'
  <2>1. \A d \in Contexts : \A v \in terminated : WaitQ(v) \in kept'[d] => WaitQ(v) \in kept[d]
    BY <1>k, <1>m, <1>n, <1>r
  <2>2. \A u \in Mains : at'[u] = "join" => u # t
    BY <1>f
  <2> QED
    BY <1>f, <2>1, <2>2 DEF LateJoiners
<1>15. WithoutJoins'
  BY <1>f, <1>n DEF WithoutJoins
<1> QED
  BY <1>m, <1>1, <1>2, <1>3, <1>4, <1>5, <1>6, <1>7, <1>8, <1>9, <1>10, <1>11, <1>12,
     <1>13, <1>14, <1>15

LEMMA NotifyWakesKeeps ==
  ASSUME SharedInv, TypeInv', NEW t \in Mains, NotifyWakes(t)
  PROVE  SharedInv'
<1> USE DEF SharedInv
<1> DEFINE m == Head(cond)
           h == home[m]
           S == ReadySpot(h, m)
<1>k. /\ NoOne \notin Contexts /\ NoOne \notin Mains
      /\ \A u \in Mains : /\ u \in Contexts /\ u \in Pinned /\ u \notin Workers
                          /\ DispatcherOf[u] \in Contexts /\ DispatcherOf[u] \in Pinned
                          /\ DispatcherOf[u] \notin Fibers /\ active[u] \in Contexts
      /\ \A v \in Workers : v \in Contexts /\ v \notin Pinned
      /\ \A v \in launched : v \in Workers /\ v \in Contexts
      /\ \A v \in terminated : v \in launched
  BY Sorts DEF TypeInv
<1>t. /\ m \in Fibers /\ m \in Contexts /\ Range(cond) = Range(Tail(cond)) \cup {m}
      /\ IsInjective(Tail(cond)) /\ m \notin Range(Tail(cond))
  BY TailApart, Sorts DEF NotifyWakes, QueuesRepeatNothing, TypeInv, TypeOK
<1>f. /\ at[t] \in {"notifyOne", "notifyAll"} /\ cond' = Tail(cond)
      /\ \/ condLock' = NoOne /\ at'[t] = "code"
         \/ condLock' = condLock /\ at'[t] = at[t] /\ cond' # <<>>
      /\ \A u \in Mains : u # t => at'[u] = at[u]
      /\ UNCHANGED <<policy, origin, launched, terminated, waitList, active, saved, chosen,
                     back, shutdown, halted>>
  BY DEF NotifyWakes, Goto, lifeVars, TypeInv, TypeOK
<1>s. Schedule(h, m, home, attached)
  BY DEF NotifyWakes
<1>c. /\ kept[m] = {CondQ} /\ m \in Live /\ m \notin terminated /\ h \in Mains
      /\ m \in Workers => m \in launched
      /\ \A u \in Mains : u = m => ~shutdown[u] /\ h = u
      /\ \A u \in Mains : active[u] # m
  <2>1. CondQ \in kept[m]
    BY <1>t, Held DEF SpotsHold
  <2>2. kept[m] = {CondQ}
    BY <2>1, <1>t DEF OneSpotEach
  <2>3. m \in Live
    BY <2>1, <1>t DEF KeptAreLive
  <2>4. h \in Mains
    BY <2>1, <1>t DEF KeptAtHome, TypeInv, TypeOK
  <2>5. \A u \in Mains : u = m => ~shutdown[u] /\ h = u
    BY <2>1, SpotsApart DEF MainIsParked, PinnedAtHome
  <2>6. \A u \in Mains : active[u] # m
    BY <1>f, <2>1 DEF RunningIsFree, CondLockHeld, Waits
  <2> QED
    BY <1>k, <2>2, <2>3, <2>4, <2>5, <2>6 DEF Live
<1>g. /\ \A d \in Contexts : d # m => home'[d] = home[d]
      /\ home'[m] = h \/ (home'[m] = NoOne /\ S = SharedQ)
      /\ S = SharedQ /\ ~IsAsync(m) => home'[m] = NoOne /\ m \notin attached'[h]
      /\ \A u \in Mains : attached'[u] \subseteq attached[u]
      /\ \A u \in Mains : \A d : d # m /\ d \in attached[u] => d \in attached'[u]
  <2>1. home \in [Contexts -> Mains \cup {NoOne}] /\ attached \in [Mains -> SUBSET Workers]
    BY DEF TypeInv, TypeOK
  <2>2. h \in Mains /\ m \in Contexts /\ home[m] = h /\ S = ReadySpot(h, m)
    BY <1>c, <1>t
  <2> HIDE DEF m, h, S
  <2>3. Schedule(h, m, home, attached)
    BY <1>s DEF h, m
  <2> QED
    BY <2>1, <2>2, <2>3, ScheduledHome
<1>m. /\ kept'[m] = {S} /\ \A d \in Contexts : d # m => kept'[d] = kept[d]
      /\ Live' = Live /\ \A d \in Live : d \in Contexts
      /\ OneSpotEach' /\ KeptAreLive' /\ QueuesRepeatNothing'
  <2>1. /\ S \in Spots
        /\ IsInjective(shared') /\ \A u \in Mains : IsInjective(own'[u])
        /\ \A d : d # m => /\ d \in Range(shared') <=> d \in Range(shared)
                           /\ \A u \in Mains : d \in Range(own'[u]) <=> d \in Range(own[u])
        /\ m \in Range(shared') <=> S = SharedQ
        /\ \A u \in Mains : m \in Range(own'[u]) <=> S = OwnQ(u)
    BY <1>c, <1>s, <1>t, Scheduled, SpotsApart DEF TypeInv
  <2>2. \A d \in Contexts : d # m => Stays(d)
    <3>1. \A d \in Contexts : d # m => (d \in Range(cond') <=> d \in Range(cond))
      BY <1>f, <1>t
    <3> HIDE DEF m
    <3> QED
      BY <1>f, <2>1, <3>1 DEF Stays
  <2>3. Goes(m, S)
    <3>1. /\ m \notin Range(cond')
          /\ \A u \in Mains : ~(at[u] = "switch" /\ chosen[u] = m)
          /\ \A v \in Workers : m \notin Range(waitList[v])
      BY <1>c, <1>f, <1>t, Held, SpotsApart DEF SpotsHold
    <3>2. /\ S # CondQ /\ \A u \in Mains : S # NextOf(u)
          /\ \A v \in Workers : S # WaitQ(v)
      BY <1>c, <1>t, ReadySpots
    <3> HIDE DEF m, S
    <3> QED
      BY <1>f, <2>1, <3>1, <3>2 DEF Goes
  <2>4. QueuesRepeatNothing'
    BY <1>f, <1>t, <2>1 DEF QueuesRepeatNothing
  <2> QED BY <1>c, <1>f, <2>1, <2>2, <2>3, <2>4, Moved
<1>r. /\ S # CondQ /\ \A v \in Workers : S # WaitQ(v)
      /\ \A u \in Mains : /\ S # NextOf(u)
                          /\ S = OwnQ(u) => u = h /\ (m \in Workers => Local(h))
      /\ S = SharedQ => m \in Workers
      /\ \A u \in Mains : SharedQ # OwnQ(u)
  BY <1>c, <1>t, ReadySpots, SpotsApart
<1>p. home[m] = h
  OBVIOUS
<1> HIDE DEF m, h, S
<1>n. /\ \A s : s \in kept'[m] => s = S
      /\ kept'[m] # {}
      /\ \A u \in Mains : /\ kept'[active[u]] = kept[active[u]]
                          /\ u # m => kept'[u] = kept[u]
                          /\ kept'[DispatcherOf[u]] = kept[DispatcherOf[u]]
      /\ Running' = Running /\ \A d : Parked(d) => Parked(d)'
      /\ \A u \in Mains : Waits(u)' <=> Waits(u)
  <2>1. Running' = Running /\ \A u \in Mains : Waits(u)' <=> Waits(u)
    BY <1>f DEF Running, Waits
  <2>2. \A d : Parked(d) => Parked(d)'
    BY <1>f DEF Parked
  <2> QED
    BY <1>c, <1>k, <1>m, <1>t, <2>1, <2>2
<1>1. RunningIsFree'
  BY <1>f, <1>n DEF RunningIsFree
<1>2. LiveAreSomewhere'
  BY <1>m, <1>n DEF LiveAreSomewhere
<1>3. WaitersAreKept'
  BY <1>f, <1>n DEF WaitersAreKept
<1>4. ActiveApart' /\ NoNull'
  BY <1>f DEF ActiveApart, NoNull
<1>5. OthersAreSaved'
  BY <1>f, <1>m, <1>n DEF OthersAreSaved
<1>6. EndedOnesLeave'
  BY <1>f, <1>n DEF EndedOnesLeave
<1>7. RunningAtHome'
  BY <1>c, <1>f, <1>g, <1>k, <1>n DEF RunningAtHome
<1>8. KeptAtHome'
  <2>1. ASSUME NEW d \in Contexts, d # m  PROVE kept'[d] = kept[d] /\ home'[d] = home[d]
    BY <1>g, <1>m, <2>1
  <2>2. /\ \A u \in Mains : OwnQ(u) \in kept'[m] \/ NextOf(u) \in kept'[m] => home'[m] = u
        /\ CondQ \notin kept'[m] /\ \A v \in Workers : WaitQ(v) \notin kept'[m]
        /\ SharedQ \in kept'[m] => m \in Workers
    BY <1>g, <1>n, <1>r
  <2> QED
    BY <2>1, <2>2 DEF KeptAtHome
<1>9. ThreadsKeepOrder'
  BY <1>f DEF ThreadsKeepOrder
<1>10. CondLockHeld'
  BY <1>f, <1>k, <1>n DEF CondLockHeld, Waits
<1>11. MainIsParked'
  BY <1>c, <1>f, <1>g, <1>n DEF MainIsParked
<1>12. SharersAttach'
  BY <1>c, <1>f, <1>g, <1>k, <1>m, <1>n, <1>r DEF SharersAttach, Local
<1>13. AttachedAtHome'
  BY <1>c, <1>f, <1>g, <1>k, <1>m, <1>n, <1>p, <1>r DEF AttachedAtHome, IsAsync
<1>14. LateJoiners'
  <2>1. \A v \in terminated : home'[v] = home[v]
    BY <1>c, <1>g, <1>k
  <2>2. \A d \in Contexts : \A v \in terminated :
          WaitQ(v) \in kept'[d] => WaitQ(v) \in kept[d] /\ home'[d] = home[d]
    BY <1>g, <1>k, <1>m, <1>n, <1>r
  <2> QED
    BY <1>f, <2>1, <2>2 DEF LateJoiners
<1>15. WithoutJoins'
  BY <1>f, <1>n DEF WithoutJoins
<1>16. PinnedAtHome' /\ UnmadeHaveNoHome'
  BY <1>c, <1>f, <1>g, <1>k, <1>p, <1>r DEF PinnedAtHome, UnmadeHaveNoHome
<1> QED
  BY <1>m, <1>1, <1>2, <1>3, <1>4, <1>5, <1>6, <1>7, <1>8, <1>9, <1>10, <1>11, <1>12,
     <1>13, <1>14, <1>15, <1>16


\* The fiber that ends has woken all that joined it.
LEMMA WakeNobodyKeeps ==
  ASSUME SharedInv, TypeInv', NEW t \in Mains, WakeJoiner(t), waitList[active[t]] = <<>>
  PROVE  SharedInv'
<1> USE DEF SharedInv
<1>f. /\ at[t] = "ending" /\ at'[t] = "leaving"
      /\ \A u \in Mains : u # t => at'[u] = at[u]
      /\ UNCHANGED <<shared, own, home, attached, policy, origin, launched, terminated,
                     cond, condLock, waitList, active, saved, chosen, back, shutdown,
                     halted>>
  BY DEF WakeJoiner, Goto, queueVars, lifeVars, TypeInv, TypeOK
<1>c. /\ active[t] \in terminated /\ active[t] \in Workers
      /\ \A c \in Contexts : WaitQ(active[t]) \notin kept[c]
  <2>1. active[t] \in terminated /\ active[t] \in Workers
    BY <1>f, Sorts DEF TypeInv, ThreadsKnowWhom
  <2>2. Range(waitList[active[t]]) = {}
    BY EmptyQueue
  <2> QED
    BY <2>1, <2>2, Held DEF SpotsHold
<1>m. \A d \in Contexts : Stays(d)
  BY <1>f DEF Stays
<1>u. /\ Running' = Running /\ \A d \in Live' : d \in Live /\ d \in Contexts
      /\ \A d \in Contexts : kept'[d] = kept[d]
      /\ \A u \in Mains : /\ kept'[u] = kept[u] /\ kept'[active[u]] = kept[active[u]]
                          /\ kept'[DispatcherOf[u]] = kept[DispatcherOf[u]]
      /\ OneSpotEach' /\ QueuesRepeatNothing' /\ KeptAreLive' /\ ActiveApart'
      /\ OthersAreSaved' /\ PinnedAtHome' /\ KeptAtHome' /\ UnmadeHaveNoHome' /\ NoNull'
  BY <1>f, <1>m, Unmoved
<1>w. /\ \A u \in Mains : Waits(u)' <=> Waits(u)
      /\ \A d : Parked(d) => Parked(d)'
  BY <1>f DEF Waits, Parked
<1>1. RunningIsFree'
  BY <1>f, <1>u, <1>w DEF RunningIsFree
<1>2. LiveAreSomewhere'
  BY <1>u, <1>w DEF LiveAreSomewhere
<1>3. WaitersAreKept'
  BY <1>f, <1>u, <1>w DEF WaitersAreKept, Waits
<1>4. EndedOnesLeave'
  BY <1>f, <1>w DEF EndedOnesLeave
<1>5. RunningAtHome'
  BY <1>f, <1>w DEF RunningAtHome
<1>6. ThreadsKeepOrder'
  BY <1>f DEF ThreadsKeepOrder
<1>7. CondLockHeld'
  BY <1>f, <1>u, <1>w DEF CondLockHeld
<1>8. MainIsParked'
  BY <1>f, <1>u, <1>w DEF MainIsParked
<1>9. SharersAttach'
  <2>1. \A v \in Workers : v \in Contexts
    BY Sorts DEF TypeInv
  <2> QED
    BY <1>f, <1>u, <2>1 DEF SharersAttach, Local
<1>10. AttachedAtHome'
  <2>1. \A v \in Workers : v \in Contexts
    BY Sorts DEF TypeInv
  <2> QED
    BY <1>f, <1>u, <2>1 DEF AttachedAtHome, IsAsync
<1>11. LateJoiners'
  <2>1. \A u \in Mains : active[u] # active[t] => u # t
    OBVIOUS
  <2> QED
    BY <1>c, <1>f, <1>u, <2>1 DEF LateJoiners
<1>12. WithoutJoins'
  BY <1>f, <1>u DEF WithoutJoins
<1> QED
  BY <1>u, <1>1, <1>2, <1>3, <1>4, <1>5, <1>6, <1>7, <1>8, <1>9, <1>10, <1>11, <1>12

LEMMA WakeJoinerKeeps ==
  ASSUME SharedInv, TypeInv', NEW t \in Mains, WakeJoiner(t), waitList[active[t]] # <<>>
  PROVE  SharedInv'
<1> USE DEF SharedInv
<1> DEFINE w == active[t]
           m == Head(waitList[w])
           h == home[m]
           S == ReadySpot(h, m)
<1>k. /\ NoOne \notin Contexts /\ NoOne \notin Mains
      /\ \A u \in Mains : /\ u \in Contexts /\ u \in Pinned /\ u \notin Workers
                          /\ DispatcherOf[u] \in Contexts /\ DispatcherOf[u] \in Pinned
                          /\ DispatcherOf[u] \notin Fibers /\ active[u] \in Contexts
      /\ \A v \in Workers : v \in Contexts /\ v \notin Pinned
      /\ \A v \in launched : v \in Workers /\ v \in Contexts
      /\ \A v \in terminated : v \in launched
  BY Sorts DEF TypeInv
<1>w. w \in Workers /\ w \in terminated
  BY <1>k DEF WakeJoiner, TypeInv, ThreadsKnowWhom
<1>t. /\ m \in Fibers /\ m \in Contexts
      /\ Range(waitList[w]) = Range(Tail(waitList[w])) \cup {m}
      /\ IsInjective(Tail(waitList[w])) /\ m \notin Range(Tail(waitList[w]))
  <2>1. waitList[w] \in Seq(Fibers) /\ IsInjective(waitList[w]) /\ waitList[w] # <<>>
    BY <1>w DEF QueuesRepeatNothing, TypeInv, TypeOK
  <2> QED
    BY <2>1, TailApart, Sorts DEF TypeInv
<1>f. /\ at[t] = "ending" /\ waitList'[w] = Tail(waitList[w])
      /\ \A v \in Workers : v # w => waitList'[v] = waitList[v]
      /\ UNCHANGED <<policy, origin, launched, terminated, cond, condLock, active, saved,
                     at, chosen, back, shutdown, halted>>
  BY <1>w DEF WakeJoiner, lifeVars, TypeInv, TypeOK
<1>s. Schedule(h, m, home, attached)
  BY DEF WakeJoiner
<1>c. /\ kept[m] = {WaitQ(w)} /\ m \in Live /\ m \notin terminated /\ h \in Mains
      /\ m \in Workers => m \in launched
      /\ \A u \in Mains : u = m => ~shutdown[u] /\ h = u
      /\ \A u \in Mains : active[u] = m => Waits(u)
      /\ ~NoJoins
  <2>1. WaitQ(w) \in kept[m]
    BY <1>t, <1>w, Held DEF SpotsHold
  <2>2. kept[m] = {WaitQ(w)}
    BY <2>1, <1>t DEF OneSpotEach
  <2>3. m \in Live
    BY <2>1, <1>t DEF KeptAreLive
  <2>4. h \in Mains
    BY <2>1, <1>t, <1>w DEF KeptAtHome, TypeInv, TypeOK
  <2>5. \A u \in Mains : u = m => ~shutdown[u] /\ h = u
    BY <1>w, <2>1, SpotsApart DEF MainIsParked, PinnedAtHome
  <2>6. \A u \in Mains : active[u] = m => Waits(u)
    BY <2>1 DEF RunningIsFree
  <2>7. ~NoJoins
    BY <1>w DEF WithoutJoins
  <2> QED
    BY <1>k, <2>2, <2>3, <2>4, <2>5, <2>6, <2>7 DEF Live
<1>g. /\ \A d \in Contexts : d # m => home'[d] = home[d]
      /\ home'[m] = h \/ (home'[m] = NoOne /\ S = SharedQ)
      /\ S = SharedQ /\ ~IsAsync(m) => home'[m] = NoOne /\ m \notin attached'[h]
      /\ \A u \in Mains : attached'[u] \subseteq attached[u]
      /\ \A u \in Mains : \A d : d # m /\ d \in attached[u] => d \in attached'[u]
  <2>1. home \in [Contexts -> Mains \cup {NoOne}] /\ attached \in [Mains -> SUBSET Workers]
    BY DEF TypeInv, TypeOK
  <2>2. h \in Mains /\ m \in Contexts /\ home[m] = h /\ S = ReadySpot(h, m)
    BY <1>c, <1>t
  <2> HIDE DEF m, h, S
  <2>3. Schedule(h, m, home, attached)
    BY <1>s DEF h, m
  <2> QED
    BY <2>1, <2>2, <2>3, ScheduledHome
<1>m. /\ kept'[m] = {S} /\ \A d \in Contexts : d # m => kept'[d] = kept[d]
      /\ Live' = Live /\ \A d \in Live : d \in Contexts
      /\ OneSpotEach' /\ KeptAreLive' /\ QueuesRepeatNothing'
  <2>1. /\ S \in Spots
        /\ IsInjective(shared') /\ \A u \in Mains : IsInjective(own'[u])
        /\ \A d : d # m => /\ d \in Range(shared') <=> d \in Range(shared)
                           /\ \A u \in Mains : d \in Range(own'[u]) <=> d \in Range(own[u])
        /\ m \in Range(shared') <=> S = SharedQ
        /\ \A u \in Mains : m \in Range(own'[u]) <=> S = OwnQ(u)
    <3>1. /\ h \in Mains /\ m \in Contexts /\ S = ReadySpot(h, m)
          /\ SharedQ \notin kept[m] /\ \A u \in Mains : OwnQ(u) \notin kept[m]
      BY <1>c, <1>t, <1>w, SpotsApart
    <3> HIDE DEF m, h, S, w
    <3>2. Schedule(h, m, home, attached)
      BY <1>s DEF m, h, w
    <3> QED
      BY <3>1, <3>2, Scheduled DEF TypeInv
  <2>2. \A d \in Contexts : d # m => Stays(d)
    <3>1. \A d \in Contexts : d # m => (d \in Range(waitList'[w]) <=> d \in Range(waitList[w]))
      BY <1>f, <1>t
    <3> HIDE DEF m, w
    <3> QED
      BY <1>f, <2>1, <3>1 DEF Stays
  <2>3. Goes(m, S)
    <3>1. /\ m \notin Range(cond)
          /\ \A u \in Mains : ~(at[u] = "switch" /\ chosen[u] = m)
          /\ \A v \in Workers : m \notin Range(waitList'[v])
      <4>1. \A v \in Workers : v # w => m \notin Range(waitList[v])
        BY <1>c, <1>t, <1>w, Held, SpotsApart DEF SpotsHold
      <4> QED
        BY <1>c, <1>f, <1>t, <1>w, <4>1, Held, SpotsApart DEF SpotsHold
    <3>2. /\ S # CondQ /\ \A u \in Mains : S # NextOf(u)
          /\ \A v \in Workers : S # WaitQ(v)
      BY <1>c, <1>t, ReadySpots
    <3> HIDE DEF m, S
    <3> QED
      BY <1>f, <2>1, <3>1, <3>2 DEF Goes
  <2>4. QueuesRepeatNothing'
    BY <1>f, <1>t, <1>w, <2>1 DEF QueuesRepeatNothing
  <2> QED BY <1>c, <1>f, <2>1, <2>2, <2>3, <2>4, Moved
<1>r. /\ S # CondQ /\ \A v \in Workers : S # WaitQ(v)
      /\ \A u \in Mains : /\ S # NextOf(u)
                          /\ S = OwnQ(u) => u = h /\ (m \in Workers => Local(h))
      /\ S = SharedQ => m \in Workers
      /\ \A u \in Mains : SharedQ # OwnQ(u)
  BY <1>c, <1>t, ReadySpots, SpotsApart
<1>p. home[m] = h
  OBVIOUS
<1>q. w = active[t]
  OBVIOUS
<1> HIDE DEF m, h, S, w
<1>n. /\ \A s : s \in kept'[m] => s = S
      /\ kept'[m] # {} /\ m \in Contexts
      /\ \A u \in Mains : /\ kept[active[u]] # {} <=> kept'[active[u]] # {}
                          /\ CondQ \in kept[active[u]] <=> CondQ \in kept'[active[u]]
                          /\ u # m => kept'[u] = kept[u]
                          /\ kept'[DispatcherOf[u]] = kept[DispatcherOf[u]]
      /\ Running' = Running /\ \A d : Parked(d) => Parked(d)'
      /\ \A u \in Mains : Waits(u)' <=> Waits(u)
  <2>1. \A s : (s \in kept'[m] => s = S) /\ (s \in kept[m] => s = WaitQ(w))
    BY <1>c, <1>m
  <2>2. Running' = Running /\ \A u \in Mains : Waits(u)' <=> Waits(u)
    BY <1>f DEF Running, Waits
  <2>3. \A d : Parked(d) => Parked(d)'
    BY <1>f DEF Parked
  <2>4. /\ kept'[m] # {} /\ kept[m] # {} /\ m \in Contexts
        /\ CondQ \notin kept'[m] /\ CondQ \notin kept[m]
    BY <1>c, <1>m, <1>r, <1>t, <1>w, <2>1, SpotsApart
  <2> QED
    BY <1>k, <1>m, <1>t, <2>1, <2>2, <2>3, <2>4
<1>1. RunningIsFree'
  BY <1>f, <1>n DEF RunningIsFree
<1>2. LiveAreSomewhere'
  BY <1>m, <1>n DEF LiveAreSomewhere
<1>3. WaitersAreKept'
  BY <1>f, <1>n DEF WaitersAreKept
<1>4. ActiveApart' /\ NoNull'
  BY <1>f DEF ActiveApart, NoNull
<1>5. OthersAreSaved'
  BY <1>f, <1>m, <1>n DEF OthersAreSaved
<1>6. EndedOnesLeave'
  BY <1>f, <1>n DEF EndedOnesLeave
<1>7. RunningAtHome'
  <2>1. ASSUME NEW u \in Mains, active[u] # m  PROVE home'[active[u]] = home[active[u]]
    BY <1>g, <1>k, <2>1
  <2>2. ASSUME NEW u \in Mains, active[u] = m
        PROVE  Waits(u)' /\ (m \in Pinned => home'[m] = home[m]) /\ m \notin terminated
    BY <1>c, <1>g, <1>k, <1>n, <1>p, <1>r, <2>2
  <2> QED
    BY <1>f, <1>n, <2>1, <2>2 DEF RunningAtHome
<1>8. KeptAtHome'
  <2>1. ASSUME NEW d \in Contexts, d # m  PROVE kept'[d] = kept[d] /\ home'[d] = home[d]
    BY <1>g, <1>m, <2>1
  <2>2. /\ \A u \in Mains : OwnQ(u) \in kept'[m] \/ NextOf(u) \in kept'[m] => home'[m] = u
        /\ CondQ \notin kept'[m] /\ \A v \in Workers : WaitQ(v) \notin kept'[m]
        /\ SharedQ \in kept'[m] => m \in Workers
    BY <1>g, <1>n, <1>r
  <2> QED
    BY <2>1, <2>2 DEF KeptAtHome
<1>9. ThreadsKeepOrder'
  BY <1>f DEF ThreadsKeepOrder
<1>10. CondLockHeld'
  BY <1>f, <1>k, <1>n DEF CondLockHeld, Waits
<1>11. MainIsParked'
  BY <1>c, <1>f, <1>g, <1>n DEF MainIsParked
<1>12. SharersAttach'
  <2>1. \A u \in Mains : at[u] \in {"code", "notifyOne", "notifyAll", "join"} =>
                          active[u] # m
    BY <1>c DEF Waits
  <2> QED
    BY <1>c, <1>f, <1>g, <1>k, <1>m, <1>n, <1>r, <2>1 DEF SharersAttach, Local
<1>13. AttachedAtHome'
  BY <1>c, <1>f, <1>g, <1>k, <1>m, <1>n, <1>p, <1>r DEF AttachedAtHome, IsAsync
<1>14. LateJoiners'
  <2>1. \A v \in terminated : home'[v] = home[v]
    BY <1>c, <1>g, <1>k
  <2>2. \A d \in Contexts : \A v \in terminated :
          WaitQ(v) \in kept'[d] => WaitQ(v) \in kept[d] /\ home'[d] = home[d]
    BY <1>g, <1>k, <1>m, <1>n, <1>r
  <2> QED
    BY <1>f, <1>q, <2>1, <2>2 DEF LateJoiners
<1>15. WithoutJoins'
  BY <1>c DEF WithoutJoins, NoJoins
<1>16. PinnedAtHome' /\ UnmadeHaveNoHome'
  BY <1>c, <1>f, <1>g, <1>k, <1>p, <1>r DEF PinnedAtHome, UnmadeHaveNoHome
<1> QED
  BY <1>m, <1>1, <1>2, <1>3, <1>4, <1>5, <1>6, <1>7, <1>8, <1>9, <1>10, <1>11, <1>12,
     <1>13, <1>14, <1>15, <1>16


LEMMA KeptNowhere ==
  ASSUME NEW c \in Contexts,
         c \notin Range(shared'), c \notin Range(cond'),
         \A t \in Mains : /\ c \notin Range(own'[t])
                          /\ ~(at'[t] = "switch" /\ chosen'[t] = c),
         \A w \in Workers : c \notin Range(waitList'[w])
  PROVE  kept'[c] = {}
<1> DEFINE A == {}
<1>1. A \in SUBSET Spots /\ kept'[c] \in SUBSET Spots
  BY HeldNext DEF SpotsHold
<1>2. \A r : r \notin A
  OBVIOUS
<1> HIDE DEF A
<1>3. kept'[c] = A
  BY <1>1, <1>2, HeldNext, SameSpots DEF SpotsHold
<1> QED
  BY <1>3 DEF A

\* What a switch finds.
LEMMA SwitchFinds ==
  ASSUME SharedInv, NEW t \in Mains, Switch(t)
  PROVE  /\ chosen[t] \in Live /\ chosen[t] \in Contexts /\ chosen[t] \notin terminated
         /\ kept[chosen[t]] = {NextOf(t)} /\ home[chosen[t]] = t
         /\ \A u \in Mains : active[u] # chosen[t]
         /\ \A u \in Mains : u = chosen[t] \/ DispatcherOf[u] = chosen[t] => u = t
         /\ chosen[t] \in Workers /\ ~Local(t) => chosen[t] \in attached[t]
         /\ at[t] = "switch"
         /\ \/ back[t] = NoOne
            \/ /\ back[t] = active[t] /\ kept[active[t]] = {} /\ home[active[t]] = t
               /\ active[t] \in Live /\ active[t] \notin terminated
               /\ \A u \in Mains : u = active[t] => ~shutdown[u]
               /\ \A u \in Mains : DispatcherOf[u] = active[t] => u = t
<1> USE DEF SharedInv
<1> DEFINE m == chosen[t]
           a == active[t]
<1>k. NoOne \notin Contexts /\ a \in Contexts
  BY Sorts DEF TypeInv
<1>1. at[t] = "switch" /\ Resumable(m)
  BY DEF Switch
<1>2. m \in Contexts
  BY <1>1 DEF TypeInv, TypeOK, ThreadsKnowWhom
<1>3. NextOf(t) \in kept[m]
  BY <1>1, <1>2, Held DEF SpotsHold
<1>4. kept[m] = {NextOf(t)} /\ m \in Live /\ home[m] = t
  BY <1>2, <1>3 DEF OneSpotEach, KeptAreLive, KeptAtHome
<1>5. m \notin terminated /\ \A u \in Mains : active[u] # m
  BY <1>1, <1>4, RunningIs DEF Resumable, OthersAreSaved, TypeInv
<1>6. \A u \in Mains : u = m \/ DispatcherOf[u] = m => u = t
  BY <1>4 DEF PinnedAtHome
<1>7. m \in Workers /\ ~Local(t) => m \in attached[t]
  BY <1>3 DEF SharersAttach
<1>8. ASSUME back[t] # NoOne
      PROVE  /\ back[t] = a /\ kept[a] = {} /\ home[a] = t /\ a \in Live /\ a \notin terminated
             /\ \A u \in Mains : u = a => ~shutdown[u]
             /\ \A u \in Mains : DispatcherOf[u] = a => u = t
  <2>1. back[t] = a /\ ~Waits(t)
    BY <1>1, <1>8 DEF ThreadsKeepOrder, Waits
  <2>2. kept[a] = {} /\ home[a] = t
    BY <2>1 DEF RunningIsFree, RunningAtHome
  <2>3. a \notin terminated
    BY <1>1, <2>1 DEF EndedOnesLeave
  <2>4. a \in Live
    BY <1>k, <2>3 DEF Live, Contexts, TypeInv, OnlyMadeOnesRun
  <2>5. \A u \in Mains : u = a \/ DispatcherOf[u] = a => u = t
    BY <2>2 DEF PinnedAtHome
  <2>6. a = t => ~shutdown[t]
    BY <1>1, <2>1 DEF MainIsParked
  <2> QED
    BY <2>1, <2>2, <2>3, <2>4, <2>5, <2>6
<1> QED
  BY <1>1, <1>2, <1>4, <1>5, <1>6, <1>7, <1>8

LEMMA SwitchKeeps ==
  ASSUME SharedInv, TypeInv', NEW t \in Mains, Switch(t)
  PROVE  SharedInv'
<1> USE DEF SharedInv
<1> DEFINE m == chosen[t]
           a == active[t]
           S == ReadySpot(t, a)
<1>k. /\ NoOne \notin Contexts /\ NoOne \notin Mains /\ a \in Contexts
      /\ \A u \in Mains : /\ u \in Contexts /\ u \in Pinned /\ u \notin Workers
                          /\ DispatcherOf[u] \in Contexts /\ DispatcherOf[u] \in Pinned
                          /\ DispatcherOf[u] \notin Fibers /\ active[u] \in Contexts
      /\ \A v \in Workers : v \in Contexts /\ v \notin Pinned
      /\ \A v \in launched : v \in Workers /\ v \in Contexts
      /\ \A v \in terminated : v \in launched
  BY Sorts DEF TypeInv
<1>b. /\ m \in Live /\ m \in Contexts /\ m \notin terminated
      /\ kept[m] = {NextOf(t)} /\ home[m] = t
      /\ \A u \in Mains : active[u] # m
      /\ \A u \in Mains : u = m \/ DispatcherOf[u] = m => u = t
      /\ m \in Workers /\ ~Local(t) => m \in attached[t]
      /\ at[t] = "switch"
      /\ \/ back[t] = NoOne
         \/ /\ back[t] = a /\ kept[a] = {} /\ home[a] = t
            /\ a \in Live /\ a \notin terminated
            /\ \A u \in Mains : u = a => ~shutdown[u]
            /\ \A u \in Mains : DispatcherOf[u] = a => u = t
  BY SwitchFinds
<1>a. /\ a # m /\ \A u \in Mains : active[u] = a => u = t
      /\ a \in Live \/ a \in terminated
  BY <1>b, <1>k DEF ActiveApart, Live, Contexts, TypeInv, OnlyMadeOnesRun
<1>f. /\ active'[t] = m /\ saved'[a] = TRUE /\ saved'[m] = FALSE
      /\ \A d \in Contexts : d # a /\ d # m => saved'[d] = saved[d]
      /\ at'[t] = Entry(t, m) /\ chosen'[t] = NoOne /\ back'[t] = NoOne
      /\ condLock' = IF condLock = t THEN NoOne ELSE condLock
      /\ \A u \in Mains : u # t => /\ active'[u] = active[u] /\ at'[u] = at[u]
                                   /\ chosen'[u] = chosen[u] /\ back'[u] = back[u]
      /\ UNCHANGED <<policy, origin, launched, terminated, cond, waitList, shutdown, halted>>
  BY <1>a, <1>b, <1>k DEF Switch, Goto, lifeVars, TypeInv, TypeOK
<1>r. /\ S # CondQ /\ S \in Spots /\ \A v \in Workers : S # WaitQ(v)
      /\ \A u \in Mains : /\ S # NextOf(u)
                          /\ S = OwnQ(u) => u = t /\ (a \in Workers => Local(t))
      /\ S = SharedQ => a \in Workers
  BY <1>k, ReadySpots
<1>e. /\ at'[t] \in {"loop", "exited", "code"}
      /\ at'[t] = "loop" => m = DispatcherOf[t]
      /\ at'[t] = "exited" <=> m = t /\ shutdown[t]
      /\ at'[t] = "code" => m \in Fibers
  <2>1. m \in Dispatchers => m = DispatcherOf[t]
    BY <1>b, Kinds DEF Dispatchers, Range
  <2>2. t \notin Dispatchers /\ (m \notin Dispatchers => m \in Fibers)
    BY <1>b, Kinds DEF Contexts, Pinned, Fibers
  <2> QED
    BY <1>f, <2>1, <2>2 DEF Entry
<1>h. /\ \A d \in Contexts : d # a => home'[d] = home[d]
      /\ home'[a] = home[a] \/ (home'[a] = NoOne /\ back[t] = a /\ S = SharedQ)
      /\ back[t] = a /\ S = SharedQ /\ ~IsAsync(a) => home'[a] = NoOne /\ a \notin attached'[t]
      /\ \A u \in Mains : attached'[u] \subseteq attached[u]
      /\ \A u \in Mains : \A d : d # a /\ d \in attached[u] => d \in attached'[u]
  <2>1. CASE back[t] = NoOne
    BY <1>k, <2>1 DEF Switch, queueVars
  <2>2. CASE back[t] = a /\ home[a] = t
    <3>1. home \in [Contexts -> Mains \cup {NoOne}] /\ attached \in [Mains -> SUBSET Workers]
      BY DEF TypeInv, TypeOK
    <3>2. Schedule(t, a, home, attached)
      BY <1>k, <2>2 DEF Switch
    <3> HIDE DEF a
    <3> QED
      BY <1>k, <2>2, <3>1, <3>2, ScheduledHome
  <2> QED
    BY <1>b, <2>1, <2>2
<1>q. /\ QueuesRepeatNothing'
      /\ \A d \in Contexts : d # a /\ d # m => Stays(d)
      /\ kept'[m] = {}
      /\ \/ back[t] = NoOne /\ Stays(a)
         \/ back[t] = a /\ Goes(a, S)
  <2>1. CASE back[t] = NoOne
    <3>1. UNCHANGED <<shared, own>>
      BY <2>1 DEF Switch, queueVars
    <3>2. QueuesRepeatNothing'
      BY <1>f, <3>1 DEF QueuesRepeatNothing
    <3>3. ASSUME NEW d \in Contexts, d # m  PROVE Stays(d)
      BY <1>b, <1>e, <1>f, <3>1, <3>3 DEF Stays
    <3>4. /\ m \notin Range(shared) /\ m \notin Range(cond)
          /\ \A u \in Mains : /\ m \notin Range(own[u])
                              /\ u # t => ~(at[u] = "switch" /\ chosen[u] = m)
          /\ \A v \in Workers : m \notin Range(waitList[v])
      BY <1>b, Held, SpotsApart DEF SpotsHold
    <3>5. kept'[m] = {}
      <4> HIDE DEF m
      <4> QED
        BY <1>b, <1>e, <1>f, <3>1, <3>4, KeptNowhere
    <3> QED
      BY <1>a, <1>k, <2>1, <3>2, <3>3, <3>5
  <2>2. CASE back[t] = a /\ kept[a] = {}
    <3>1. /\ IsInjective(shared') /\ \A u \in Mains : IsInjective(own'[u])
          /\ \A d : d # a => /\ d \in Range(shared') <=> d \in Range(shared)
                             /\ \A u \in Mains : d \in Range(own'[u]) <=> d \in Range(own[u])
          /\ a \in Range(shared') <=> S = SharedQ
          /\ \A u \in Mains : a \in Range(own'[u]) <=> S = OwnQ(u)
      <4>1. Schedule(t, a, home, attached)
        BY <1>k, <2>2 DEF Switch
      <4> HIDE DEF a
      <4> QED
        BY <1>k, <2>2, <4>1, Scheduled DEF TypeInv, S
    <3>2. QueuesRepeatNothing'
      BY <1>f, <3>1 DEF QueuesRepeatNothing
    <3>3. ASSUME NEW d \in Contexts, d # a, d # m  PROVE Stays(d)
      <4> HIDE DEF a, m
      <4> QED
        BY <1>b, <1>e, <1>f, <3>1, <3>3 DEF Stays, m
    <3>4. /\ m \notin Range(shared) /\ m \notin Range(cond)
          /\ \A u \in Mains : /\ m \notin Range(own[u])
                              /\ u # t => ~(at[u] = "switch" /\ chosen[u] = m)
          /\ \A v \in Workers : m \notin Range(waitList[v])
      BY <1>b, Held, SpotsApart DEF SpotsHold
    <3>5. kept'[m] = {}
      <4>1. m \notin Range(shared') /\ \A u \in Mains : m \notin Range(own'[u])
        BY <1>a, <3>1, <3>4
      <4> HIDE DEF m
      <4> QED
        BY <1>b, <1>e, <1>f, <3>4, <4>1, KeptNowhere
    <3>6. /\ a \notin Range(cond)
          /\ \A u \in Mains : ~(at[u] = "switch" /\ chosen[u] = a)
          /\ \A v \in Workers : a \notin Range(waitList[v])
      BY <1>k, <2>2, Held DEF SpotsHold
    <3>7. Goes(a, S)
      <4> HIDE DEF a, S
      <4> QED
        BY <1>e, <1>f, <1>r, <3>1, <3>6 DEF Goes
    <3> QED
      BY <2>2, <3>2, <3>3, <3>5, <3>7
  <2> QED
    BY <1>b, <2>1, <2>2
<1>d. /\ a = active[t] /\ m = chosen[t]
  OBVIOUS
<1> HIDE DEF m, a, S
<1>m. /\ \A d \in Contexts : d # a /\ d # m => kept'[d] = kept[d]
      /\ \/ back[t] = NoOne /\ kept'[a] = kept[a]
         \/ back[t] = a /\ (\A s : s \in kept'[a] <=> s = S)
      /\ Live' = Live /\ \A d \in Live : d \in Contexts
      /\ \A u \in Mains : u # t => kept'[active[u]] = kept[active[u]]
      /\ \A d : Parked(d) => Parked(d)'
      /\ \A u \in Mains : u # t => (Waits(u)' <=> Waits(u))
      /\ ~Waits(t)' /\ \A s : s \notin kept'[m]
      /\ \A d : d \in Running' <=> d = m \/ (d # a /\ d \in Running)
  <2>1. /\ \A d \in Contexts : d # a /\ d # m => kept'[d] = kept[d]
        /\ \/ back[t] = NoOne /\ kept'[a] = kept[a]
           \/ back[t] = a /\ kept'[a] = {S}
    BY <1>k, <1>q, <1>r, KeptStays, KeptGoes
  <2>2. Live' = Live /\ \A d \in Live : d \in Contexts
    BY <1>f, <1>k DEF Live, Contexts
  <2>3. \A u \in Mains : u # t => kept'[active[u]] = kept[active[u]]
    BY <1>a, <1>b, <1>k, <2>1
  <2>4. \A d : Parked(d) => Parked(d)'
    <3>1. \A u \in Mains : at[u] = "exited" => u # t
      BY <1>b
    <3> QED
      BY <1>f, <3>1 DEF Parked
  <2>5. /\ \A u \in Mains : u # t => (Waits(u)' <=> Waits(u))
        /\ ~Waits(t)'
    BY <1>e, <1>f DEF Waits
  <2>6. \A d : d \in Running' <=> d = m \/ (d # a /\ d \in Running)
    <3>1. /\ \A d : d \in Running <=> \E u \in Mains : active[u] = d
          /\ \A d : d \in Running' <=> \E u \in Mains : active'[u] = d
      BY RunningIs, RunningNext DEF TypeInv
    <3> QED
      BY <1>a, <1>d, <1>f, <3>1
  <2> QED
    BY <1>q, <2>1, <2>2, <2>3, <2>4, <2>5, <2>6
<1>n. kept'[a] = kept[a] \/ (back[t] = a /\ \A s : s \in kept'[a] => s = S)
  BY <1>m
<1>1. OneSpotEach'
  BY <1>m DEF OneSpotEach
<1>2. KeptAreLive'
  BY <1>b, <1>k, <1>m DEF KeptAreLive
<1>3. RunningIsFree'
  <2>1. ASSUME NEW u \in Mains, u # t, kept'[active'[u]] # {}
        PROVE  Waits(u)' /\ active'[u] # DispatcherOf[u]
    BY <1>f, <1>m, <2>1 DEF RunningIsFree
  <2>2. kept'[active'[t]] = {}
    BY <1>f, <1>q
  <2> QED
    BY <2>1, <2>2 DEF RunningIsFree
<1>4. LiveAreSomewhere'
  <2>1. ASSUME NEW d \in Live  PROVE d \in Running' \/ kept'[d] # {} \/ Parked(d)'
    <3>1. CASE d = m
      BY <1>m, <3>1
    <3>2. CASE d # m /\ d # a
      BY <1>m, <3>2 DEF LiveAreSomewhere
    <3>3. CASE d = a /\ back[t] = a
      BY <1>k, <1>m, <3>3
    <3>4. CASE d = a /\ back[t] = NoOne
      <4>1. Waits(t) /\ a \notin terminated
        BY <1>b, <1>k, <3>4 DEF Waits, Live
      <4>2. \/ kept[a] # {}
            \/ a = t /\ shutdown[t]
            \/ a = DispatcherOf[t] /\ chosen[t] = t /\ shutdown[t]
        BY <1>d, <4>1 DEF WaitersAreKept
      <4>3. d = t /\ shutdown[t] => Parked(d)'
        BY <1>f DEF Parked
      <4>4. d = DispatcherOf[t] /\ chosen[t] = t /\ shutdown[t] => Parked(d)'
        BY <1>d, <1>e, <1>f DEF Parked
      <4> QED
        BY <1>k, <1>m, <3>4, <4>2, <4>3, <4>4
    <3> QED
      BY <1>b, <3>1, <3>2, <3>3, <3>4
  <2> QED
    BY <1>m, <2>1 DEF LiveAreSomewhere
<1>5. WaitersAreKept'
  BY <1>f, <1>m DEF WaitersAreKept
<1>6. ActiveApart' /\ NoNull'
  BY <1>b, <1>f DEF ActiveApart, NoNull
<1>7. OthersAreSaved'
  <2>1. a \notin Running' /\ m \in Running'
    BY <1>a, <1>m
  <2> QED
    BY <1>f, <1>m, <2>1 DEF OthersAreSaved
<1>8. EndedOnesLeave'
  BY <1>b, <1>f, <1>m DEF EndedOnesLeave
<1>9. PinnedAtHome'
  <2>1. \A d \in Pinned : d \in Contexts => home'[d] = home[d]
    BY <1>h, <1>k, <1>r
  <2> QED
    BY <1>k, <2>1 DEF PinnedAtHome
<1>10. RunningAtHome'
  <2>1. \A u \in Mains : u # t => home'[active[u]] = home[active[u]]
    BY <1>a, <1>h, <1>k
  <2>2. home'[m] = t
    BY <1>a, <1>b, <1>h
  <2> QED
    BY <1>f, <1>m, <2>1, <2>2 DEF RunningAtHome
<1>11. KeptAtHome'
  <2>1. ASSUME NEW d \in Contexts, d # a, d # m
        PROVE kept'[d] = kept[d] /\ home'[d] = home[d]
    BY <1>h, <1>m, <2>1
  <2>2. ASSUME kept'[a] # kept[a]
        PROVE  /\ \A u \in Mains : OwnQ(u) \in kept'[a] \/ NextOf(u) \in kept'[a] => home'[a] = u
               /\ CondQ \notin kept'[a] /\ \A v \in Workers : WaitQ(v) \notin kept'[a]
               /\ SharedQ \in kept'[a] => a \in Workers
    <3>1. \A u \in Mains : SharedQ # OwnQ(u)
      BY SpotsApart
    <3> QED
      BY <1>b, <1>h, <1>k, <1>n, <1>r, <2>2, <3>1
  <2>3. ASSUME kept'[a] = kept[a], home'[a] # home[a]  PROVE FALSE
    BY <1>b, <1>h, <1>k, <1>m, <2>3
  <2> QED
    BY <1>k, <1>m, <2>1, <2>2, <2>3 DEF KeptAtHome
<1>12. UnmadeHaveNoHome'
  <2>1. \A v \in Workers \ launched : v # a
    BY <1>a, <1>k DEF Live
  <2> QED
    BY <1>f, <1>h, <1>k, <2>1 DEF UnmadeHaveNoHome
<1>13. ThreadsKeepOrder'
  <2>1. /\ at'[t] \notin {"switch", "join", "pick", "idle", "notifyOne", "notifyAll"}
        /\ at'[t] = "loop" => active'[t] = DispatcherOf[t]
        /\ at'[t] = "code" => active'[t] \in Fibers
        /\ at'[t] = "exited" => active'[t] = t /\ shutdown'[t]
    BY <1>e, <1>f
  <2> QED
    BY <1>f, <2>1 DEF ThreadsKeepOrder
<1>14. CondLockHeld'
  BY <1>e, <1>f, <1>k, <1>m DEF CondLockHeld
<1>15. MainIsParked'
  <2>1. \A u \in Mains : shutdown[u] => kept'[u] \subseteq {NextOf(u)}
    BY <1>b, <1>k, <1>m, <1>n DEF MainIsParked
  <2>2. \A u \in Mains : shutdown[u] /\ active'[u] = u => Waits(u)' \/ at'[u] = "exited"
    BY <1>e, <1>f, <1>m DEF MainIsParked
  <2>3. \A u \in Mains : shutdown[u] /\ at'[u] = "switch" /\ chosen'[u] = u =>
                           active'[u] = DispatcherOf[u] /\ back'[u] = NoOne /\ attached'[u] = {}
    BY <1>e, <1>f, <1>h DEF MainIsParked
  <2>4. ASSUME NEW u \in Mains, at'[u] = "exited"
        PROVE  attached'[u] = {} /\ kept'[DispatcherOf[u]] = {}
    <3>1. CASE u = t
      <4>1. active[t] = DispatcherOf[t] /\ back[t] = NoOne /\ attached[t] = {}
        BY <1>b, <1>d, <1>e, <2>4, <3>1 DEF MainIsParked
      <4>2. kept[a] = {}
        BY <1>d, <4>1 DEF RunningIsFree
      <4> QED
        BY <1>d, <1>h, <1>k, <1>m, <3>1, <4>1, <4>2
    <3>2. CASE u # t
      <4>1. attached[u] = {} /\ kept[DispatcherOf[u]] = {}
        BY <1>f, <2>4, <3>2 DEF MainIsParked
      <4>2. DispatcherOf[u] # m /\ (back[t] = a => DispatcherOf[u] # a)
        BY <1>b, <1>k, <3>2
      <4> QED
        BY <1>h, <1>k, <1>m, <4>1, <4>2
    <3> QED
      BY <3>1, <3>2
  <2> QED
    BY <1>f, <2>1, <2>2, <2>3, <2>4 DEF MainIsParked
<1>16. SharersAttach'
  <2>1. ASSUME NEW u \in Mains, ~Local(u), at'[u] \in {"code", "notifyOne", "notifyAll", "join"}
        PROVE  active'[u] \in Pinned \cup attached'[u]
    <3>1. CASE u = t
      <4>1. m \in Pinned \cup attached[t]
        BY <1>b, <2>1, <3>1 DEF Contexts
      <4> QED
        BY <1>a, <1>f, <1>h, <3>1, <4>1
    <3>2. CASE u # t
      <4>1. active[u] \in Pinned \cup attached[u] /\ active[u] # a
        BY <1>a, <1>f, <2>1, <3>2 DEF SharersAttach
      <4> QED
        BY <1>f, <1>h, <3>2, <4>1
    <3> QED
      BY <3>1, <3>2
  <2>2. ASSUME NEW u \in Mains, ~Local(u), NEW c \in Workers
        PROVE  /\ OwnQ(u) \notin kept'[c]
               /\ NextOf(u) \in kept'[c] => c \in attached'[u]
               /\ CondQ \in kept'[c] /\ home'[c] = u => c \in attached'[u]
    <3>1. CASE c = m
      BY <1>m, <3>1
    <3>2. CASE c # m /\ c # a
      BY <1>h, <1>k, <1>m, <2>2, <3>2 DEF SharersAttach
    <3>3. CASE c = a /\ back[t] = a
      BY <1>k, <1>m, <1>r, <2>2, <3>3
    <3>4. CASE c = a /\ back[t] = NoOne
      <4>1. attached' = attached /\ home'[c] = home[c] /\ kept'[c] = kept[c]
        BY <1>h, <1>k, <1>m, <3>4 DEF Switch, queueVars
      <4> QED
        BY <2>2, <4>1 DEF SharersAttach
    <3> QED
      BY <1>b, <3>1, <3>2, <3>3, <3>4
  <2> QED
    BY <1>f, <2>1, <2>2 DEF SharersAttach, Local
<1>17. AttachedAtHome'
  <2>1. ASSUME NEW v \in Workers, ~IsAsync(v)
        PROVE  /\ \A u \in Mains : v \in attached'[u] => home'[v] = u
               /\ SharedQ \in kept'[v] => home'[v] = NoOne
    <3>1. CASE v = m
      BY <1>a, <1>b, <1>h, <1>m, <2>1, <3>1 DEF AttachedAtHome
    <3>2. CASE v # m /\ v # a
      BY <1>h, <1>k, <1>m, <2>1, <3>2 DEF AttachedAtHome
    <3>3. CASE v = a /\ back[t] = a
      <4>1. \A u \in Mains : v \in attached'[u] => u = t /\ home[v] = u
        BY <1>b, <1>h, <1>k, <2>1, <3>3 DEF AttachedAtHome
      <4>2. home'[v] # home[v] => S = SharedQ
        BY <1>h, <3>3
      <4> QED
        BY <1>h, <1>k, <1>m, <2>1, <3>3, <4>1, <4>2
    <3>4. CASE v = a /\ back[t] = NoOne
      BY <1>h, <1>k, <1>m, <2>1, <3>4 DEF AttachedAtHome
    <3> QED
      BY <1>b, <3>1, <3>2, <3>3, <3>4
  <2> QED
    BY <1>f, <2>1 DEF AttachedAtHome, IsAsync
<1>18. LateJoiners'
  <2>1. \A v \in terminated : home'[v] = home[v]
    BY <1>b, <1>h, <1>k
  <2>2. \A d \in Contexts : \A v \in terminated :
          WaitQ(v) \in kept'[d] => WaitQ(v) \in kept[d] /\ home'[d] = home[d]
    BY <1>b, <1>h, <1>k, <1>m, <1>r
  <2>3. \A u \in Mains : at[u] = "ending" \/ at'[u] = "join" => u # t
    BY <1>b, <1>e
  <2> QED
    BY <1>f, <2>1, <2>2, <2>3 DEF LateJoiners
<1>19. WithoutJoins'
  <2>1. NoJoins => \A u \in Mains : kept'[active'[u]] \subseteq {CondQ}
    BY <1>f, <1>m DEF WithoutJoins
  <2>2. NoJoins => \A u \in Mains : at'[u] # "join"
    BY <1>e, <1>f DEF WithoutJoins
  <2> QED
    BY <1>f, <2>1, <2>2 DEF WithoutJoins
<1> QED
  BY <1>q, <1>1, <1>2, <1>3, <1>4, <1>5, <1>6, <1>7, <1>8, <1>9, <1>10, <1>11, <1>12,
     <1>13, <1>14, <1>15, <1>16, <1>17, <1>18, <1>19

\* A program that stops changes nothing; it must not stop for want of a
\* context or a scheduler, and without joins it never resumes a bad one.
LEMMA HaltKeeps ==
  ASSUME SharedInv, TypeInv', NEW why, why # "null", NoJoins => why # "crash", Halt(why)
  PROVE  SharedInv'
<1> USE DEF SharedInv
<1>f. /\ halted' = why
      /\ UNCHANGED <<shared, own, home, attached, policy, origin, launched, terminated,
                     cond, condLock, waitList, active, saved, at, chosen, back, shutdown>>
  BY DEF Halt, queueVars, lifeVars, waitVars, cpuVars
<1>1. kept' = kept /\ Live' = Live /\ Running' = Running
  BY <1>f DEF kept, Live, Running
<1>2. /\ \A c : Parked(c)' <=> Parked(c)
      /\ \A t : Waits(t)' <=> Waits(t)
      /\ \A t : Local(t)' <=> Local(t)
      /\ \A w : IsAsync(w)' <=> IsAsync(w)
  BY <1>f DEF Parked, Waits, Local, IsAsync
<1>3. OneSpotEach' /\ QueuesRepeatNothing' /\ KeptAreLive'
  BY <1>f, <1>1 DEF OneSpotEach, QueuesRepeatNothing, KeptAreLive
<1>4. RunningIsFree' /\ LiveAreSomewhere'
  BY <1>f, <1>1, <1>2 DEF RunningIsFree, LiveAreSomewhere
<1>5. WaitersAreKept' /\ ActiveApart' /\ OthersAreSaved' /\ EndedOnesLeave'
  BY <1>f, <1>1, <1>2 DEF WaitersAreKept, ActiveApart, OthersAreSaved, EndedOnesLeave
<1>6. PinnedAtHome' /\ RunningAtHome' /\ KeptAtHome' /\ UnmadeHaveNoHome'
  BY <1>f, <1>1, <1>2 DEF PinnedAtHome, RunningAtHome, KeptAtHome, UnmadeHaveNoHome
<1>7. ThreadsKeepOrder' /\ CondLockHeld'
  BY <1>f, <1>1, <1>2 DEF ThreadsKeepOrder, CondLockHeld
<1>8. MainIsParked'
  BY <1>f, <1>1, <1>2 DEF MainIsParked
<1>9. SharersAttach' /\ AttachedAtHome'
  BY <1>f, <1>1, <1>2 DEF SharersAttach, AttachedAtHome
<1>10. LateJoiners' /\ NoNull' /\ WithoutJoins'
  BY <1>f, <1>1 DEF LateJoiners, NoNull, WithoutJoins
<1> QED
  BY <1>3, <1>4, <1>5, <1>6, <1>7, <1>8, <1>9, <1>10

\* A thread that looks for the next context has its dispatcher to fall back
\* on: the dispatcher runs there or is in the thread's own queue.
LEMMA DispatcherIsThere ==
  ASSUME SharedInv, NEW t \in Mains, at[t] = "pick"
  PROVE  active[t] = DispatcherOf[t] \/ own[t] # <<>>
<1> USE DEF SharedInv
<1> DEFINE d == DispatcherOf[t]
<1>1. /\ d \in Contexts /\ d \in Live /\ d \in Pinned /\ d \notin Workers
      /\ d \notin Fibers /\ \A u \in Mains : u # d
  BY Sorts DEF TypeInv, Live, Pinned, Fibers
<1>2. \A u \in Mains : home[d] = u => u = t
  BY DEF PinnedAtHome
<1>3. CASE d \in Running
  <2>1. PICK u \in Mains : active[u] = d
    BY <1>3, RunningIs DEF TypeInv
  <2>2. u = t
    BY <1>1, <1>2, <2>1 DEF RunningAtHome
  <2> QED
    BY <2>1, <2>2
<1>4. CASE kept[d] # {}
  <2>1. /\ CondQ \notin kept[d] /\ SharedQ \notin kept[d]
        /\ \A w \in Workers : WaitQ(w) \notin kept[d]
    BY <1>1 DEF KeptAtHome
  <2>2. \A u \in Mains : NextOf(u) \notin kept[d]
    BY <1>1, <1>2, Held DEF KeptAtHome, SpotsHold
  <2>3. PICK u \in Mains : OwnQ(u) \in kept[d]
    BY <1>1, <1>4, <2>1, <2>2, Held DEF SpotsHold, Spots
  <2>4. u = t
    BY <1>1, <1>2, <2>3 DEF KeptAtHome
  <2>5. d \in Range(own[t])
    BY <1>1, <2>3, <2>4, Held DEF SpotsHold
  <2> QED
    BY <2>5, EmptyQueue
<1>5. CASE Parked(d)
  <2>1. PICK u \in Mains : d = DispatcherOf[u] /\ at[u] = "exited"
    BY <1>1, <1>5 DEF Parked
  <2>2. u = t
    BY <1>2, <2>1 DEF PinnedAtHome
  <2> QED
    BY <2>1, <2>2
<1> QED
  BY <1>1, <1>3, <1>4, <1>5 DEF LiveAreSomewhere

LEMMA LaunchHaltsKeeps ==
  ASSUME SharedInv, TypeInv', NEW t \in Mains, NEW c \in Fibers,
         LaunchHalts(t, c) \/ SuspendHalts(t, c)
  PROVE  SharedInv'
<1> USE DEF SharedInv
<1>1. at[t] = "code" /\ active[t] = c /\ NoOne \notin Mains
  BY Sorts DEF LaunchHalts, SuspendHalts, InUserCode, TypeInv
<1>2. home[c] # NoOne
  BY <1>1 DEF RunningAtHome, Waits
<1>3. Halt("mutex")
  BY <1>2 DEF LaunchHalts, SuspendHalts
<1> QED
  BY <1>3, HaltKeeps

LEMMA WakeHaltsKeeps ==
  ASSUME SharedInv, TypeInv', NEW t \in Mains, NotifyHalts(t) \/ WakeJoinerHalts(t)
  PROVE  SharedInv'
<1> USE DEF SharedInv
<1>1. ASSUME NotifyHalts(t)  PROVE Halt("freed")
  <2>1. Head(cond) \in Fibers /\ Head(cond) \in Contexts /\ Head(cond) \in Range(cond)
    <3>1. cond # <<>> /\ cond \in Seq(Fibers)
      BY <1>1 DEF NotifyHalts, CondLockHeld, TypeInv, TypeOK
    <3>2. Head(cond) \in Fibers /\ Head(cond) \in Range(cond)
      BY <3>1, TailApart
    <3> QED
      BY <3>2, Sorts DEF TypeInv
  <2>2. home[Head(cond)] # NoOne
    BY <2>1, Held DEF SpotsHold, KeptAtHome
  <2> QED
    BY <1>1, <2>2 DEF NotifyHalts, WakeHalts
<1>2. ASSUME WakeJoinerHalts(t)  PROVE Halt("freed")
  <2> DEFINE w == active[t]
  <2>1. w \in Workers
    BY <1>2, Sorts DEF WakeJoinerHalts, TypeInv, ThreadsKnowWhom
  <2>2. waitList[w] \in Seq(Fibers) /\ waitList[w] # <<>>
    BY <1>2, <2>1 DEF WakeJoinerHalts, TypeInv, TypeOK
  <2>3. /\ Head(waitList[w]) \in Contexts
        /\ Head(waitList[w]) \in Range(waitList[w])
    BY <2>2, TailApart, Sorts DEF TypeInv
  <2>4. home[Head(waitList[w])] # NoOne
    BY <2>1, <2>3, Held DEF SpotsHold, KeptAtHome
  <2> QED
    BY <1>2, <2>4 DEF WakeJoinerHalts, WakeHalts
<1> QED
  BY <1>1, <1>2, HaltKeeps

LEMMA ThreadHaltsKeeps ==
  ASSUME SharedInv, TypeInv', NEW t \in Mains,
         TerminateHalts(t) \/ PickNextHalts(t) \/ SwitchHalts(t)
  PROVE  SharedInv'
<1> USE DEF SharedInv
<1>1. ASSUME TerminateHalts(t)  PROVE Halt("mutex")
  <2>1. home[active[t]] = t /\ t # NoOne
    BY <1>1, Sorts DEF TerminateHalts, TypeInv, ThreadsKnowWhom, RunningAtHome
  <2> QED
    BY <1>1, <2>1 DEF TerminateHalts
<1>2. ASSUME PickNextHalts(t)  PROVE Halt("mutex")
  <2>1. active[t] \in Dispatchers \/ own[t] # <<>>
    BY <1>2, DispatcherIsThere, Kinds DEF PickNextHalts, Dispatchers, Range
  <2> QED
    BY <1>2, <2>1 DEF PickNextHalts
<1>3. ASSUME SwitchHalts(t)  PROVE Halt("crash") /\ ~NoJoins
  <2> DEFINE m == chosen[t]
  <2>1. at[t] = "switch" /\ m \in Contexts
    BY <1>3 DEF SwitchHalts, TypeInv, TypeOK, ThreadsKnowWhom
  <2>2. NextOf(t) \in kept[m]
    BY <2>1, Held DEF SpotsHold
  <2>3. m \in Live
    BY <2>1, <2>2 DEF KeptAreLive
  <2>4. m \notin terminated
    BY <2>3, Sorts DEF Live, TypeInv
  <2>5. ~saved[m]
    BY <1>3, <2>4 DEF SwitchHalts, Resumable
  <2>6. PICK u \in Mains : active[u] = m
    BY <2>3, <2>5, RunningIs DEF OthersAreSaved, TypeInv
  <2>7. ~NoJoins
    BY <2>2, <2>6, SpotsApart DEF WithoutJoins
  <2> QED
    BY <1>3, <2>7 DEF SwitchHalts
<1> QED
  BY <1>1, <1>2, <1>3, HaltKeeps

-----------------------------------------------------------------------------
LEMMA SharedInvInit == Init => SharedInv
<1> SUFFICES ASSUME Init PROVE SharedInv
  OBVIOUS
<1>1. TypeInv
  BY TypeInit
<1>k. /\ NoOne \notin Contexts /\ NoOne \notin Mains
      /\ \A u \in Mains : /\ u \in Contexts /\ u \in Pinned /\ u \notin Workers
                          /\ DispatcherOf[u] \in Contexts /\ DispatcherOf[u] \in Pinned
                          /\ DispatcherOf[u] \notin Fibers /\ u # DispatcherOf[u]
                          /\ u \in Fibers /\ u \notin Dispatchers
                          /\ DispatcherOf[u] \in Dispatchers
      /\ \A v \in Workers : v \in Contexts /\ v \notin Pinned
      /\ \A u, v \in Mains : DispatcherOf[u] = DispatcherOf[v] => u = v
      /\ \A d \in Pinned : d \in Mains \/ \E u \in Mains : d = DispatcherOf[u]
  BY <1>1, Sorts, Kinds DEF TypeInv, Fibers, Pinned, Dispatchers, Range
<1>2. /\ active = [t \in Mains |-> t]
      /\ shared = <<>> /\ cond = <<>> /\ condLock = NoOne
      /\ own = [t \in Mains |-> <<DispatcherOf[t]>>]
      /\ waitList = [w \in Workers |-> <<>>]
      /\ saved = [c \in Contexts |-> c \in Dispatchers]
      /\ at = [t \in Mains |-> "code"] /\ chosen = [t \in Mains |-> NoOne]
      /\ back = [t \in Mains |-> NoOne] /\ shutdown = [t \in Mains |-> FALSE]
      /\ launched = {} /\ terminated = {} /\ halted = "no"
      /\ attached = [t \in Mains |-> {}] /\ origin = [w \in Workers |-> NoOne]
  BY DEF Init
<1>3. /\ \A t \in Mains : home[t] = t /\ home[DispatcherOf[t]] = t
      /\ \A w \in Workers : home[w] = NoOne
  BY <1>k DEF Init, Pinned
<1>4. /\ Range(shared) = {} /\ Range(cond) = {}
      /\ \A w \in Workers : Range(waitList[w]) = {} /\ IsInjective(waitList[w])
      /\ IsInjective(shared) /\ IsInjective(cond)
      /\ \A t \in Mains : Range(own[t]) = {DispatcherOf[t]} /\ IsInjective(own[t])
  BY <1>2, EmptyQueue DEF Range, IsInjective
<1>5. /\ \A t \in Mains : kept[DispatcherOf[t]] = {OwnQ(t)}
      /\ \A t \in Mains : kept[t] = {}
      /\ \A w \in Workers : kept[w] = {}
  <2>1. ASSUME NEW t \in Mains  PROVE kept[DispatcherOf[t]] = {OwnQ(t)}
    <3> DEFINE A == {OwnQ(t)}
               d == DispatcherOf[t]
    <3>1. /\ d \in Contexts /\ A \in SUBSET Spots
          /\ \A u \in Mains : d \in Range(own[u]) <=> u = t
      BY <1>4, <1>k, SpotsApart
    <3>2. /\ d \notin Range(shared) /\ d \notin Range(cond)
          /\ \A w \in Workers : d \notin Range(waitList[w])
          /\ \A u \in Mains : at[u] # "switch"
      BY <1>2, <1>4
    <3>3. /\ SharedQ \notin A /\ CondQ \notin A
          /\ \A u \in Mains : NextOf(u) \notin A /\ (OwnQ(u) \in A <=> u = t)
          /\ \A w \in Workers : WaitQ(w) \notin A
      BY SpotsApart
    <3> HIDE DEF A, d
    <3>4. kept[d] = A
      BY <3>1, <3>2, <3>3, Held, SameSpots DEF SpotsHold
    <3> QED
      BY <3>4 DEF A, d
  <2>2. ASSUME NEW c \in Fibers  PROVE kept[c] = {}
    <3>1. /\ c \in Contexts /\ c \notin Range(shared) /\ c \notin Range(cond)
          /\ \A w \in Workers : c \notin Range(waitList[w])
          /\ \A u \in Mains : c \notin Range(own[u]) /\ at[u] # "switch"
      BY <1>2, <1>4, <1>k, Kinds
    <3> QED
      BY <3>1, Held DEF SpotsHold, Spots
  <2> QED
    BY <2>1, <2>2 DEF Fibers
<1>6. \A c \in Contexts : c \in Workers \/ c \in Mains \/ \E t \in Mains : c = DispatcherOf[t]
  BY <1>k DEF Contexts
<1>7. /\ \A c : c \in Running <=> c \in Mains
      /\ Live = Pinned
  BY <1>2 DEF Running, Range, Live
<1>8. OneSpotEach /\ QueuesRepeatNothing
  BY <1>4, <1>5, <1>6 DEF OneSpotEach, QueuesRepeatNothing
<1>9. KeptAreLive /\ RunningIsFree /\ LiveAreSomewhere
  <2>1. \A c \in Live : c \in Mains \/ \E t \in Mains : c = DispatcherOf[t]
    BY <1>7, <1>k
  <2>2. \A t \in Mains : DispatcherOf[t] \in Live /\ kept[DispatcherOf[t]] # {}
    BY <1>5, <1>7, <1>k
  <2>3. KeptAreLive
    BY <1>5, <1>6, <2>2 DEF KeptAreLive
  <2>4. RunningIsFree
    BY <1>2, <1>5 DEF RunningIsFree
  <2>5. LiveAreSomewhere
    BY <1>7, <2>1, <2>2 DEF LiveAreSomewhere
  <2> QED
    BY <2>3, <2>4, <2>5
<1>10. WaitersAreKept /\ ActiveApart /\ EndedOnesLeave
  BY <1>2 DEF WaitersAreKept, ActiveApart, EndedOnesLeave, Waits
<1>11. OthersAreSaved
  BY <1>2, <1>7, <1>k DEF OthersAreSaved, Contexts
<1>12. PinnedAtHome /\ RunningAtHome /\ UnmadeHaveNoHome
  BY <1>2, <1>3, <1>k DEF PinnedAtHome, RunningAtHome, UnmadeHaveNoHome
<1>13. KeptAtHome
  BY <1>3, <1>5, <1>6, SpotsApart DEF KeptAtHome
<1>14. ThreadsKeepOrder /\ CondLockHeld
  BY <1>2, <1>k DEF ThreadsKeepOrder, CondLockHeld, Waits
<1>15. MainIsParked /\ LateJoiners /\ NoNull
  BY <1>2 DEF MainIsParked, LateJoiners, NoNull
<1>16. SharersAttach /\ AttachedAtHome
  BY <1>2, <1>5, <1>k DEF SharersAttach, AttachedAtHome
<1>17. WithoutJoins
  BY <1>2, <1>5 DEF WithoutJoins
<1> QED
  BY <1>1, <1>8, <1>9, <1>10, <1>11, <1>12, <1>13, <1>14, <1>15, <1>16, <1>17 DEF SharedInv

LEMMA SharedInvStep ==
  ASSUME NoOrigins, SharedInv, [Next]_vars
  PROVE  SharedInv'
<1>0. TypeInv'
  BY TypeStep DEF SharedInv
<1>1. ASSUME NEW t \in Mains, ThreadStep(t)  PROVE SharedInv'
  <2>1. ASSUME NEW c \in Fibers, NEW w \in Workers,
               Post(t, c, w) \/ Dispatch(t, c, w) \/ Async(t, c, w) \/ Join(t, c, w)
        PROVE  SharedInv'
    BY <1>0, <2>1, PostKeeps, DispatchKeeps, AsyncKeeps, JoinKeeps
  <2>2. ASSUME NEW c \in Fibers, LaunchHalts(t, c) \/ SuspendHalts(t, c)
        PROVE  SharedInv'
    BY <1>0, <2>2, LaunchHaltsKeeps
  <2>3. ASSUME NEW c \in Fibers, Yield(t, c) \/ CondWait(t, c)
        PROVE  SharedInv'
    BY <1>0, <2>3, YieldKeeps, CondWaitKeeps
  <2>4. ASSUME NEW c \in Fibers, YieldOrigin(t, c)
        PROVE  SharedInv'
    BY <2>4 DEF YieldOrigin, NoOrigins
  <2>5. ASSUME NEW c \in Fibers, NEW how \in {"notifyOne", "notifyAll"}, Notify(t, c, how)
        PROVE  SharedInv'
    BY <1>0, <2>5, NotifyKeeps
  <2>6. ASSUME NotifyWakes(t) \/ JoinWait(t)  PROVE SharedInv'
    BY <1>0, <2>6, NotifyWakesKeeps, JoinWaitKeeps
  <2>7. ASSUME NotifyHalts(t) \/ WakeJoinerHalts(t)  PROVE SharedInv'
    BY <1>0, <2>7, WakeHaltsKeeps
  <2>8. ASSUME NEW w \in Workers, EndFiber(t, w)  PROVE SharedInv'
    BY <1>0, <2>8, EndFiberKeeps
  <2>9. ASSUME WakeJoiner(t)  PROVE SharedInv'
    BY <1>0, <2>9, WakeJoinerKeeps, WakeNobodyKeeps
  <2>10. ASSUME TerminateHalts(t) \/ PickNextHalts(t) \/ SwitchHalts(t)  PROVE SharedInv'
    BY <1>0, <2>10, ThreadHaltsKeeps
  <2>11. ASSUME PickNext(t)  PROVE SharedInv'
    <3>1. at[t] = "pick" /\ UNCHANGED NotPicked
      BY <2>11 DEF PickNext
    <3>2. CASE shared # <<>> /\ ~Local(t)
      BY <1>0, <2>11, <3>1, <3>2, TakeSharedKeeps DEF PickNext
    <3>3. CASE ~(shared # <<>> /\ ~Local(t)) /\ own[t] # <<>>
      BY <1>0, <2>11, <3>1, <3>3, TakeOwnKeeps DEF PickNext
    <3>4. CASE ~(shared # <<>> /\ ~Local(t)) /\ own[t] = <<>>
      <4>1. FindNothing(t, Local(t) /\ ~shutdown[t])
        BY <2>11, <3>4 DEF PickNext
      <4> QED
        BY <1>0, <3>1, <4>1, FindNothingKeeps
    <3> QED
      BY <3>2, <3>3, <3>4
  <2>12. ASSUME Switch(t) \/ Terminate(t) \/ ShutDown(t)  PROVE SharedInv'
    BY <1>0, <2>12, SwitchKeeps, TerminateKeeps, ShutDownKeeps
  <2>13. ASSUME DispatchTurn(t)  PROVE SharedInv'
    BY <1>0, <2>13, TurnKeeps, LastTurnKeeps
  <2> QED
    BY <1>1, <2>1, <2>2, <2>3, <2>4, <2>5, <2>6, <2>7, <2>8, <2>9, <2>10, <2>11, <2>12,
       <2>13 DEF ThreadStep
<1>2. CASE Race
  BY <1>0, <1>2, HaltKeeps DEF Race
<1>3. CASE UNCHANGED vars
  <2>1. /\ UNCHANGED <<shared, own, home, attached, policy, origin, launched, terminated,
                       cond, condLock, waitList, active, saved, at, chosen, back, mtx,
                       shutdown>>
        /\ halted' = halted
    BY <1>3 DEF vars, queueVars, lifeVars, waitVars, cpuVars
  <2>2. Halt(halted)
    BY <2>1 DEF Halt, queueVars, lifeVars, waitVars, cpuVars
  <2>3. halted # "null" /\ (NoJoins => halted # "crash")
    BY DEF SharedInv, NoNull, WithoutJoins
  <2> QED
    BY <1>0, <2>2, <2>3, HaltKeeps
<1> QED
  BY <1>1, <1>2, <1>3 DEF Next

(***************************************************************************)
(* Programs that do not call YieldOrigin keep the invariant, for any       *)
(* number of threads of either policy and any number of fibers.            *)
(***************************************************************************)
THEOREM SharedInvariance == NoOrigins => (Spec => []SharedInv)
<1> SUFFICES ASSUME NoOrigins PROVE Spec => []SharedInv
  OBVIOUS
<1>1. SharedInv /\ [Next]_vars => SharedInv'
  BY SharedInvStep
<1> QED
  BY <1>1, SharedInvInit, PTL DEF Spec

(***************************************************************************)
(* What is in a ready queue can be resumed, whoever put it there.          *)
(***************************************************************************)
LEMMA InvQueued == SharedInv /\ NoJoins => QueuedAreResumable
<1> SUFFICES ASSUME SharedInv, NoJoins, NEW c \in Contexts,
                    c \in Range(shared) \/ (\E t \in Mains : c \in Range(own[t]))
             PROVE  Resumable(c)
  BY DEF QueuedAreResumable
<1> USE DEF SharedInv
<1>1. PICK s \in kept[c] : s = SharedQ \/ \E t \in Mains : s = OwnQ(t)
  BY Held DEF SpotsHold
<1>2. s # CondQ
  BY <1>1, SpotsApart
<1>3. c \in Live /\ c \notin Running
  BY <1>1, <1>2, RunningIs DEF KeptAreLive, WithoutJoins, TypeInv
<1>4. c \notin terminated
  BY <1>3, Sorts DEF Live, TypeInv
<1> QED
  BY <1>3, <1>4 DEF OthersAreSaved, Resumable

THEOREM QueuedResumable == NoOrigins /\ NoJoins => (Spec => []QueuedAreResumable)
<1> SUFFICES ASSUME NoOrigins, NoJoins PROVE Spec => []QueuedAreResumable
  OBVIOUS
<1>1. Spec => []SharedInv
  BY SharedInvariance
<1>2. SharedInv => QueuedAreResumable
  BY InvQueued
<1> QED
  BY <1>1, <1>2, PTL

(***************************************************************************)
(* No thread looks for a context in vain or resumes one that can not be.   *)
(***************************************************************************)
THEOREM BadContextNever == NoOrigins /\ NoJoins => (Spec => []NeverResumesBadContext)
<1> SUFFICES ASSUME NoOrigins, NoJoins PROVE Spec => []NeverResumesBadContext
  OBVIOUS
<1>1. Spec => []SharedInv
  BY SharedInvariance
<1>2. SharedInv => NeverResumesBadContext
  BY DEF SharedInv, NoNull, WithoutJoins, NeverResumesBadContext
<1> QED
  BY <1>1, <1>2, PTL

(***************************************************************************)
(* Joins or not, a fiber is attached to the thread that is its scheduler_  *)
(* and to no other, and to none while it is in the shared queue.           *)
(***************************************************************************)
THEOREM SchedulerUnique == NoOrigins => (Spec => []OneScheduler)
<1> SUFFICES ASSUME NoOrigins PROVE Spec => []OneScheduler
  OBVIOUS
<1>1. Spec => []SharedInv
  BY SharedInvariance
<1>2. SharedInv => OneScheduler
  <2>1. SharedInv => \A w \in Workers : SharedQ \in kept[w] <=> w \in Range(shared)
    BY Held, Sorts DEF SharedInv, TypeInv, SpotsHold
  <2> QED
    BY <2>1 DEF SharedInv, AttachedAtHome, OneScheduler
<1> QED
  BY <1>1, <1>2, PTL

(***************************************************************************)
(* Joins or not, a waiter of the condition variable whose thread is gone   *)
(* had chosen RoundRobinPolicy there.                                      *)
(***************************************************************************)
THEOREM WaitersHaveThreads == NoOrigins => (Spec => []NoWaiterOutlivesItsThread)
<1> SUFFICES ASSUME NoOrigins PROVE Spec => []NoWaiterOutlivesItsThread
  OBVIOUS
<1>1. Spec => []SharedInv
  BY SharedInvariance
<1>2. SharedInv => NoWaiterOutlivesItsThread
  <2> SUFFICES ASSUME SharedInv, NEW c \in Range(cond), home[c] # NoOne,
                      at[home[c]] = "exited", ~Local(home[c])
               PROVE  FALSE
    BY DEF NoWaiterOutlivesItsThread
  <2> USE DEF SharedInv
  <2> DEFINE t == home[c]
  <2>1. c \in Fibers /\ c \in Contexts /\ t \in Mains
    <3>1. c \in Fibers /\ c \in Contexts
      BY Sorts DEF TypeInv, TypeOK, Range
    <3> QED
      BY <3>1 DEF TypeInv, TypeOK
  <2>2. CondQ \in kept[c]
    BY <2>1, Held DEF SpotsHold
  <2>3. c \in Mains => c = t
    BY DEF PinnedAtHome
  <2>4. c \in Workers
    BY <2>1, <2>2, <2>3, SpotsApart DEF MainIsParked, ThreadsKeepOrder, Fibers
  <2>5. c \in attached[t] /\ attached[t] = {}
    BY <2>1, <2>2, <2>4 DEF SharersAttach, MainIsParked
  <2> QED
    BY <2>5
<1> QED
  BY <1>1, <1>2, PTL

(***************************************************************************)
(* A joiner that came too late and is left behind is of another thread     *)
(* than the fiber it joined.                                               *)
(***************************************************************************)
THEOREM LateJoinsCross == NoOrigins => (Spec => []LateJoinsCrossThreads)
<1> SUFFICES ASSUME NoOrigins PROVE Spec => []LateJoinsCrossThreads
  OBVIOUS
<1>1. Spec => []SharedInv
  BY SharedInvariance
<1>2. SharedInv => LateJoinsCrossThreads
  <2> SUFFICES ASSUME SharedInv, NEW w \in terminated \ Running, NEW c \in Range(waitList[w])
               PROVE  home[c] # home[w]
    BY DEF LateJoinsCrossThreads
  <2> USE DEF SharedInv
  <2>1. w \in Workers /\ c \in Contexts
    <3>1. w \in Workers
      BY DEF TypeInv, TypeOK
    <3> QED
      BY <3>1, Sorts DEF TypeInv, TypeOK, Range
  <2>2. WaitQ(w) \in kept[c]
    BY <2>1, Held DEF SpotsHold
  <2>3. \A t \in Mains : active[t] # w
    BY RunningIs DEF TypeInv
  <2> QED
    BY <2>1, <2>2, <2>3 DEF LateJoiners
<1> QED
  BY <1>1, <1>2, PTL

(***************************************************************************)
(* A fiber in the wait list of one that has not ended stays there, and no  *)
(* thread resumes it: Join tells the truth, across threads too.            *)
(***************************************************************************)
JoinersAreHeld ==
  [][\A w \in Workers \ terminated : \A c \in Range(waitList[w]) :
       /\ c \in Range(waitList'[w])
       /\ \A t \in Mains : active'[t] = c => active[t] = c]_vars

LEMMA WaitListSteps ==
  ASSUME TypeInv, [Next]_vars, NEW w \in Workers \ terminated
  PROVE  Range(waitList[w]) \subseteq Range(waitList'[w])
<1>1. CASE \E t \in Mains : JoinWait(t)
  <2>1. PICK t \in Mains : JoinWait(t)
    BY <1>1
  <2>2. active[t] \in Fibers /\ chosen[t] \in Workers
    BY <2>1 DEF JoinWait, TypeInv, ThreadsKnowWhom, TypeOK
  <2>3. waitList'[w] \in {waitList[w], Append(waitList[w], active[t])}
    BY <2>1, <2>2 DEF JoinWait, TypeInv, TypeOK
  <2>4. Range(Append(waitList[w], active[t])) = Range(waitList[w]) \cup {active[t]}
    BY <2>2, AppendApart DEF TypeInv, TypeOK
  <2> QED
    BY <2>3, <2>4
<1>2. CASE \E t \in Mains : WakeJoiner(t)
  <2>1. PICK t \in Mains : WakeJoiner(t)
    BY <1>2
  <2>2. active[t] \in terminated
    BY <2>1 DEF WakeJoiner, TypeInv, ThreadsKnowWhom
  <2>3. waitList'[w] = waitList[w]
    BY <2>1, <2>2 DEF WakeJoiner, TypeInv, TypeOK
  <2> QED
    BY <2>3
<1>3. CASE UNCHANGED waitList
  BY <1>3
<1>4. \/ \E t \in Mains : JoinWait(t) \/ WakeJoiner(t)
      \/ UNCHANGED waitList
  <2>1. ASSUME NEW t \in Mains, NEW c \in Fibers, NEW v \in Workers,
               Post(t, c, v) \/ Dispatch(t, c, v) \/ Async(t, c, v) \/ Join(t, c, v)
        PROVE  UNCHANGED waitList
    BY <2>1 DEF Post, Dispatch, Async, Join, waitVars
  <2>2. ASSUME NEW t \in Mains, NEW c \in Fibers,
               \/ LaunchHalts(t, c) \/ Yield(t, c) \/ SuspendHalts(t, c) \/ CondWait(t, c)
               \/ Notify(t, c, "notifyOne") \/ Notify(t, c, "notifyAll")
        PROVE  UNCHANGED waitList
    BY <2>2 DEF LaunchHalts, Yield, SuspendHalts, CondWait, Notify, Halt, waitVars
  <2>3. ASSUME NEW t \in Mains, NEW c \in Fibers, YieldOrigin(t, c)
        PROVE  UNCHANGED waitList
    BY <2>3 DEF YieldOrigin, Halt, waitVars
  <2>4. ASSUME NEW t \in Mains, NEW v \in Workers, EndFiber(t, v)
        PROVE  UNCHANGED waitList
    BY <2>4 DEF EndFiber, waitVars
  <2>5. ASSUME NEW t \in Mains,
               \/ NotifyWakes(t) \/ NotifyHalts(t) \/ WakeJoinerHalts(t)
               \/ Terminate(t) \/ TerminateHalts(t)
        PROVE  UNCHANGED waitList
    BY <2>5
    DEF NotifyWakes, NotifyHalts, WakeJoinerHalts, WakeHalts, Terminate, TerminateHalts,
        Halt, waitVars
  <2>6. ASSUME NEW t \in Mains,
               \/ PickNext(t) \/ PickNextHalts(t) \/ Switch(t) \/ SwitchHalts(t)
               \/ DispatchTurn(t) \/ ShutDown(t)
        PROVE  UNCHANGED waitList
    BY <2>6
    DEF PickNext, PickNextHalts, NotPicked, Switch, SwitchHalts, DispatchTurn, ShutDown,
        Halt, waitVars
  <2>7. CASE Race \/ UNCHANGED vars
    BY <2>7 DEF Race, Halt, vars, waitVars
  <2> QED
    BY <2>1, <2>2, <2>3, <2>4, <2>5, <2>6, <2>7 DEF Next, ThreadStep
<1> QED
  BY <1>1, <1>2, <1>3, <1>4

\* A thread comes to run what was kept for it, or a fiber that was never made.
LEMMA ResumedWere ==
  ASSUME SharedInv, TypeInv', [Next]_vars,
         NEW t \in Mains, active'[t] # active[t]
  PROVE  NextOf(t) \in kept[active'[t]] \/ kept[active'[t]] = {}
<1> USE DEF SharedInv
<1>1. CASE Switch(t)
  <2>1. active'[t] = chosen[t] /\ at[t] = "switch" /\ chosen[t] \in Contexts
    BY <1>1 DEF Switch, TypeInv, TypeOK, ThreadsKnowWhom
  <2> QED
    BY <2>1, Held DEF SpotsHold
<1>2. CASE \E c \in Fibers, w \in Workers : Dispatch(t, c, w)
  <2>1. PICK c \in Fibers, w \in Workers : Dispatch(t, c, w)
    BY <1>2
  <2>2. active'[t] = w /\ w \notin launched
    BY <2>1 DEF Dispatch, TypeInv, TypeOK
  <2>3. w \notin Live /\ w \in Contexts
    BY <2>2, Sorts, Kinds DEF Live, TypeInv
  <2> QED
    BY <2>2, <2>3 DEF KeptAreLive
<1>3. \/ Switch(t)
      \/ \E c \in Fibers, w \in Workers : Dispatch(t, c, w)
  <2>1. ASSUME NEW u \in Mains, NEW c \in Fibers, NEW v \in Workers,
               Post(u, c, v) \/ Async(u, c, v) \/ Join(u, c, v)
        PROVE  UNCHANGED active
    BY <2>1 DEF Post, Async, Join
  <2>2. ASSUME NEW u \in Mains, u # t,
               Switch(u) \/ \E c \in Fibers, v \in Workers : Dispatch(u, c, v)
        PROVE  active'[t] = active[t]
    BY <2>2 DEF Dispatch, Switch, TypeInv, TypeOK
  <2>3. ASSUME NEW u \in Mains, NEW c \in Fibers,
               \/ LaunchHalts(u, c) \/ Yield(u, c) \/ SuspendHalts(u, c) \/ CondWait(u, c)
               \/ Notify(u, c, "notifyOne") \/ Notify(u, c, "notifyAll")
        PROVE  UNCHANGED active
    BY <2>3 DEF LaunchHalts, Yield, SuspendHalts, CondWait, Notify, Halt, Suspend, cpuVars
  <2>4. ASSUME NEW u \in Mains, NEW c \in Fibers, YieldOrigin(u, c)
        PROVE  UNCHANGED active
    BY <2>4 DEF YieldOrigin, Halt, Suspend, cpuVars
  <2>5. ASSUME NEW u \in Mains,
               \/ NotifyWakes(u) \/ NotifyHalts(u) \/ WakeJoiner(u) \/ WakeJoinerHalts(u)
               \/ JoinWait(u) \/ Terminate(u) \/ TerminateHalts(u)
        PROVE  UNCHANGED active
    BY <2>5
    DEF NotifyWakes, NotifyHalts, WakeJoiner, WakeJoinerHalts, WakeHalts, JoinWait,
        Terminate, TerminateHalts, Halt, Suspend, cpuVars
  <2>6. ASSUME NEW u \in Mains,
               \/ PickNext(u) \/ PickNextHalts(u) \/ SwitchHalts(u)
               \/ DispatchTurn(u) \/ ShutDown(u)
        PROVE  UNCHANGED active
    BY <2>6
    DEF PickNext, PickNextHalts, NotPicked, SwitchHalts, DispatchTurn, ShutDown, Halt,
        Suspend, cpuVars
  <2>7. CASE Race \/ UNCHANGED vars
    BY <2>7 DEF Race, Halt, vars, cpuVars
  <2>8. ASSUME NEW u \in Mains, NEW v \in Workers, EndFiber(u, v)
        PROVE  UNCHANGED active
    BY <2>8 DEF EndFiber
  <2>9. ASSUME NEW u \in Mains, ThreadStep(u)
        PROVE  \/ UNCHANGED active
               \/ Switch(u) \/ \E c \in Fibers, w \in Workers : Dispatch(u, c, w)
    BY <2>9, <2>1, <2>3, <2>4, <2>5, <2>6, <2>8 DEF ThreadStep
  <2> QED
    BY <2>2, <2>7, <2>9 DEF Next
<1> QED
  BY <1>1, <1>2, <1>3

THEOREM JoinersHeld == NoOrigins => (Spec => JoinersAreHeld)
<1> SUFFICES ASSUME NoOrigins PROVE Spec => JoinersAreHeld
  OBVIOUS
<1>1. Spec => []SharedInv
  BY SharedInvariance
<1>2. ASSUME SharedInv, SharedInv', [Next]_vars
      PROVE  [\A w \in Workers \ terminated : \A c \in Range(waitList[w]) :
                /\ c \in Range(waitList'[w])
                /\ \A t \in Mains : active'[t] = c => active[t] = c]_vars
  <2> SUFFICES ASSUME NEW w \in Workers \ terminated, NEW c \in Range(waitList[w])
               PROVE  /\ c \in Range(waitList'[w])
                      /\ \A t \in Mains : active'[t] = c => active[t] = c
    OBVIOUS
  <2>1. c \in Range(waitList'[w])
    BY <1>2, WaitListSteps DEF SharedInv
  <2>2. c \in Contexts
    BY <1>2, Sorts DEF SharedInv, TypeInv, TypeOK, Range
  <2>3. WaitQ(w) \in kept[c]
    BY <2>2, Held DEF SpotsHold
  <2>4. ASSUME NEW t \in Mains, active'[t] = c, active[t] # c  PROVE FALSE
    <3>1. NextOf(t) \in kept[c]
      BY <1>2, <2>3, <2>4, ResumedWere DEF SharedInv
    <3>2. NextOf(t) = WaitQ(w)
      BY <1>2, <2>2, <2>3, <3>1 DEF SharedInv, OneSpotEach
    <3> QED
      BY <3>2 DEF NextOf, WaitQ
  <2> QED
    BY <2>1, <2>4
<1> QED
  BY <1>1, <1>2, PTL DEF Spec, JoinersAreHeld

-----------------------------------------------------------------------------
\* An element of a queue without repetitions has one position.
LEMMA OnePosition ==
  ASSUME NEW q, IsInjective(q), NEW c \in Range(q)
  PROVE  \E i \in DOMAIN q : \A j \in DOMAIN q : q[j] = c <=> j = i
<1>1. PICK i \in DOMAIN q : q[i] = c
  BY DEF Range
<1> QED
  BY <1>1 DEF IsInjective

LEMMA PlacesAre ==
  ASSUME SharedInv, NoJoins, NEW c \in Contexts
  PROVE  PlacesOf(c) = RunsAt(c) \cup NextAt(c) \cup SharedAt(c) \cup OwnAt(c)
                         \cup IF c \in Running THEN {} ELSE CondAt(c) \cup ParkedAt(c)
<1>1. \A w \in Workers : DOMAIN waitList[w] = {}
  BY DEF SharedInv, WithoutJoins
<1>2. JoinAt(c) = {}
  BY <1>1 DEF JoinAt
<1> QED
  BY <1>2 DEF PlacesOf

\* Each kind of place is a place, or none, as c is kept there.
LEMMA PlacesByKind ==
  ASSUME SharedInv, NEW c \in Contexts
  PROVE  /\ c \in Running => \E p : RunsAt(c) = {p}
         /\ c \notin Running => RunsAt(c) = {}
         /\ (\E t \in Mains : NextOf(t) \in kept[c]) => \E p : NextAt(c) = {p}
         /\ (\A t \in Mains : NextOf(t) \notin kept[c]) => NextAt(c) = {}
         /\ SharedQ \in kept[c] => \E p : SharedAt(c) = {p}
         /\ SharedQ \notin kept[c] => SharedAt(c) = {}
         /\ (\E t \in Mains : OwnQ(t) \in kept[c]) => \E p : OwnAt(c) = {p}
         /\ (\A t \in Mains : OwnQ(t) \notin kept[c]) => OwnAt(c) = {}
         /\ CondQ \in kept[c] => \E p : CondAt(c) = {p}
         /\ CondQ \notin kept[c] => CondAt(c) = {}
<1> USE DEF SharedInv
<1>1. /\ c \in Running => \E p : RunsAt(c) = {p}
      /\ c \notin Running => RunsAt(c) = {}
  <2>1. ASSUME c \in Running  PROVE \E p : RunsAt(c) = {p}
    <3>1. PICK t \in Mains : active[t] = c
      BY <2>1, RunningIs DEF TypeInv
    <3>2. RunsAt(c) = {<<"runs", t>>}
      BY <3>1 DEF RunsAt, ActiveApart
    <3> QED
      BY <3>2
  <2>2. ASSUME c \notin Running  PROVE RunsAt(c) = {}
    BY <2>2, RunningIs DEF RunsAt, TypeInv
  <2> QED
    BY <2>1, <2>2
<1>2. /\ (\E t \in Mains : NextOf(t) \in kept[c]) => \E p : NextAt(c) = {p}
      /\ (\A t \in Mains : NextOf(t) \notin kept[c]) => NextAt(c) = {}
  <2>1. \A t \in Mains : NextOf(t) \in kept[c] <=> at[t] = "switch" /\ chosen[t] = c
    BY Held DEF SpotsHold
  <2>2. ASSUME NEW t \in Mains, NextOf(t) \in kept[c]  PROVE \E p : NextAt(c) = {p}
    <3>1. \A u \in Mains : NextOf(u) \in kept[c] => u = t
      BY <2>2, SpotsApart DEF OneSpotEach
    <3>2. NextAt(c) = {<<"next", t>>}
      BY <2>1, <2>2, <3>1 DEF NextAt
    <3> QED
      BY <3>2
  <2>3. (\A t \in Mains : NextOf(t) \notin kept[c]) => NextAt(c) = {}
    BY <2>1 DEF NextAt
  <2> QED
    BY <2>2, <2>3
<1>3. /\ SharedQ \in kept[c] => \E p : SharedAt(c) = {p}
      /\ SharedQ \notin kept[c] => SharedAt(c) = {}
  <2> DEFINE I == {i \in DOMAIN shared : shared[i] = c}
  <2>1. SharedAt(c) = {<<"shared", i>> : i \in I}
    BY DEF SharedAt
  <2>2. /\ SharedQ \in kept[c] => \E i : I = {i}
        /\ SharedQ \notin kept[c] => I = {}
    <3>1. IsInjective(shared) /\ (SharedQ \in kept[c] <=> c \in Range(shared))
      BY Held DEF SpotsHold, QueuesRepeatNothing
    <3>2. ASSUME c \in Range(shared)  PROVE \E i : I = {i}
      <4>1. PICK i \in DOMAIN shared : \A j \in DOMAIN shared : shared[j] = c <=> j = i
        BY <3>1, <3>2, OnePosition
      <4>2. I = {i}
        BY <4>1
      <4> QED
        BY <4>2
    <3>3. c \notin Range(shared) => I = {}
      BY DEF Range
    <3> HIDE DEF I
    <3> QED
      BY <3>1, <3>2, <3>3
  <2> HIDE DEF I
  <2>3. ASSUME SharedQ \in kept[c]  PROVE \E p : SharedAt(c) = {p}
    <3>1. PICK i : I = {i}
      BY <2>2, <2>3
    <3>2. SharedAt(c) = {<<"shared", i>>}
      BY <2>1, <3>1
    <3> QED
      BY <3>2
  <2> QED
    BY <2>1, <2>2, <2>3
<1>4. /\ (\E t \in Mains : OwnQ(t) \in kept[c]) => \E p : OwnAt(c) = {p}
      /\ (\A t \in Mains : OwnQ(t) \notin kept[c]) => OwnAt(c) = {}
  <2> DEFINE I(t) == {i \in DOMAIN own[t] : own[t][i] = c}
  <2>1. OwnAt(c) = UNION {{<<t, i>> : i \in I(t)} : t \in Mains}
    BY DEF OwnAt
  <2>2. ASSUME NEW t \in Mains
        PROVE  /\ OwnQ(t) \in kept[c] => \E i : I(t) = {i}
               /\ OwnQ(t) \notin kept[c] => I(t) = {}
    <3>1. IsInjective(own[t]) /\ (OwnQ(t) \in kept[c] <=> c \in Range(own[t]))
      BY Held DEF SpotsHold, QueuesRepeatNothing
    <3>2. ASSUME c \in Range(own[t])  PROVE \E i : I(t) = {i}
      <4>1. PICK i \in DOMAIN own[t] : \A j \in DOMAIN own[t] : own[t][j] = c <=> j = i
        BY <3>1, <3>2, OnePosition
      <4>2. I(t) = {i}
        BY <4>1
      <4> QED
        BY <4>2
    <3>3. c \notin Range(own[t]) => I(t) = {}
      BY DEF Range
    <3> HIDE DEF I
    <3> QED
      BY <3>1, <3>2, <3>3
  <2> HIDE DEF I
  <2>3. ASSUME NEW t \in Mains, OwnQ(t) \in kept[c]  PROVE \E p : OwnAt(c) = {p}
    <3>1. PICK i : I(t) = {i}
      BY <2>2, <2>3
    <3>2. \A u \in Mains : u # t => I(u) = {}
      BY <2>2, <2>3, SpotsApart DEF OneSpotEach
    <3>3. OwnAt(c) = {<<t, i>>}
      BY <2>1, <3>1, <3>2
    <3> QED
      BY <3>3
  <2>4. ASSUME \A t \in Mains : OwnQ(t) \notin kept[c]  PROVE OwnAt(c) = {}
    <3>1. \A t \in Mains : {<<t, i>> : i \in I(t)} = {}
      BY <2>2, <2>4
    <3> QED
      BY <2>1, <3>1
  <2> QED
    BY <2>3, <2>4
<1>5. /\ CondQ \in kept[c] => \E p : CondAt(c) = {p}
      /\ CondQ \notin kept[c] => CondAt(c) = {}
  <2> DEFINE I == {i \in DOMAIN cond : cond[i] = c}
  <2>1. CondAt(c) = {<<"cond", i>> : i \in I}
    BY DEF CondAt
  <2>2. /\ CondQ \in kept[c] => \E i : I = {i}
        /\ CondQ \notin kept[c] => I = {}
    <3>1. IsInjective(cond) /\ (CondQ \in kept[c] <=> c \in Range(cond))
      BY Held DEF SpotsHold, QueuesRepeatNothing
    <3>2. ASSUME c \in Range(cond)  PROVE \E i : I = {i}
      <4>1. PICK i \in DOMAIN cond : \A j \in DOMAIN cond : cond[j] = c <=> j = i
        BY <3>1, <3>2, OnePosition
      <4>2. I = {i}
        BY <4>1
      <4> QED
        BY <4>2
    <3>3. c \notin Range(cond) => I = {}
      BY DEF Range
    <3> HIDE DEF I
    <3> QED
      BY <3>1, <3>2, <3>3
  <2> HIDE DEF I
  <2>3. ASSUME CondQ \in kept[c]  PROVE \E p : CondAt(c) = {p}
    <3>1. PICK i : I = {i}
      BY <2>2, <2>3
    <3>2. CondAt(c) = {<<"cond", i>>}
      BY <2>1, <3>1
    <3> QED
      BY <3>2
  <2> QED
    BY <2>1, <2>2, <2>3
<1> QED
  BY <1>1, <1>2, <1>3, <1>4, <1>5

LEMMA OnePlace ==
  ASSUME SharedInv, NoJoins, NEW c \in Live
  PROVE  \E p : PlacesOf(c) = {p}
<1> USE DEF SharedInv
<1>k. c \in Contexts /\ c # NoOne
  BY Sorts DEF Live, Contexts, TypeInv
<1>p. PlacesOf(c) = RunsAt(c) \cup NextAt(c) \cup SharedAt(c) \cup OwnAt(c)
                      \cup IF c \in Running THEN {} ELSE CondAt(c) \cup ParkedAt(c)
  BY <1>k, PlacesAre
<1>1. CASE c \in Running
  <2>1. kept[c] \subseteq {CondQ}
    BY <1>1, RunningIs DEF WithoutJoins, TypeInv
  <2>2. /\ SharedQ \notin kept[c]
        /\ \A t \in Mains : NextOf(t) \notin kept[c] /\ OwnQ(t) \notin kept[c]
    BY <2>1, SpotsApart
  <2>3. NextAt(c) = {} /\ SharedAt(c) = {} /\ OwnAt(c) = {} /\ \E p : RunsAt(c) = {p}
    BY <1>1, <1>k, <2>2, PlacesByKind
  <2> QED
    BY <1>1, <1>p, <2>3
<1>2. CASE c \notin Running /\ kept[c] # {}
  <2>1. PICK s \in Spots : kept[c] = {s}
    BY <1>2, <1>k, Held DEF SpotsHold, OneSpotEach
  <2>2. ParkedAt(c) = {}
    <3>1. ASSUME NEW t \in Mains, c = t, shutdown[t]  PROVE chosen[t] = c
      BY <1>k, <1>2, <3>1, Held DEF MainIsParked, SpotsHold
    <3>2. ASSUME NEW t \in Mains, c = DispatcherOf[t], at[t] = "exited"  PROVE FALSE
      BY <1>2, <3>2 DEF MainIsParked
    <3> QED
      BY <3>1, <3>2 DEF Parked, ParkedAt
  <2>3. RunsAt(c) = {} /\ \A w \in Workers : WaitQ(w) \notin kept[c]
    BY <1>2, <1>k, PlacesByKind, Held, EmptyQueue DEF SpotsHold, WithoutJoins
  <2>4. CASE s = SharedQ
    <3>1. NextAt(c) = {} /\ OwnAt(c) = {} /\ CondAt(c) = {} /\ \E p : SharedAt(c) = {p}
      BY <1>k, <2>1, <2>4, PlacesByKind, SpotsApart
    <3> QED
      BY <1>2, <1>p, <2>2, <2>3, <3>1
  <2>5. CASE s = CondQ
    <3>1. NextAt(c) = {} /\ OwnAt(c) = {} /\ SharedAt(c) = {} /\ \E p : CondAt(c) = {p}
      BY <1>k, <2>1, <2>5, PlacesByKind, SpotsApart
    <3> QED
      BY <1>2, <1>p, <2>2, <2>3, <3>1
  <2>6. ASSUME NEW t \in Mains, s = OwnQ(t)  PROVE \E p : PlacesOf(c) = {p}
    <3>1. NextAt(c) = {} /\ CondAt(c) = {} /\ SharedAt(c) = {} /\ \E p : OwnAt(c) = {p}
      <4>1. /\ OwnQ(t) \in kept[c] /\ SharedQ \notin kept[c] /\ CondQ \notin kept[c]
            /\ \A u \in Mains : NextOf(u) \notin kept[c]
        BY <2>1, <2>6, SpotsApart
      <4> QED
        BY <1>k, <4>1, PlacesByKind
    <3> QED
      BY <1>2, <1>p, <2>2, <2>3, <3>1
  <2>7. ASSUME NEW t \in Mains, s = NextOf(t)  PROVE \E p : PlacesOf(c) = {p}
    <3>1. OwnAt(c) = {} /\ CondAt(c) = {} /\ SharedAt(c) = {} /\ \E p : NextAt(c) = {p}
      BY <1>k, <2>1, <2>7, PlacesByKind, SpotsApart
    <3> QED
      BY <1>2, <1>p, <2>2, <2>3, <3>1
  <2> QED
    BY <2>1, <2>3, <2>4, <2>5, <2>6, <2>7 DEF Spots
<1>3. CASE c \notin Running /\ kept[c] = {}
  <2>1. /\ RunsAt(c) = {} /\ NextAt(c) = {} /\ SharedAt(c) = {} /\ OwnAt(c) = {}
        /\ CondAt(c) = {}
    BY <1>3, <1>k, PlacesByKind
  <2>2. Parked(c)
    BY <1>3 DEF LiveAreSomewhere
  <2>3. \A t \in Mains : chosen[t] # c
    BY <1>3, <1>k, Held DEF SpotsHold, ThreadsKeepOrder, WithoutJoins
  <2>4. ParkedAt(c) = {"parked"}
    BY <2>2, <2>3 DEF ParkedAt
  <2> QED
    BY <1>3, <1>p, <2>1, <2>4
<1> QED
  BY <1>1, <1>2, <1>3

(***************************************************************************)
(* Whatever the threads do to each other's contexts, each live context is  *)
(* in one place: none is lost and none can be resumed twice.               *)
(***************************************************************************)
THEOREM OnePlaceEach == NoOrigins /\ NoJoins => (Spec => []EachInOnePlace)
<1> SUFFICES ASSUME NoOrigins, NoJoins PROVE Spec => []EachInOnePlace
  OBVIOUS
<1>1. Spec => []SharedInv
  BY SharedInvariance
<1>2. SharedInv => EachInOnePlace
  BY OnePlace, FS_Singleton DEF EachInOnePlace, Live
<1> QED
  BY <1>1, <1>2, PTL
=============================================================================
