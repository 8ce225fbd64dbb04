------------------------ MODULE SharedWorkRefinement ------------------------
(***************************************************************************)
(* SharedWork implements FiberLifecycle, for any number of threads of      *)
(* either policy and any number of fibers that use neither Join nor        *)
(* YieldOrigin.                                                            *)
(***************************************************************************)
EXTENDS SharedWorkProofs

\* What the refinement mapping shows of thread t, and of what c waits for.
ShownOn(t) == IF active[t] \in Fibers /\ ~Gone(active[t]) THEN active[t] ELSE Idle
LifeAwaits(c) == IF c \in Range(cond) /\ c \notin Running THEN Cond ELSE NoOne

LifeVars == <<[c \in Fibers |-> LifeStatus(c)],
              [t \in Mains |-> IF active[t] \in Fibers /\ ~Gone(active[t])
                               THEN active[t] ELSE Idle],
              [c \in Fibers |-> IF c \in Range(cond) /\ c \notin Running
                                THEN Cond ELSE NoOne]>>

\* What a fiber shows.
Look ==
  \A c \in Fibers :
    LifeStatus(c) = IF (c \in terminated /\ c \notin Running) \/ Gone(c) THEN "ended"
                    ELSE IF c \in Workers \ launched THEN "unborn"
                    ELSE IF c \in Running THEN "running"
                    ELSE IF c \in Range(cond) THEN "waiting"
                    ELSE "ready"

LEMMA LooksNow ==
  TypeOK => Look
<1> SUFFICES ASSUME TypeOK, NEW c \in Fibers
             PROVE  LifeStatus(c) = IF (c \in terminated /\ c \notin Running) \/ Gone(c)
                                      THEN "ended"
                                    ELSE IF c \in Workers \ launched THEN "unborn"
                                    ELSE IF c \in Running THEN "running"
                                    ELSE IF c \in Range(cond) THEN "waiting"
                                    ELSE "ready"
  BY DEF Look
<1>1. c \in terminated => c \in launched
  BY DEF TypeOK
<1>2. Gone(c) => c \notin Workers
  BY Kinds DEF Gone
<1> QED
  BY <1>1, <1>2 DEF LifeStatus

LEMMA LooksNext ==
  TypeOK' => Look'
BY LooksNow, PTL

LEMMA LifeFibers ==
  /\ Lifecycle!Fibers = Fibers
  /\ Idle \notin Fibers /\ Cond \notin Fibers /\ NoOne \notin Fibers
  /\ Workers \subseteq Fibers /\ Mains \subseteq Fibers
<1>1. Fibers \subseteq Contexts /\ NoOne \notin Contexts
  BY Kinds
<1> QED
  BY <1>1, LifeNames DEF Lifecycle!Fibers, Fibers

-----------------------------------------------------------------------------
(***************************************************************************)
(* Steps of FiberLifecycle, fiber by fiber and thread by thread.           *)
(***************************************************************************)
LEMMA SameShown ==
  ASSUME \A t \in Mains : ShownOn(t)' = ShownOn(t),
         \A c \in Fibers : LifeStatus(c)' = LifeStatus(c) /\ LifeAwaits(c)' = LifeAwaits(c)
  PROVE  UNCHANGED LifeVars
BY DEF LifeVars, ShownOn, LifeAwaits

LEMMA LaunchShown ==
  ASSUME NEW t \in Mains, NEW w \in Workers,
         ShownOn(t) # Idle, LifeStatus(w) = "unborn",
         \A u \in Mains : ShownOn(u)' = ShownOn(u),
         \A c \in Fibers : /\ LifeStatus(c)' = IF c = w THEN "ready" ELSE LifeStatus(c)
                           /\ LifeAwaits(c)' = LifeAwaits(c)
  PROVE  Lifecycle!Next
<1>1. w \in Fibers
  BY DEF Fibers
<1>2. Lifecycle!Launch(t, w)
  BY <1>1 DEF Lifecycle!Launch, ShownOn, LifeAwaits
<1> QED
  BY <1>2 DEF Lifecycle!Next

\* Thread t shows next from now on.
Gives(t, next) == \A u \in Mains : ShownOn(u)' = IF u = t THEN next ELSE ShownOn(u)

LEMMA LaunchNowShown ==
  ASSUME NEW t \in Mains, NEW c \in Fibers, NEW w \in Workers, c # w, ShownOn(t) = c,
         LifeStatus(w) = "unborn",
         Gives(t, w),
         \A x \in Fibers : /\ LifeStatus(x)' = IF x = w THEN "running"
                                               ELSE IF x = c THEN "ready"
                                               ELSE LifeStatus(x)
                           /\ LifeAwaits(x)' = LifeAwaits(x)
  PROVE  Lifecycle!Next
<1> DEFINE st == [[x \in Fibers |-> LifeStatus(x)] EXCEPT ![w] = "ready", ![c] = "ready"]
<1>1. /\ \A x \in Fibers : st[x] = IF x \in {c, w} THEN "ready" ELSE LifeStatus(x)
      /\ w \in Fibers /\ c # Idle
  BY LifeFibers
<1>2. Lifecycle!LaunchNow(t, w)
  BY <1>1, LifeFibers DEF Lifecycle!LaunchNow, Lifecycle!Handover, ShownOn, LifeAwaits, Gives
<1> QED
  BY <1>2 DEF Lifecycle!Next

LEMMA YieldShown ==
  ASSUME NEW t \in Mains, NEW c \in Fibers, NEW next \in Fibers \cup {Idle},
         ShownOn(t) = c, next \in Fibers => next # c /\ LifeStatus(next) = "ready",
         Gives(t, next),
         \A x \in Fibers : /\ LifeStatus(x)' = IF x = next THEN "running"
                                               ELSE IF x = c THEN "ready"
                                               ELSE LifeStatus(x)
                           /\ LifeAwaits(x)' = LifeAwaits(x)
  PROVE  Lifecycle!Next
<1> DEFINE st == [[x \in Fibers |-> LifeStatus(x)] EXCEPT ![c] = "ready"]
<1>1. /\ \A x \in Fibers : st[x] = IF x = c THEN "ready" ELSE LifeStatus(x)
      /\ c # Idle
  BY LifeFibers
<1>2. Lifecycle!Yield(t, next)
  BY <1>1, LifeFibers DEF Lifecycle!Yield, Lifecycle!Handover, ShownOn, LifeAwaits, Gives
<1> QED
  BY <1>2, LifeFibers DEF Lifecycle!Next

LEMMA AwaitShown ==
  ASSUME NEW t \in Mains, NEW c \in Fibers, NEW next \in Fibers \cup {Idle},
         ShownOn(t) = c, next \in Fibers => next # c /\ LifeStatus(next) = "ready",
         Gives(t, next),
         \A x \in Fibers : /\ LifeStatus(x)' = IF x = next THEN "running"
                                               ELSE IF x = c THEN "waiting"
                                               ELSE LifeStatus(x)
                           /\ LifeAwaits(x)' = IF x = c THEN Cond ELSE LifeAwaits(x)
  PROVE  Lifecycle!Next
<1> DEFINE st == [[x \in Fibers |-> LifeStatus(x)] EXCEPT ![c] = "waiting"]
<1>1. /\ \A x \in Fibers : st[x] = IF x = c THEN "waiting" ELSE LifeStatus(x)
      /\ c # Idle /\ Cond \notin Workers
  BY LifeFibers
<1>2. Lifecycle!Await(t, Cond, next)
  BY <1>1, LifeFibers DEF Lifecycle!Await, Lifecycle!Handover, ShownOn, LifeAwaits, Gives
<1> QED
  BY <1>2, LifeFibers DEF Lifecycle!Next

LEMMA NotifyShown ==
  ASSUME NEW t \in Mains, NEW S \in SUBSET Fibers, ShownOn(t) # Idle,
         \A x \in S : LifeAwaits(x) = Cond,
         \A u \in Mains : ShownOn(u)' = ShownOn(u),
         \A x \in Fibers : /\ LifeStatus(x)' = IF x \in S THEN "ready" ELSE LifeStatus(x)
                           /\ LifeAwaits(x)' = IF x \in S THEN NoOne ELSE LifeAwaits(x)
  PROVE  Lifecycle!Next
<1>1. Lifecycle!Notify(t, S)
  BY LifeFibers DEF Lifecycle!Notify, ShownOn, LifeAwaits
<1> QED
  BY <1>1, LifeFibers DEF Lifecycle!Next

\* The end of a context for which nobody waits.
LEMMA EndShown ==
  ASSUME NEW t \in Mains, NEW c \in Fibers, NEW next \in Fibers \cup {Idle},
         ShownOn(t) = c, next \in Fibers => next # c /\ LifeStatus(next) = "ready",
         Gives(t, next),
         \A x \in Fibers : /\ LifeStatus(x)' = IF x = next THEN "running"
                                               ELSE IF x = c THEN "ended"
                                               ELSE LifeStatus(x)
                           /\ LifeAwaits(x)' = LifeAwaits(x)
  PROVE  Lifecycle!Next
<1> DEFINE now == [x \in Fibers |-> LifeStatus(x)]
           run == [u \in Mains |-> IF active[u] \in Fibers /\ ~Gone(active[u])
                                   THEN active[u] ELSE Idle]
           awaits == [x \in Fibers |-> IF x \in Range(cond) /\ x \notin Running
                                       THEN Cond ELSE NoOne]
           freed == {x \in Fibers : awaits[x] = run[t]}
           st == [x \in Fibers |-> IF x = run[t] THEN "ended"
                                   ELSE IF x \in freed THEN "ready" ELSE now[x]]
<1>1. run[t] = c /\ c # Idle
  BY LifeFibers DEF ShownOn
<1>2. freed = {}
  BY <1>1, LifeFibers
<1>3. \A x \in Fibers : st[x] = IF x = c THEN "ended" ELSE LifeStatus(x)
  BY <1>1, <1>2
<1>4. next \in Fibers => st[next] = "ready"
  BY <1>3
<1>5. run' = [run EXCEPT ![t] = next]
  BY DEF Gives, ShownOn
<1>6. now' = [x \in Fibers |-> IF x = next THEN "running" ELSE st[x]]
  <2> HIDE DEF st
  <2> QED
    BY <1>3
<1>7. awaits' = [x \in Fibers |-> IF x \in freed THEN NoOne ELSE awaits[x]]
  <2> HIDE DEF freed
  <2> QED
    BY <1>2 DEF LifeAwaits
<1>8. Lifecycle!End(t, next)
  BY <1>1, <1>4, <1>5, <1>6, <1>7, LifeFibers DEF Lifecycle!End, Lifecycle!Handover
<1> QED
  BY <1>8, LifeFibers DEF Lifecycle!Next

LEMMA RunShown ==
  ASSUME NEW t \in Mains, NEW next \in Fibers,
         ShownOn(t) = Idle, LifeStatus(next) = "ready",
         Gives(t, next),
         \A x \in Fibers : /\ LifeStatus(x)' = IF x = next THEN "running" ELSE LifeStatus(x)
                           /\ LifeAwaits(x)' = LifeAwaits(x)
  PROVE  Lifecycle!Next
<1> DEFINE st == [x \in Fibers |-> LifeStatus(x)]
<1>1. \A x \in Fibers : st[x] = LifeStatus(x)
  OBVIOUS
<1>2. Lifecycle!Run(t, next)
  BY <1>1, LifeFibers DEF Lifecycle!Run, Lifecycle!Handover, ShownOn, LifeAwaits, Gives
<1> QED
  BY <1>2, LifeFibers DEF Lifecycle!Next

-----------------------------------------------------------------------------
(***************************************************************************)
(* Steps of SharedWork.                                                    *)
(***************************************************************************)
\* A thread that is in the code of a fiber shows it.
LEMMA UserShown ==
  ASSUME SharedInv, NEW t \in Mains,
         at[t] \in {"code", "notifyOne", "notifyAll", "join"}
  PROVE  /\ active[t] \in Fibers /\ ~Gone(active[t]) /\ ShownOn(t) = active[t]
         /\ active[t] \in Running /\ ShownOn(t) # Idle
         /\ active[t] = t => ~shutdown[t]
<1> USE DEF SharedInv
<1>1. active[t] \in Fibers
  BY DEF ThreadsKeepOrder
<1>2. active[t] = t => ~shutdown[t]
  BY DEF MainIsParked, Waits
<1>3. active[t] \in Mains => active[t] = t
  <2>1. ~Waits(t)
    BY DEF Waits
  <2> QED
    BY <2>1, Kinds DEF RunningAtHome, PinnedAtHome, Pinned
<1>4. ~Gone(active[t])
  BY <1>2, <1>3 DEF Gone
<1>5. active[t] \in Running
  BY RunningIs DEF TypeInv
<1> QED
  BY <1>1, <1>2, <1>4, <1>5, LifeFibers DEF ShownOn

\* A step that moves only contexts that run on.
LEMMA QuietShown ==
  ASSUME TypeOK, TypeOK', UNCHANGED <<active, launched>>,
         \A c \in Fibers : c \notin Running =>
           /\ c \in terminated' <=> c \in terminated
           /\ c \in Range(cond)' <=> c \in Range(cond),
         \A t \in Mains : Gone(t)' <=> Gone(t)
  PROVE  UNCHANGED LifeVars
<1>1. Running' = Running
  BY DEF Running
<1>2. ASSUME NEW c \in Fibers  PROVE Gone(c)' <=> Gone(c)
  BY DEF Gone
<1>3. ASSUME NEW t \in Mains  PROVE ShownOn(t)' = ShownOn(t)
  BY <1>2 DEF ShownOn
<1>4. ASSUME NEW c \in Fibers
      PROVE  LifeStatus(c)' = LifeStatus(c) /\ LifeAwaits(c)' = LifeAwaits(c)
  <2>1. LifeAwaits(c)' = LifeAwaits(c)
    BY <1>1 DEF LifeAwaits
  <2>2. LifeStatus(c)' = LifeStatus(c)
    <3> USE LooksNow, LooksNext
    <3>1. CASE c \in Running
      BY <1>1, <1>2, <3>1 DEF Look
    <3>2. CASE c \notin Running
      BY <1>1, <1>2, <3>2 DEF Look
    <3> QED
      BY <3>1, <3>2
  <2> QED
    BY <2>1, <2>2
<1> QED
  BY <1>3, <1>4, SameShown

\* ~Scheduler is where it was, or just begins.
LEMMA GoneStill ==
  ASSUME UNCHANGED active, NEW t \in Mains,
         \A u \in Mains : u # t => UNCHANGED <<at[u], shutdown[u]>>,
         \/ UNCHANGED shutdown[t] /\ (active[t] # t \/ ~shutdown[t])
         \/ UNCHANGED shutdown[t] /\ {at[t], at'[t]} \subseteq {"pick", "switch"}
         \/ ~shutdown[t] /\ active[t] = t /\ at'[t] = "pick"
  PROVE  \A u \in Mains : Gone(u)' <=> Gone(u)
BY DEF Gone

LEMMA LaunchLives ==
  ASSUME SharedInv, TypeOK', NEW t \in Mains, NEW c \in Fibers, NEW w \in Workers,
         Post(t, c, w) \/ Async(t, c, w)
  PROVE  Lifecycle!Next
<1>1. /\ at[t] = "code" /\ w \notin launched /\ launched' = launched \cup {w}
      /\ UNCHANGED <<active, at, shutdown, terminated, cond>>
  BY DEF Post, Async, InUserCode, waitVars
<1>2. w \in Fibers /\ w \notin terminated /\ w \notin Running /\ w \notin Range(cond) /\ ~Gone(w)
  <2>1. CondQ \notin kept[w] /\ w \in Contexts
    BY <1>1, UnmadeNowhere, Kinds DEF Contexts
  <2> QED
    BY <1>1, <2>1, UnmadeNowhere, Held, Kinds DEF SpotsHold, Fibers, Gone
<1>3. Running' = Running /\ \A x : Gone(x)' <=> Gone(x)
  BY <1>1 DEF Running, Gone
<1>4. \A u \in Mains : ShownOn(u)' = ShownOn(u)
  BY <1>1, <1>3 DEF ShownOn
<1>5. Look /\ Look'
  BY LooksNow, LooksNext DEF SharedInv, TypeInv
<1>6. LifeStatus(w) = "unborn"
  BY <1>1, <1>2, <1>5 DEF Look
<1>7. ASSUME NEW x \in Fibers
      PROVE  /\ LifeStatus(x)' = IF x = w THEN "ready" ELSE LifeStatus(x)
             /\ LifeAwaits(x)' = LifeAwaits(x)
  BY <1>1, <1>2, <1>3, <1>5 DEF Look, LifeAwaits
<1>8. ShownOn(t) # Idle
  BY <1>1, UserShown
<1> QED
  BY <1>4, <1>6, <1>7, <1>8, LaunchShown

LEMMA DispatchLives ==
  ASSUME SharedInv, TypeOK', NEW t \in Mains, NEW c \in Fibers, NEW w \in Workers,
         Dispatch(t, c, w)
  PROVE  Lifecycle!Next
<1>1. /\ at[t] = "code" /\ active[t] = c /\ w \notin launched
      /\ launched' = launched \cup {w}
      /\ active'[t] = w /\ \A u \in Mains : u # t => active'[u] = active[u]
      /\ UNCHANGED <<at, shutdown, terminated, cond>>
  BY DEF Dispatch, InUserCode, waitVars, SharedInv, TypeInv, TypeOK
<1>2. /\ w \in Fibers /\ w \notin terminated /\ w \notin Running /\ w \notin Range(cond)
      /\ w \notin Mains /\ ~Gone(w) /\ ~Gone(w)'
  <2>1. CondQ \notin kept[w] /\ w \in Contexts /\ w \notin Mains
    BY <1>1, UnmadeNowhere, Kinds DEF Contexts
  <2> QED
    BY <1>1, <2>1, UnmadeNowhere, Held, Kinds DEF SpotsHold, Fibers, Gone
<1>3. /\ c \in Running /\ ShownOn(t) = c /\ ~Gone(c) /\ (c = t => ~shutdown[t])
      /\ c # w
  BY <1>1, <1>2, UserShown
<1>4. c \notin terminated /\ c \notin Range(cond) /\ (c \in Workers => c \in launched)
  <2>1. ~Waits(t) /\ c \in Contexts
    BY <1>1, Kinds DEF Waits
  <2>2. CondQ \notin kept[c]
    BY <1>1, <2>1 DEF SharedInv, RunningIsFree
  <2> QED
    BY <1>1, <2>1, <2>2, Held
       DEF SpotsHold, SharedInv, EndedOnesLeave, TypeInv, OnlyMadeOnesRun
<1>5. \A x : x \in Running' <=> x = w \/ (x # c /\ x \in Running)
  <2>1. /\ \A x : x \in Running <=> \E u \in Mains : active[u] = x
        /\ \A x : x \in Running' <=> \E u \in Mains : active'[u] = x
    BY RunningIs, RunningNext DEF SharedInv, TypeInv
  <2> QED
    BY <1>1, <2>1 DEF SharedInv, ActiveApart
<1>6. \A x : Gone(x)' <=> Gone(x)
  <2>1. ASSUME NEW x, x # t  PROVE Gone(x)' <=> Gone(x)
    BY <1>1, <2>1 DEF Gone
  <2>2. Gone(t)' <=> Gone(t)
    BY <1>1, <1>2, <1>3 DEF Gone
  <2> QED
    BY <2>1, <2>2
<1>7. Gives(t, w)
  BY <1>1, <1>2, <1>6 DEF Gives, ShownOn
<1>8. Look /\ Look'
  BY LooksNow, LooksNext DEF SharedInv, TypeInv
<1>9. LifeStatus(w) = "unborn"
  BY <1>1, <1>2, <1>8 DEF Look
<1>10. ASSUME NEW x \in Fibers
       PROVE  /\ LifeStatus(x)' = IF x = w THEN "running" ELSE IF x = c THEN "ready"
                                  ELSE LifeStatus(x)
              /\ LifeAwaits(x)' = LifeAwaits(x)
  <2>1. CASE x = w
    BY <1>1, <1>2, <1>5, <1>8, <2>1 DEF Look, LifeAwaits
  <2>2. CASE x = c
    BY <1>1, <1>3, <1>4, <1>5, <1>6, <1>8, <2>2 DEF Look, LifeAwaits
  <2>3. CASE x # w /\ x # c
    BY <1>1, <1>5, <1>6, <1>8, <2>3 DEF Look, LifeAwaits
  <2> QED
    BY <1>3, <2>1, <2>2, <2>3
<1> QED
  BY <1>3, <1>7, <1>9, <1>10, LaunchNowShown

LEMMA WakeLives ==
  ASSUME SharedInv, TypeOK', NEW t \in Mains, NotifyWakes(t)
  PROVE  Lifecycle!Next
<1> DEFINE m == Head(cond)
<1>1. /\ at[t] \in {"notifyOne", "notifyAll"} /\ at'[t] \in {"code", "notifyOne", "notifyAll"}
      /\ \A u \in Mains : u # t => at'[u] = at[u]
      /\ UNCHANGED <<active, launched, terminated, shutdown>>
  BY DEF NotifyWakes, Goto, lifeVars, SharedInv, TypeInv, TypeOK
<1>2. /\ m \in Fibers /\ Range(cond) = Range(Tail(cond)) \cup {m}
      /\ m \notin Range(Tail(cond)) /\ cond' = Tail(cond)
  BY TailApart DEF NotifyWakes, SharedInv, QueuesRepeatNothing, TypeInv, TypeOK
<1>3. CondQ \in kept[m] /\ m \in Contexts
  BY <1>2, Kinds, Held DEF SpotsHold
<1>4. m \notin Running
  <2>1. \A u \in Mains : active[u] # m
    BY <1>1, <1>3 DEF SharedInv, RunningIsFree, CondLockHeld, Waits
  <2> QED
    BY <2>1, RunningIs DEF SharedInv, TypeInv
<1>5. m \notin terminated /\ (m \in Workers => m \in launched)
  <2>1. m \in Live
    BY <1>3 DEF SharedInv, KeptAreLive
  <2> QED
    BY <2>1, Kinds DEF Live, SharedInv, TypeInv, TypeOK
<1>6. ~Gone(m)
  BY <1>3, SpotsApart DEF Gone, SharedInv, MainIsParked
<1>7. active[t] = t => ~shutdown[t]
  BY <1>1, UserShown
<1>8. Running' = Running /\ \A x : Gone(x)' <=> Gone(x)
  <2>1. \A x \in Mains : Gone(x)' <=> Gone(x)
    BY <1>1, <1>7 DEF Gone
  <2> QED
    BY <1>1, <2>1 DEF Running, Gone
<1>9. \A u \in Mains : ShownOn(u)' = ShownOn(u)
  BY <1>1, <1>8 DEF ShownOn
<1>10. Look /\ Look'
  BY LooksNow, LooksNext DEF SharedInv, TypeInv
<1>11. LifeAwaits(m) = Cond
  BY <1>2, <1>4 DEF LifeAwaits
<1>12. ASSUME NEW x \in Fibers
       PROVE  /\ LifeStatus(x)' = IF x \in {m} THEN "ready" ELSE LifeStatus(x)
              /\ LifeAwaits(x)' = IF x \in {m} THEN NoOne ELSE LifeAwaits(x)
  <2> HIDE DEF m
  <2>1. CASE x = m
    BY <1>1, <1>2, <1>4, <1>5, <1>6, <1>8, <1>10, <2>1 DEF Look, LifeAwaits
  <2>2. CASE x # m
    BY <1>1, <1>2, <1>8, <1>10, <2>2 DEF Look, LifeAwaits
  <2> QED
    BY <2>1, <2>2
<1>13. ShownOn(t) # Idle
  BY <1>1, UserShown
<1>14. {m} \in SUBSET Fibers /\ \A x \in {m} : LifeAwaits(x) = Cond
  BY <1>2, <1>11
<1> HIDE DEF m
<1> QED
  BY <1>9, <1>12, <1>13, <1>14, NotifyShown

\* What the switch of thread t from a to m changes.
LEMMA SwitchMoves ==
  ASSUME SharedInv, TypeOK', NEW t \in Mains, Switch(t),
         NEW a, a = active[t], NEW m, m = chosen[t]
  PROVE  /\ a \in Contexts
         /\ a \in Mains => a = t
         /\ a \notin Fibers => a = DispatcherOf[t]
         /\ m \in Contexts /\ m # a
         /\ m \notin Running /\ m \notin terminated /\ m \notin Range(cond)
         /\ m \in Mains => m = t
         /\ m \in Workers => m \in launched
         /\ m \notin Fibers => m = DispatcherOf[t]
         /\ active'[t] = m /\ at[t] = "switch" /\ at'[t] \notin {"pick", "switch"}
         /\ \A u \in Mains : u # t => active'[u] = active[u] /\ at'[u] = at[u]
         /\ \A x : x \in Running' <=> x = m \/ (x # a /\ x \in Running)
         /\ \A x : x # t => (Gone(x)' <=> Gone(x))
         /\ Gone(t)' <=> shutdown[t]
         /\ Gone(t) <=> shutdown[t] /\ a # t
         /\ a \in Running
         /\ UNCHANGED <<launched, terminated, cond, shutdown>>
<1> USE DEF SharedInv
<1>1. /\ m \in Live /\ m \in Contexts /\ m \notin terminated
      /\ kept[m] = {NextOf(t)} /\ home[m] = t
      /\ \A u \in Mains : active[u] # m
      /\ \A u \in Mains : u = m \/ DispatcherOf[u] = m => u = t
      /\ at[t] = "switch"
  BY SwitchFinds
<1>2. a \in Contexts /\ m # a
  BY <1>1, Sorts DEF TypeInv
<1>3. \A u \in Mains : u = a \/ DispatcherOf[u] = a => u = t
  BY <1>2, Kinds DEF RunningAtHome, PinnedAtHome, Pinned
<1>4. a \notin Fibers => a = DispatcherOf[t]
  BY <1>2, <1>3, Kinds DEF Fibers
<1>5. m \notin Fibers => m = DispatcherOf[t]
  BY <1>1, Kinds DEF Fibers
<1>6. m \notin Range(cond)
  BY <1>1, SpotsApart, Held DEF SpotsHold
<1>7. m \in Workers => m \in launched
  BY <1>1, Kinds DEF Live
<1>8. /\ active'[t] = m /\ at'[t] = Entry(t, m)
      /\ \A u \in Mains : u # t => active'[u] = active[u] /\ at'[u] = at[u]
      /\ UNCHANGED <<launched, terminated, cond, shutdown>>
  BY DEF Switch, Goto, lifeVars, TypeInv, TypeOK
<1>9. at'[t] \notin {"pick", "switch"}
  BY <1>8 DEF Entry
<1>10. /\ \A x : x \in Running <=> \E u \in Mains : active[u] = x
       /\ \A x : x \in Running' <=> \E u \in Mains : active'[u] = x
  BY RunningIs, RunningNext DEF TypeInv
<1>11. \A x : x \in Running' <=> x = m \/ (x # a /\ x \in Running)
  BY <1>8, <1>10 DEF ActiveApart
<1>12. m \notin Running /\ a \in Running
  BY <1>1, <1>10
<1>13. \A x : x # t => (Gone(x)' <=> Gone(x))
  BY <1>8 DEF Gone
<1>14. (Gone(t)' <=> shutdown[t]) /\ (Gone(t) <=> shutdown[t] /\ a # t)
  BY <1>1, <1>8, <1>9 DEF Gone
<1> QED
  BY <1>1, <1>2, <1>3, <1>4, <1>5, <1>6, <1>7, <1>8, <1>9, <1>11, <1>12, <1>13, <1>14

\* The dispatcher hands its thread to a fiber, or to the main context that
\* ends.
LEMMA RunLives ==
  ASSUME SharedInv, TypeOK', NEW t \in Mains, Switch(t), active[t] \notin Fibers
  PROVE  Lifecycle!Next \/ UNCHANGED LifeVars
<1> DEFINE a == active[t]
           m == chosen[t]
<1>d. a = active[t] /\ m = chosen[t]
  OBVIOUS
<1> HIDE DEF a, m
<1>1. /\ a = DispatcherOf[t] /\ a \notin Fibers /\ a # t
      /\ m \in Contexts /\ m # a
      /\ m \notin Running /\ m \notin terminated /\ m \notin Range(cond)
      /\ m \in Mains => m = t
      /\ m \in Workers => m \in launched
      /\ m \notin Fibers => m = DispatcherOf[t]
      /\ active'[t] = m
      /\ \A u \in Mains : u # t => active'[u] = active[u]
      /\ \A x : x \in Running' <=> x = m \/ (x # a /\ x \in Running)
      /\ \A x : x # t => (Gone(x)' <=> Gone(x))
      /\ Gone(t)' <=> shutdown[t]
      /\ Gone(t) <=> shutdown[t]
      /\ UNCHANGED <<launched, terminated, cond>>
  BY <1>d, SwitchMoves, LifeFibers
<1>2. m \in Fibers /\ ShownOn(t) = Idle /\ \A x : Gone(x)' <=> Gone(x)
  BY <1>1, <1>d DEF ShownOn
<1>3. Look /\ Look'
  BY LooksNow, LooksNext DEF SharedInv, TypeInv
<1>4. CASE Gone(m)
  <2>1. \A u \in Mains : ShownOn(u)' = ShownOn(u)
    BY <1>1, <1>2, <1>4 DEF ShownOn
  <2>2. ASSUME NEW x \in Fibers
        PROVE  LifeStatus(x)' = LifeStatus(x) /\ LifeAwaits(x)' = LifeAwaits(x)
    BY <1>1, <1>2, <1>3, <1>4 DEF Look, LifeAwaits
  <2> QED
    BY <2>1, <2>2, SameShown
<1>5. CASE ~Gone(m)
  <2>1. LifeStatus(m) = "ready"
    BY <1>1, <1>2, <1>3, <1>5 DEF Look
  <2>2. Gives(t, m)
    BY <1>1, <1>2, <1>5 DEF Gives, ShownOn
  <2>3. ASSUME NEW x \in Fibers
        PROVE  /\ LifeStatus(x)' = IF x = m THEN "running" ELSE LifeStatus(x)
               /\ LifeAwaits(x)' = LifeAwaits(x)
    <3>1. CASE x = m
      BY <1>1, <1>2, <1>3, <1>5, <3>1 DEF Look, LifeAwaits
    <3>2. CASE x # m
      BY <1>1, <1>2, <1>3, <3>2 DEF Look, LifeAwaits
    <3> QED
      BY <3>1, <3>2
  <2> QED
    BY <1>2, <2>1, <2>2, <2>3, RunShown
<1> QED
  BY <1>4, <1>5

\* A fiber hands its thread on: it yields, waits, or ends.
LEMMA LeaveLives ==
  ASSUME SharedInv, TypeOK', NoJoins, NEW t \in Mains, Switch(t),
         NEW a \in Fibers, a = active[t], NEW m, m = chosen[t]
  PROVE  Lifecycle!Next
<1>d. a = active[t] /\ m = chosen[t]
  OBVIOUS
<1>n. PICK next : next = IF m \in Fibers THEN m ELSE Idle
  OBVIOUS
<1>1. /\ a \in Fibers /\ a \in Contexts
      /\ a \in Mains => a = t
      /\ m \in Contexts /\ m # a
      /\ m \notin Running /\ m \notin terminated /\ m \notin Range(cond)
      /\ m \in Mains => m = t
      /\ m \in Workers => m \in launched
      /\ m \notin Fibers => m = DispatcherOf[t]
      /\ active'[t] = m /\ at[t] = "switch"
      /\ \A u \in Mains : u # t => active'[u] = active[u]
      /\ \A x : x \in Running' <=> x = m \/ (x # a /\ x \in Running)
      /\ \A x : x # t => (Gone(x)' <=> Gone(x))
      /\ Gone(t)' <=> shutdown[t]
      /\ Gone(t) <=> shutdown[t] /\ a # t
      /\ a \in Running
      /\ UNCHANGED <<launched, terminated, cond, shutdown>>
  BY <1>d, SwitchMoves
<1>2. ShownOn(t) = a /\ ~Gone(a) /\ a \notin Dispatchers
  BY <1>1, <1>d, Kinds DEF ShownOn, Gone, Fibers
<1>3. m = t => ~shutdown[t]
  <2>1. m = t /\ shutdown[t] => active[t] = DispatcherOf[t]
    BY <1>1, <1>d DEF SharedInv, MainIsParked
  <2> QED
    BY <1>2, <1>d, <2>1, Kinds
<1>4. m \in Fibers => ~Gone(m) /\ ~Gone(m)'
  <2>1. m \in Mains => ~Gone(m) /\ ~Gone(m)'
    BY <1>1, <1>3
  <2> QED
    BY <2>1 DEF Gone
<1>5. \A u \in Mains : u # t => (active[u] \in Fibers => (Gone(active[u])' <=> Gone(active[u])))
  <2>1. ASSUME NEW u \in Mains, u # t  PROVE active[u] # t
    <3>1. active[u] \in Pinned => home[active[u]] = u
      BY DEF SharedInv, RunningAtHome
    <3> QED
      BY <2>1, <3>1 DEF SharedInv, PinnedAtHome, Pinned
  <2> QED
    BY <1>1, <2>1
<1>6. Gives(t, next)
  <2>1. ShownOn(t)' = next
    BY <1>1, <1>4, <1>n DEF ShownOn
  <2>2. \A u \in Mains : u # t => ShownOn(u)' = ShownOn(u)
    BY <1>1, <1>5 DEF ShownOn
  <2> QED
    BY <2>1, <2>2 DEF Gives
<1>7. Look /\ Look'
  BY LooksNow, LooksNext DEF SharedInv, TypeInv
<1>8. /\ next \in Fibers \cup {Idle}
      /\ next \in Fibers => next = m /\ next # a /\ LifeStatus(next) = "ready"
      /\ m \in Fibers => next = m
      /\ next # a
  BY <1>1, <1>4, <1>7, <1>n, LifeFibers DEF Look
\* The others, and the one that runs next.
<1>9. ASSUME NEW x \in Fibers, x # a
      PROVE  /\ LifeStatus(x)' = IF x = next THEN "running" ELSE LifeStatus(x)
             /\ LifeAwaits(x)' = LifeAwaits(x)
  <2>1. CASE x = m
    BY <1>1, <1>4, <1>7, <1>8, <1>9, <2>1 DEF Look, LifeAwaits
  <2>2. CASE x # m
    <3>1. x # next
      BY <1>8, <1>9, <2>2
    <3>2. Gone(x)' <=> Gone(x)
      BY <1>1, <1>9, <1>2
    <3> QED
      BY <1>1, <1>7, <1>9, <2>2, <3>1, <3>2 DEF Look, LifeAwaits
  <2> QED
    BY <2>1, <2>2
<1>10. LifeAwaits(a) = NoOne /\ a \notin Running'
  BY <1>1 DEF LifeAwaits
<1>11. /\ kept[a] \subseteq {CondQ} /\ (kept[a] # {} => a \in Live)
       /\ a \in Range(cond) <=> CondQ \in kept[a]
  BY <1>1, <1>d, Held DEF SpotsHold, SharedInv, WithoutJoins, KeptAreLive
<1>12. /\ a \in Workers => a \in launched
       /\ a \in Live => a \notin terminated
  BY <1>d, Kinds DEF SharedInv, TypeInv, TypeOK, OnlyMadeOnesRun, Live
<1>13. CASE back[t] # NoOne
  <2>1. a \notin terminated /\ a \notin Range(cond) /\ ~Gone(a)'
    <3>1. kept[a] = {} /\ a \notin terminated /\ (a = t => ~shutdown[t])
      BY <1>13, <1>d, SwitchFinds
    <3> QED
      BY <1>1, <1>11, <3>1 DEF Gone
  <2>2. LifeStatus(a)' = "ready" /\ LifeAwaits(a)' = LifeAwaits(a)
    BY <1>1, <1>7, <1>10, <1>12, <2>1 DEF Look, LifeAwaits
  <2> QED
    BY <1>1, <1>2, <1>6, <1>8, <1>9, <2>2, YieldShown
<1>14. CASE back[t] = NoOne /\ kept[a] # {}
  <2>1. a \in Range(cond) /\ a \notin terminated
    BY <1>11, <1>12, <1>14
  <2>2. ~Gone(a)'
    <3>1. a = t => ~shutdown[t]
      BY <1>11, <1>14, SpotsApart DEF SharedInv, MainIsParked
    <3> QED
      BY <1>1, <3>1 DEF Gone
  <2>3. LifeStatus(a)' = "waiting" /\ LifeAwaits(a)' = Cond
    BY <1>1, <1>7, <1>10, <1>12, <2>1, <2>2 DEF Look, LifeAwaits
  <2> QED
    BY <1>1, <1>2, <1>6, <1>8, <1>9, <2>3, AwaitShown
<1>15. CASE back[t] = NoOne /\ kept[a] = {}
  <2>1. a \in terminated \/ (a = t /\ shutdown[t])
    <3>1. Waits(t)
      BY <1>1, <1>15 DEF Waits
    <3>2. a # DispatcherOf[t]
      BY <1>2, Kinds
    <3> QED
      BY <1>15, <1>d, <3>1, <3>2 DEF SharedInv, WaitersAreKept
  <2>2. a \notin Range(cond)
    BY <1>11, <1>15
  <2>3. LifeStatus(a)' = "ended" /\ LifeAwaits(a)' = LifeAwaits(a)
    BY <1>1, <1>7, <1>10, <2>1, <2>2 DEF Look, LifeAwaits
  <2> QED
    BY <1>1, <1>2, <1>6, <1>8, <1>9, <2>3, EndShown
<1> QED
  BY <1>13, <1>14, <1>15

\* The steps that show nothing.
LEMMA QuietLives ==
  ASSUME SharedInv, TypeOK', NoJoins, NEW t \in Mains,
         \/ \E c \in Fibers :
              Yield(t, c) \/ CondWait(t, c) \/ Notify(t, c, "notifyOne") \/ Notify(t, c, "notifyAll")
         \/ \E w \in Workers : EndFiber(t, w)
         \/ WakeJoiner(t) \/ Terminate(t) \/ PickNext(t) \/ DispatchTurn(t) \/ ShutDown(t)
  PROVE  UNCHANGED LifeVars
<1> USE DEF SharedInv
<1>k. active[t] \in Contexts /\ (active[t] = t => active[t] # DispatcherOf[t])
      /\ active[t] \in Running
  BY Sorts, RunningIs DEF TypeInv
<1> DEFINE Steady == /\ UNCHANGED <<active, launched>>
                     /\ \A u \in Mains : u # t => UNCHANGED <<at[u], shutdown[u]>>
<1>f. Steady
  <2>1. ASSUME NEW c \in Fibers,
               \/ Yield(t, c) \/ CondWait(t, c)
               \/ Notify(t, c, "notifyOne") \/ Notify(t, c, "notifyAll")
        PROVE  Steady
    BY <2>1 DEF Yield, CondWait, Notify, Suspend, Goto, lifeVars, TypeInv, TypeOK
  <2>2. ASSUME NEW w \in Workers, EndFiber(t, w)  PROVE Steady
    BY <2>2 DEF EndFiber, Goto, TypeInv, TypeOK
  <2>3. CASE WakeJoiner(t) \/ Terminate(t)
    BY <2>3 DEF WakeJoiner, Terminate, Suspend, Goto, lifeVars, TypeInv, TypeOK
  <2>4. CASE PickNext(t)
    BY <2>4
    DEF PickNext, TakeShared, TakeOwn, FindNothing, NotPicked, Goto, lifeVars, TypeInv, TypeOK
  <2>5. CASE DispatchTurn(t) \/ ShutDown(t)
    BY <2>5 DEF DispatchTurn, ShutDown, Suspend, Goto, lifeVars, TypeInv, TypeOK
  <2> QED
    BY <2>1, <2>2, <2>3, <2>4, <2>5
<1>1. \A u \in Mains : Gone(u)' <=> Gone(u)
  <2>1. CASE at[t] = "code" /\ UNCHANGED shutdown
    BY <1>f, <2>1, UserShown, GoneStill
  <2>2. CASE ShutDown(t)
    <3>1. active[t] = t /\ at[t] = "code" /\ at'[t] = "pick"
      BY <2>2 DEF ShutDown, InUserCode, Suspend, Goto, TypeInv, TypeOK
    <3> QED
      BY <1>f, <3>1, UserShown, GoneStill
  <2>3. CASE WakeJoiner(t) \/ Terminate(t)
    <3>1. active[t] # t
      <4>1. active[t] \in Workers
        BY <2>3 DEF WakeJoiner, Terminate, TypeInv, TypeOK, ThreadsKnowWhom
      <4> QED
        BY <4>1, Kinds
    <3>2. UNCHANGED shutdown
      BY <2>3 DEF WakeJoiner, Terminate
    <3> QED
      BY <1>f, <3>1, <3>2, GoneStill
  <2>4. CASE PickNext(t)
    <3>1. UNCHANGED shutdown /\ at[t] = "pick"
      BY <2>4 DEF PickNext, NotPicked
    <3>2. at'[t] = "switch" \/ active[t] \in Dispatchers
      BY <2>4 DEF PickNext, TakeShared, TakeOwn, FindNothing, Goto, TypeInv, TypeOK
    <3>3. active[t] \in Dispatchers => active[t] # t
      BY Kinds
    <3> QED
      BY <1>f, <3>1, <3>2, <3>3, GoneStill
  <2>5. CASE DispatchTurn(t)
    <3>1. UNCHANGED shutdown /\ active[t] # t
      BY <1>k, <2>5 DEF DispatchTurn, ThreadsKeepOrder
    <3> QED
      BY <1>f, <3>1, GoneStill
  <2>6. (at[t] = "code" /\ UNCHANGED shutdown) \/ ShutDown(t) \/ WakeJoiner(t) \/ Terminate(t)
        \/ PickNext(t) \/ DispatchTurn(t)
    BY DEF Yield, CondWait, Notify, EndFiber, InUserCode
  <2> QED
    BY <2>1, <2>2, <2>3, <2>4, <2>5, <2>6
<1>2. ASSUME NEW c \in Fibers, c \notin Running
      PROVE  /\ c \in terminated' <=> c \in terminated
             /\ c \in Range(cond)' <=> c \in Range(cond)
  <2>1. c # active[t]
    BY <1>k, <1>2
  <2>2. UNCHANGED terminated \/ terminated' = terminated \cup {active[t]}
    BY DEF Yield, CondWait, Notify, EndFiber, InUserCode, WakeJoiner, Terminate, PickNext,
           DispatchTurn, ShutDown, lifeVars, NotPicked
  <2>3. UNCHANGED cond \/ (cond' = Append(cond, active[t]) /\ active[t] \in Fibers)
    <3>1. ASSUME NEW d \in Fibers, CondWait(t, d)
          PROVE  cond' = Append(cond, active[t]) /\ active[t] \in Fibers
      BY <3>1 DEF CondWait, InUserCode
    <3>2. ASSUME NEW d \in Fibers, Yield(t, d) \/ Notify(t, d, "notifyOne")
               \/ Notify(t, d, "notifyAll")
          PROVE  UNCHANGED cond
      BY <3>2 DEF Yield, Notify, waitVars
    <3>3. ASSUME NEW w \in Workers, EndFiber(t, w)  PROVE UNCHANGED cond
      BY <3>3 DEF EndFiber, waitVars
    <3>4. CASE WakeJoiner(t) \/ Terminate(t) \/ PickNext(t) \/ DispatchTurn(t) \/ ShutDown(t)
      <4>1. WakeJoiner(t) => UNCHANGED cond
        BY DEF WakeJoiner
      <4>2. Terminate(t) \/ DispatchTurn(t) \/ ShutDown(t) => UNCHANGED cond
        BY DEF Terminate, DispatchTurn, ShutDown, waitVars
      <4>3. PickNext(t) => UNCHANGED cond
        BY DEF PickNext, NotPicked, waitVars
      <4> QED
        BY <3>4, <4>1, <4>2, <4>3
    <3> QED
      BY <3>1, <3>2, <3>3, <3>4
  <2>4. cond' = Append(cond, active[t]) /\ active[t] \in Fibers =>
          Range(cond') = Range(cond) \cup {active[t]}
    BY AppendApart DEF TypeInv, TypeOK
  <2> QED
    BY <2>1, <2>2, <2>3, <2>4
<1> QED
  BY <1>f, <1>1, <1>2, QuietShown DEF TypeInv

LEMMA LifeInit == Init => Lifecycle!Init
<1> SUFFICES ASSUME Init PROVE Lifecycle!Init
  OBVIOUS
<1>1. /\ \A t \in Mains : active[t] = t /\ ~shutdown[t]
      /\ launched = {} /\ terminated = {} /\ cond = <<>>
  BY DEF Init
<1>2. \A c : c \in Running <=> c \in Mains
  BY DEF Init, Running, Range
<1>3. \A c : c \notin Range(cond) /\ ~Gone(c)
  BY <1>1, EmptyQueue DEF Gone
<1>4. Look
  BY TypeInit, LooksNow DEF TypeInv
<1>5. \A c \in Fibers : LifeStatus(c) = IF c \in Mains THEN "running" ELSE "unborn"
  BY <1>1, <1>2, <1>3, <1>4, Kinds DEF Look, Fibers
<1> QED
  BY <1>1, <1>3, <1>5, LifeFibers DEF Lifecycle!Init

LEMMA LifeStep ==
  ASSUME NoOrigins, NoJoins, SharedInv, [Next]_vars
  PROVE  [Lifecycle!Next]_LifeVars
<1>0. TypeOK'
  BY TypeStep DEF SharedInv, TypeInv
\* A program that stops, or does nothing, shows nothing.
<1>s. ASSUME UNCHANGED <<active, launched, terminated, cond, at, shutdown>>
      PROVE  UNCHANGED LifeVars
  BY <1>0, <1>s, QuietShown DEF Gone, SharedInv, TypeInv
<1>h. ASSUME NEW why, Halt(why)  PROVE UNCHANGED LifeVars
  BY <1>h, <1>s DEF Halt, lifeVars, waitVars, cpuVars
<1>1. ASSUME NEW t \in Mains, ThreadStep(t)  PROVE [Lifecycle!Next]_LifeVars
  <2>1. ASSUME NEW c \in Fibers, NEW w \in Workers,
               Post(t, c, w) \/ Dispatch(t, c, w) \/ Async(t, c, w) \/ Join(t, c, w)
        PROVE  Lifecycle!Next
    BY <1>0, <2>1, LaunchLives, DispatchLives DEF Join, NoJoins
  <2>2. ASSUME NEW c \in Fibers,
               LaunchHalts(t, c) \/ SuspendHalts(t, c) \/ YieldOrigin(t, c)
        PROVE  UNCHANGED LifeVars
    BY <1>h, <2>2 DEF LaunchHalts, SuspendHalts, YieldOrigin, NoOrigins
  <2>3. CASE NotifyHalts(t) \/ WakeJoinerHalts(t) \/ TerminateHalts(t)
             \/ PickNextHalts(t) \/ SwitchHalts(t)
    BY <1>h, <2>3 DEF NotifyHalts, WakeJoinerHalts, TerminateHalts, PickNextHalts,
                      SwitchHalts, WakeHalts
  <2>4. ASSUME NEW c \in Fibers, Yield(t, c) \/ CondWait(t, c) \/ Notify(t, c, "notifyOne")
                                 \/ Notify(t, c, "notifyAll")
        PROVE  UNCHANGED LifeVars
    BY <1>0, <2>4, QuietLives
  <2>5. CASE (\E w \in Workers : EndFiber(t, w)) \/ WakeJoiner(t) \/ Terminate(t)
             \/ PickNext(t) \/ DispatchTurn(t) \/ ShutDown(t)
    BY <1>0, <2>5, QuietLives
  <2>6. CASE NotifyWakes(t)
    BY <1>0, <2>6, WakeLives
  <2>7. CASE Switch(t)
    BY <1>0, <2>7, RunLives, LeaveLives
  <2>8. ~JoinWait(t)
    BY DEF JoinWait, SharedInv, WithoutJoins
  <2> QED
    BY <1>1, <2>1, <2>2, <2>3, <2>4, <2>5, <2>6, <2>7, <2>8 DEF ThreadStep
<1>2. CASE Race
  BY <1>2, <1>h DEF Race
<1>3. CASE UNCHANGED vars
  BY <1>3, <1>s DEF vars, lifeVars, waitVars, cpuVars
<1> QED
  BY <1>1, <1>2, <1>3 DEF Next

(***************************************************************************)
(* In a program that uses neither Join nor YieldOrigin, all threads        *)
(* together implement the life of a fiber that FiberLifecycle promises:    *)
(* every step of a thread is one of its steps, or shows nothing.           *)
(***************************************************************************)
THEOREM ThreadsLiveAsPromised ==
  NoOrigins /\ NoJoins => (Spec => ImplementsLifecycle)
<1> SUFFICES ASSUME NoOrigins, NoJoins PROVE Spec => ImplementsLifecycle
  OBVIOUS
<1>1. Spec => []SharedInv
  BY SharedInvariance
<1>2. SharedInv /\ [Next]_vars => [Lifecycle!Next]_LifeVars
  BY LifeStep
<1> QED
  BY <1>1, <1>2, LifeInit, PTL
  DEF Spec, ImplementsLifecycle, Lifecycle!Spec, Lifecycle!vars, LifeVars

=============================================================================
