------------------------ MODULE RoundRobinRefinement ------------------------
(***************************************************************************)
(* RoundRobinScheduler implements FiberLifecycle, for any number of fibers *)
(* that never sleep.                                                       *)
(***************************************************************************)
EXTENDS RoundRobinProofs

\* What the refinement mapping shows as running.
Shown == IF ShowsIdle THEN Dispatcher ELSE active

Ended(c) == c \in terminated \/ (c = Main /\ shutdown)

\* What a fiber of a thread that goes on shows, by its place.
Look ==
  /\ \A c \in Fibers :
       LifeStatus(c) = IF Ended(c) THEN "ended"
                       ELSE IF c \notin Live THEN "unborn"
                       ELSE IF c = active THEN "running"
                       ELSE IF c \in Waiting THEN "waiting"
                       ELSE "ready"
  /\ \A c \in Fibers :
       /\ c \in Range(cond) => LifeAwaits(c) = Cond
       /\ \A w \in Workers : c \in Range(waitList[w]) => LifeAwaits(c) = w
       /\ c \notin Waiting => LifeAwaits(c) = NoOne
  /\ Shown = IF active \in Fibers /\ ~Ended(active) THEN active ELSE Dispatcher

\* Every live context has a place, and only one.
Settled ==
  /\ TypeOK /\ OnlyMadeFibersEnd
  /\ ReadyIsApart /\ CondIsApart /\ WaitListsAreApart
  /\ \A c \in Live \ {active} : \/ c \in Range(ready) \/ c \in Range(cond)
                                \/ WaitsIn(c) # {} \/ Parked(c)

-----------------------------------------------------------------------------
(***************************************************************************)
(* Steps of FiberLifecycle, fiber by fiber.                                *)
(***************************************************************************)
LEMMA LifeFibers ==
  Lifecycle!Fibers = Fibers
BY DEF Lifecycle!Fibers, Fibers

LEMMA LaunchShown ==
  ASSUME NEW w \in Workers, Shown # Dispatcher, LifeStatus(w) = "unborn",
         Shown' = Shown,
         \A c \in Fibers : /\ LifeStatus(c)' = IF c = w THEN "ready" ELSE LifeStatus(c)
                           /\ LifeAwaits(c)' = LifeAwaits(c)
  PROVE  Lifecycle!Next
<1>1. Lifecycle!Launch(Main, w)
  BY Names DEF Lifecycle!Launch, Shown
<1> QED
  BY <1>1 DEF Lifecycle!Next

\* The running fiber c gives the thread to next; st are the others' statuses.
LEMMA HandoverShown ==
  ASSUME NEW st, NEW next \in Fibers \cup {Dispatcher},
         next \in Fibers => st[next] = "ready", Shown' = next,
         \A x \in Fibers : LifeStatus(x)' = IF x = next THEN "running" ELSE st[x]
  PROVE  Lifecycle!Handover(Main, next, st)
BY LifeFibers DEF Lifecycle!Handover, Shown

LEMMA YieldShown ==
  ASSUME NEW c \in Fibers, NEW next \in Fibers \cup {Dispatcher}, Shown = c,
         next \in Fibers => next # c /\ LifeStatus(next) = "ready", Shown' = next,
         \A x \in Fibers : /\ LifeStatus(x)' = IF x = next THEN "running"
                                               ELSE IF x = c THEN "ready"
                                               ELSE LifeStatus(x)
                           /\ LifeAwaits(x)' = LifeAwaits(x)
  PROVE  Lifecycle!Next
<1> DEFINE st == [[x \in Fibers |-> LifeStatus(x)] EXCEPT ![c] = "ready"]
<1>1. \A x \in Fibers : st[x] = IF x = c THEN "ready" ELSE LifeStatus(x)
  OBVIOUS
<1>2. Lifecycle!Handover(Main, next, st)
  <2> HIDE DEF st
  <2> QED BY <1>1, HandoverShown
<1>3. Lifecycle!Yield(Main, next)
  BY <1>2, Names DEF Lifecycle!Yield, Shown
<1> QED
  BY <1>3, LifeFibers DEF Lifecycle!Next

LEMMA LaunchNowShown ==
  ASSUME NEW c \in Fibers, NEW w \in Workers, c # w, Shown = c,
         LifeStatus(w) = "unborn", Shown' = w,
         \A x \in Fibers : /\ LifeStatus(x)' = IF x = w THEN "running"
                                               ELSE IF x = c THEN "ready"
                                               ELSE LifeStatus(x)
                           /\ LifeAwaits(x)' = LifeAwaits(x)
  PROVE  Lifecycle!Next
<1> DEFINE st == [[x \in Fibers |-> LifeStatus(x)] EXCEPT ![w] = "ready", ![c] = "ready"]
<1>1. /\ \A x \in Fibers : st[x] = IF x \in {c, w} THEN "ready" ELSE LifeStatus(x)
      /\ w \in Fibers
  BY Names
<1>2. Lifecycle!Handover(Main, w, st)
  <2> HIDE DEF st
  <2> QED BY <1>1, HandoverShown
<1>3. Lifecycle!LaunchNow(Main, w)
  BY <1>2, Names DEF Lifecycle!LaunchNow, Shown
<1> QED
  BY <1>3 DEF Lifecycle!Next

LEMMA AwaitShown ==
  ASSUME NEW c \in Fibers, NEW next \in Fibers \cup {Dispatcher}, Shown = c,
         NEW what \in Workers \cup {Cond},
         what \in Workers => LifeStatus(what) # "ended",
         next \in Fibers => next # c /\ LifeStatus(next) = "ready", Shown' = next,
         \A x \in Fibers : /\ LifeStatus(x)' = IF x = next THEN "running"
                                               ELSE IF x = c THEN "waiting"
                                               ELSE LifeStatus(x)
                           /\ LifeAwaits(x)' = IF x = c THEN what ELSE LifeAwaits(x)
  PROVE  Lifecycle!Next
<1> DEFINE st == [[x \in Fibers |-> LifeStatus(x)] EXCEPT ![c] = "waiting"]
<1>1. \A x \in Fibers : st[x] = IF x = c THEN "waiting" ELSE LifeStatus(x)
  OBVIOUS
<1>2. Lifecycle!Handover(Main, next, st)
  <2> HIDE DEF st
  <2> QED BY <1>1, HandoverShown
<1>3. Lifecycle!Await(Main, what, next)
  BY <1>2, Names DEF Lifecycle!Await, Shown
<1> QED
  BY <1>3, LifeFibers DEF Lifecycle!Next

LEMMA NotifyShown ==
  ASSUME NEW S \in SUBSET Fibers, Shown # Dispatcher,
         \A x \in S : LifeAwaits(x) = Cond, Shown' = Shown,
         \A x \in Fibers : /\ LifeStatus(x)' = IF x \in S THEN "ready" ELSE LifeStatus(x)
                           /\ LifeAwaits(x)' = IF x \in S THEN NoOne ELSE LifeAwaits(x)
  PROVE  Lifecycle!Next
<1>1. Lifecycle!Notify(Main, S)
  BY LifeFibers DEF Lifecycle!Notify, Shown
<1> QED
  BY <1>1, LifeFibers DEF Lifecycle!Next

LEMMA EndShown ==
  ASSUME NEW c \in Fibers, NEW next \in Fibers \cup {Dispatcher}, Shown = c,
         next \in Fibers => /\ next # c
                            /\ LifeStatus(next) = "ready" \/ LifeAwaits(next) = c,
         Shown' = next,
         \A x \in Fibers : /\ LifeStatus(x)' = IF x = next THEN "running"
                                               ELSE IF x = c THEN "ended"
                                               ELSE IF LifeAwaits(x) = c THEN "ready"
                                               ELSE LifeStatus(x)
                           /\ LifeAwaits(x)' = IF LifeAwaits(x) = c THEN NoOne
                                               ELSE LifeAwaits(x)
  PROVE  Lifecycle!Next
<1> DEFINE freed == {x \in Fibers : LifeAwaits(x) = c}
           st == [x \in Fibers |-> IF x = c THEN "ended"
                                   ELSE IF x \in freed THEN "ready" ELSE LifeStatus(x)]
<1>1. \A x \in Fibers : st[x] = IF x = c THEN "ended"
                                ELSE IF LifeAwaits(x) = c THEN "ready" ELSE LifeStatus(x)
  OBVIOUS
<1>2. Lifecycle!Handover(Main, next, st)
  <2> HIDE DEF st
  <2> QED BY <1>1, HandoverShown
<1>3. Lifecycle!End(Main, next)
  <2>1. freed = {x \in Lifecycle!Fibers : [y \in Fibers |-> LifeAwaits(y)][x] = c}
        /\ st = [x \in Lifecycle!Fibers |->
                   IF x = c THEN "ended" ELSE IF x \in freed THEN "ready"
                   ELSE [y \in Fibers |-> LifeStatus(y)][x]]
    BY LifeFibers
  <2>2. [x \in Fibers |-> LifeAwaits(x)']
          = [x \in Lifecycle!Fibers |-> IF x \in freed THEN NoOne
                                        ELSE [y \in Fibers |-> LifeAwaits(y)][x]]
    BY LifeFibers
  <2>3. [t \in {Main} |-> IF ShowsIdle THEN Dispatcher ELSE active][Main] = c
        /\ c # Dispatcher
    BY Names DEF Shown
  <2> HIDE DEF freed, st
  <2> QED BY <1>2, <2>1, <2>2, <2>3 DEF Lifecycle!End
<1> QED
  BY <1>3, LifeFibers DEF Lifecycle!Next

LEMMA RunShown ==
  ASSUME NEW next \in Fibers, Shown = Dispatcher, LifeStatus(next) = "ready",
         Shown' = next,
         \A x \in Fibers : /\ LifeStatus(x)' = IF x = next THEN "running" ELSE LifeStatus(x)
                           /\ LifeAwaits(x)' = LifeAwaits(x)
  PROVE  Lifecycle!Next
<1> DEFINE st == [x \in Fibers |-> LifeStatus(x)]
<1>1. \A x \in Fibers : st[x] = LifeStatus(x)
  OBVIOUS
<1>2. Lifecycle!Handover(Main, next, st)
  <2> HIDE DEF st
  <2> QED BY <1>1, HandoverShown
<1>3. Lifecycle!Run(Main, next)
  BY <1>2, LifeFibers DEF Lifecycle!Run, Shown
<1> QED
  BY <1>3, LifeFibers DEF Lifecycle!Next

LEMMA SameShown ==
  ASSUME Shown' = Shown,
         \A x \in Fibers : LifeStatus(x)' = LifeStatus(x) /\ LifeAwaits(x)' = LifeAwaits(x)
  PROVE  UNCHANGED <<[c \in Fibers |-> LifeStatus(c)],
                     [t \in {Main} |-> IF ShowsIdle THEN Dispatcher ELSE active],
                     [c \in Fibers |-> LifeAwaits(c)]>>
BY DEF Shown

-----------------------------------------------------------------------------
\* Fibers look like their places when each has one.
LEMMA LooksRight ==
  Settled => Look
<1> SUFFICES ASSUME Settled  PROVE Look
  OBVIOUS
<1>1. ASSUME NEW c \in Fibers
      PROVE  LifeStatus(c) = IF Ended(c) THEN "ended"
                             ELSE IF c \notin Live THEN "unborn"
                             ELSE IF c = active THEN "running"
                             ELSE IF c \in Waiting THEN "waiting"
                             ELSE "ready"
  <2>1. c \in Waiting <=> c \in Range(cond) \/ WaitsIn(c) # {}
    BY DEF Waiting, WaitsIn
  <2>2. c \in Live <=> c = Main \/ (c \in Workers /\ Created(c) /\ c \notin terminated)
    BY Names DEF Live, Fibers
  <2>3. c \in Live /\ c # active /\ c \notin Waiting /\ ~Ended(c) => c \in Range(ready)
    BY <2>1, Names DEF Settled, Parked, Ended
  <2>4. Main \notin terminated /\ Workers \subseteq Fibers
    BY Names DEF Settled, TypeOK
  <2>5. CASE Ended(c)
    <3>1. ~(c \in Workers /\ ~Created(c))
      BY <2>5, Names DEF Ended, Settled, OnlyMadeFibersEnd
    <3> QED BY <2>5, <3>1 DEF LifeStatus, Ended
  <2>6. CASE ~Ended(c) /\ c \notin Live
    <3>1. c \in Workers /\ ~Created(c)
      BY <2>2, <2>6, Names DEF Fibers, Ended
    <3> QED BY <2>6, <3>1 DEF LifeStatus, Ended
  <2>7. CASE ~Ended(c) /\ c \in Live
    <3>1. ~(c \in Workers /\ ~Created(c))
      BY <2>2, <2>7, Names
    <3> DEFINE place == CASE c = active                             -> "running"
                          [] c \in Range(cond) \/ WaitsIn(c) # {}   -> "waiting"
                          [] c \in Range(ready)                     -> "ready"
                          [] OTHER                                  -> "lost"
    <3>2. LifeStatus(c) = place
      <4> HIDE DEF place
      <4>1. ~(c \in terminated \/ (c = Main /\ shutdown))
        BY <2>7 DEF Ended
      <4> QED BY <3>1, <4>1 DEF LifeStatus, place
    <3>3. c = active => c \notin Waiting /\ c \notin Range(ready)
      BY DEF Settled, ReadyIsApart, CondIsApart, WaitListsAreApart, Waiting
    <3>4. c \in Waiting => c \notin Range(ready)
      BY DEF Settled, CondIsApart, WaitListsAreApart, Waiting
    <3> QED BY <2>1, <2>3, <2>7, <3>2, <3>3, <3>4
  <2> QED
    BY <2>5, <2>6, <2>7
<1>2. ASSUME NEW c \in Fibers
      PROVE  /\ c \in Range(cond) => LifeAwaits(c) = Cond
             /\ \A w \in Workers : c \in Range(waitList[w]) => LifeAwaits(c) = w
             /\ c \notin Waiting => LifeAwaits(c) = NoOne
  <2>1. c \in Waiting <=> c \in Range(cond) \/ WaitsIn(c) # {}
    BY DEF Waiting, WaitsIn
  <2>2. ASSUME NEW w \in Workers, c \in Range(waitList[w])
        PROVE  c \notin Range(cond) /\ WaitsIn(c) = {w}
    BY <2>2 DEF Settled, WaitListsAreApart, WaitsIn
  <2> QED
    BY <2>1, <2>2 DEF LifeAwaits
<1>3. Shown = IF active \in Fibers /\ ~Ended(active) THEN active ELSE Dispatcher
  BY DEF Shown, ShowsIdle, Ended
<1> QED
  BY <1>1, <1>2, <1>3 DEF Look

LEMMA LooksNow ==
  Inv /\ GoesOn => Look
<1>1. Inv /\ GoesOn => Settled
  BY DEF Inv, Places, NoContextIsLost, Settled
<1> QED
  BY <1>1, LooksRight

LEMMA LooksNext ==
  Inv' /\ GoesOn' => Look'
BY LooksNow, PTL

-----------------------------------------------------------------------------
(***************************************************************************)
(* The steps of the thread, as steps of FiberLifecycle.                    *)
(***************************************************************************)

\* A context of the ready queue is a ready fiber or the dispatcher.
LEMMA ReadyLooks ==
  ASSUME Inv, Places, Look, NEW n \in Range(ready)
  PROVE  /\ n \in Fibers \cup {Dispatcher} /\ n \in Live /\ n # active
         /\ n \notin Waiting /\ ~Ended(n)
         /\ n \in Fibers => LifeStatus(n) = "ready"
<1>1. n \in Live /\ n # active /\ n \notin Waiting
  BY DEF Places, ReadyIsApart, CondIsApart, WaitListsAreApart, Waiting
<1>2. n \in Fibers \cup {Dispatcher}
  BY <1>1, Names DEF Contexts
<1>3. ~Ended(n)
  BY <1>1, Names DEF Live, Ended, Places, MainIsParked, Inv, TypeOK
<1> QED
  BY <1>1, <1>2, <1>3 DEF Look

\* The fiber that makes a call looks like the running one.
LEMMA CallerLooks ==
  ASSUME Inv, Look, NEW c \in Fibers, InUserCode(c)
  PROVE  Shown = c /\ ~Ended(c) /\ c # Dispatcher
BY UserCode, Names DEF Look, Ended

LEMMA SameAwaits ==
  ASSUME UNCHANGED <<cond, waitList>>
  PROVE  Waiting' = Waiting /\ \A x \in Fibers : LifeAwaits(x)' = LifeAwaits(x)
BY DEF Waiting, LifeAwaits, WaitsIn

LEMMA PostLives ==
  ASSUME Inv, Look, Inv', NEW c \in Fibers, NEW w \in Workers, Post(c, w)
  PROVE  Lifecycle!Next
<1>1. Places /\ active = c /\ Shown = c /\ ~Ended(c) /\ c # Dispatcher
  BY UserCode, CallerLooks DEF Post
<1>2. /\ UNCHANGED <<active, terminated, shutdown, cond, waitList>>
      /\ w \notin Live /\ Live' = Live \cup {w} /\ ~Ended(w) /\ w \in Fibers
  BY Names DEF Post, loopVars, Created, Live, Inv, OnlyMadeFibersEnd, TypeOK, Ended
<1>3. Waiting' = Waiting /\ \A x \in Fibers : LifeAwaits(x)' = LifeAwaits(x)
  BY <1>2, SameAwaits
<1>4. w # active /\ w \notin Waiting
  BY <1>1, <1>2
  DEF Places, OthersAreSaved, CondIsApart, WaitListsAreApart, Waiting
<1>look. Look'
  <2>1. GoesOn'
    BY <1>1, UserCode DEF Post, GoesOn, Exited
  <2> QED BY <2>1, LooksNext
<1>5. Shown' = c /\ LifeStatus(w) = "unborn"
  BY <1>1, <1>2, <1>look DEF Look, Ended
<1>6. \A x \in Fibers : LifeStatus(x)' = IF x = w THEN "ready" ELSE LifeStatus(x)
  BY <1>2, <1>3, <1>4, <1>look DEF Look, Ended
<1> QED
  BY <1>1, <1>3, <1>5, <1>6, LaunchShown

LEMMA DispatchLives ==
  ASSUME Inv, Look, Inv', NEW c \in Fibers, NEW w \in Workers, Dispatch(c, w)
  PROVE  Lifecycle!Next
<1>1. /\ Places /\ active = c /\ Shown = c /\ ~Ended(c) /\ c # Dispatcher
      /\ c \in Live /\ c \notin Waiting
  BY UserCode, CallerLooks DEF Dispatch
<1>2. /\ UNCHANGED <<terminated, shutdown, cond, waitList>> /\ active' = w
      /\ w \notin Live /\ Live' = Live \cup {w} /\ ~Ended(w) /\ w \in Fibers
  BY Names DEF Dispatch, loopVars, Created, Live, Inv, OnlyMadeFibersEnd, TypeOK, Ended
<1>3. Waiting' = Waiting /\ \A x \in Fibers : LifeAwaits(x)' = LifeAwaits(x)
  BY <1>2, SameAwaits
<1>look. Look'
  <2>1. GoesOn'
    BY <1>2, UserCode, Names DEF Dispatch, GoesOn, Exited
  <2> QED BY <2>1, LooksNext
<1>4. Shown' = w /\ LifeStatus(w) = "unborn" /\ c # w
  BY <1>1, <1>2, <1>look DEF Look, Ended
<1>5. \A x \in Fibers : LifeStatus(x)' = IF x = w THEN "running"
                                         ELSE IF x = c THEN "ready" ELSE LifeStatus(x)
  BY <1>1, <1>2, <1>3, <1>look DEF Look, Ended
<1> QED
  BY <1>1, <1>3, <1>4, <1>5, LaunchNowShown

LEMMA YieldLives ==
  ASSUME Inv, Look, Inv', NEW c \in Fibers, Yield(c)
  PROVE  Lifecycle!Next
<1>1. /\ Places /\ active = c /\ Shown = c /\ ~Ended(c) /\ c # Dispatcher
      /\ c \in Live /\ c \notin Waiting /\ c \notin Range(ready) /\ ready # <<>>
  BY UserCode, CallerLooks DEF Yield
<1>2. active' \in Range(ready) /\ halted' = halted
  <2>1. /\ ready \in Seq(Contexts) /\ IsInjective(ready) /\ TypeOK
        /\ Range(ready) \subseteq Live \ {active}
    BY <1>1 DEF Places, ReadyIsApart, Inv, TypeOK
  <2> DEFINE back == <<c>>
  <2>2. back \in Seq(Contexts) /\ Range(back) = {c} /\ IsInjective(back)
    BY OneContext, Names
  <2>3. ResumeNext(ready, back)
    BY DEF Yield
  <2> HIDE DEF back
  <2> QED BY <1>1, <2>1, <2>2, <2>3, GoodSwitch
<1>3. /\ UNCHANGED <<terminated, shutdown, cond, waitList>> /\ Live' = Live
  BY DEF Yield, loopVars, waitVars, Live, Created
<1>4. Waiting' = Waiting /\ \A x \in Fibers : LifeAwaits(x)' = LifeAwaits(x)
  BY <1>3, SameAwaits
<1>5. /\ active' \in Fibers \cup {Dispatcher} /\ active' # c /\ active' \in Live
      /\ active' \notin Waiting /\ ~Ended(active')
      /\ active' \in Fibers => LifeStatus(active') = "ready"
  BY <1>1, <1>2, ReadyLooks
<1>look. Look'
  <2>1. GoesOn'
    BY <1>2, <1>5, UserCode, Names DEF Yield, GoesOn, Exited
  <2> QED BY <2>1, LooksNext
<1>6. Shown' = active'
  BY <1>3, <1>5, <1>look DEF Look, Ended
<1>7. \A x \in Fibers : LifeStatus(x)' = IF x = active' THEN "running"
                                         ELSE IF x = c THEN "ready" ELSE LifeStatus(x)
  BY <1>1, <1>3, <1>4, <1>5, <1>look DEF Look, Ended
<1> QED
  BY <1>1, <1>4, <1>5, <1>6, <1>7, YieldShown

\* The switch of JoinWait and CondWait.
LEMMA SuspendLives ==
  ASSUME Inv, Look, Inv', NEW c \in Fibers, InUserCode(c),
         ResumeNext(ready, <<>>), NEW what \in Workers \cup {Cond},
         what \in Workers => LifeStatus(what) # "ended",
         UNCHANGED <<terminated, shutdown>>, Live' = Live,
         Waiting' = Waiting \cup {c},
         \A x \in Fibers : LifeAwaits(x)' = IF x = c THEN what ELSE LifeAwaits(x)
  PROVE  Lifecycle!Next
<1>1. /\ Places /\ active = c /\ Shown = c /\ ~Ended(c) /\ c # Dispatcher
      /\ c \in Live /\ c \notin Waiting /\ ready # <<>>
  BY UserCode, CallerLooks
<1>2. active' \in Range(ready) /\ halted' = halted
  BY <1>1, Suspension
<1>3. /\ active' \in Fibers \cup {Dispatcher} /\ active' # c /\ active' \in Live
      /\ active' \notin Waiting /\ ~Ended(active')
      /\ active' \in Fibers => LifeStatus(active') = "ready"
  BY <1>1, <1>2, ReadyLooks
<1>look. Look'
  <2>1. GoesOn'
    BY <1>2, <1>3, UserCode, Names DEF GoesOn, Exited
  <2> QED BY <2>1, LooksNext
<1>4. Shown' = active'
  BY <1>3, <1>look DEF Look, Ended
<1>5. \A x \in Fibers : LifeStatus(x)' = IF x = active' THEN "running"
                                         ELSE IF x = c THEN "waiting" ELSE LifeStatus(x)
  BY <1>1, <1>3, <1>look DEF Look, Ended
<1> QED
  BY <1>1, <1>3, <1>4, <1>5, AwaitShown

LEMMA JoinWaitLives ==
  ASSUME Inv, Look, Inv', NEW c \in Fibers, NEW w \in Workers, JoinWait(c, w)
  PROVE  Lifecycle!Next
<1>1. InUserCode(c) /\ ResumeNext(ready, <<>>) /\ w \notin terminated
      /\ UNCHANGED <<terminated, shutdown, cond, handle>> /\ handle[w] = "joinable"
  BY DEF JoinWait, MayJoin, queueVars, loopVars
<1>2. c \notin Waiting /\ active = c
  BY <1>1, UserCode
<1>3. /\ waitList[w] \in Seq(Fibers) /\ waitList'[w] = Append(waitList[w], c)
      /\ Range(waitList'[w]) = Range(waitList[w]) \cup {c}
      /\ \A v \in Workers \ {w} : waitList'[v] = waitList[v]
  <2>1. waitList[w] \in Seq(Fibers) /\ waitList'[w] = Append(waitList[w], c)
        /\ \A v \in Workers \ {w} : waitList'[v] = waitList[v]
    BY DEF JoinWait, Inv, TypeOK
  <2>2. IsInjective(waitList[w]) /\ c \notin Range(waitList[w])
    BY <1>1, <1>2, UserCode DEF Places, WaitListsAreApart, Waiting
  <2> QED BY <2>1, <2>2, AppendApart
<1>4. Waiting' = Waiting \cup {c}
  <2>1. \A x : x \in Waiting' <=> x \in Range(cond) \/ \E v \in Workers : x \in Range(waitList'[v])
    BY <1>1 DEF Waiting
  <2>2. \A x : x \in Waiting <=> x \in Range(cond) \/ \E v \in Workers : x \in Range(waitList[v])
    BY DEF Waiting
  <2> QED BY <1>3, <2>1, <2>2
<1>look. Look'
  <2>1. ready # <<>> /\ Places /\ GoesOn
    BY <1>1, UserCode
  <2>2. active' \in Range(ready) /\ halted' = halted
    BY <1>1, <2>1, Suspension
  <2>3. GoesOn'
    BY <2>1, <2>2, ReadyLooks, Names DEF GoesOn, Exited
  <2> QED BY <2>3, LooksNext
<1>5. \A x \in Fibers : LifeAwaits(x)' = IF x = c THEN w ELSE LifeAwaits(x)
  BY <1>1, <1>2, <1>3, <1>4, <1>look DEF Look, Waiting
<1>6. Live' = Live /\ LifeStatus(w) # "ended"
  BY <1>1, Names DEF Live, Created, Look, Ended
<1> QED
  BY <1>1, <1>4, <1>5, <1>6, SuspendLives

LEMMA CondWaitLives ==
  ASSUME Inv, Look, Inv', NEW c \in Fibers, CondWait(c)
  PROVE  Lifecycle!Next
<1>1. InUserCode(c) /\ ResumeNext(ready, <<>>)
      /\ UNCHANGED <<terminated, shutdown, waitList, handle>>
  BY DEF CondWait, queueVars, loopVars
<1>2. c \notin Waiting /\ active = c
  BY <1>1, UserCode
<1>3. cond \in Seq(Fibers) /\ Range(cond') = Range(cond) \cup {c}
  <2>1. cond \in Seq(Fibers) /\ cond' = Append(cond, c)
    BY DEF CondWait, Inv, TypeOK
  <2>2. IsInjective(cond) /\ c \notin Range(cond)
    BY <1>1, <1>2, UserCode DEF Places, CondIsApart, Waiting
  <2> QED BY <2>1, <2>2, AppendApart
<1>4. Waiting' = Waiting \cup {c}
  BY <1>1, <1>3 DEF Waiting
<1>look. Look'
  <2>1. ready # <<>> /\ Places /\ GoesOn
    BY <1>1, UserCode
  <2>2. active' \in Range(ready) /\ halted' = halted
    BY <1>1, <2>1, Suspension
  <2>3. GoesOn'
    BY <2>1, <2>2, ReadyLooks, Names DEF GoesOn, Exited
  <2> QED BY <2>3, LooksNext
<1>5. \A x \in Fibers : LifeAwaits(x)' = IF x = c THEN Cond ELSE LifeAwaits(x)
  BY <1>1, <1>2, <1>3, <1>4, <1>look DEF Look, Waiting
<1>6. Live' = Live /\ Cond \notin Workers
  BY <1>1, CondIsAName, Names DEF Live, Created
<1> QED
  BY <1>1, <1>4, <1>5, <1>6, SuspendLives

LEMMA NotifyLives ==
  ASSUME Inv, Look, Inv', NEW c \in Fibers, NotifyOne(c) \/ NotifyAll(c)
  PROVE  Lifecycle!Next
<1>1. /\ InUserCode(c) /\ cond # <<>> /\ cond \in Seq(Fibers)
      /\ UNCHANGED <<active, terminated, shutdown, waitList, handle>>
  BY DEF NotifyOne, NotifyAll, queueVars, loopVars, Inv, TypeOK
<1>2. /\ Places /\ active = c /\ Shown = c /\ ~Ended(c) /\ c # Dispatcher
  BY <1>1, UserCode, CallerLooks
<1>3. PICK S \in SUBSET Range(cond) : Range(cond') = Range(cond) \ S
  <2>1. CASE NotifyOne(c)
    <3>1. IsInjective(cond)
      BY <1>2 DEF Places, CondIsApart
    <3>2. /\ Range(cond) = Range(Tail(cond)) \cup {Head(cond)}
          /\ Head(cond) \notin Range(Tail(cond)) /\ cond' = Tail(cond)
      BY <1>1, <2>1, <3>1, TailApart DEF NotifyOne
    <3>3. Range(cond') = Range(cond) \ {Head(cond)}
          /\ {Head(cond)} \in SUBSET Range(cond)
      BY <3>2
    <3> QED BY <3>3
  <2>2. CASE NotifyAll(c)
    BY <2>2, EmptyQueue DEF NotifyAll
  <2> QED BY <2>1, <2>2
<1>4. /\ S \in SUBSET Fibers /\ S \subseteq Live \ {active}
      /\ \A w \in Workers : S \cap Range(waitList[w]) = {}
  BY <1>2 DEF Places, CondIsApart, WaitListsAreApart
<1>5. Live' = Live /\ Waiting' = Waiting \ S
  BY <1>1, <1>3, <1>4 DEF Live, Created, Waiting
<1>look. Look'
  <2>1. GoesOn'
    BY <1>1, UserCode DEF NotifyOne, NotifyAll, GoesOn, Exited
  <2> QED BY <2>1, LooksNext
<1>6. ASSUME NEW x \in Fibers
      PROVE  /\ LifeStatus(x)' = IF x \in S THEN "ready" ELSE LifeStatus(x)
             /\ LifeAwaits(x)' = IF x \in S THEN NoOne ELSE LifeAwaits(x)
  <2>1. x \in S => ~Ended(x)
    BY <1>2, <1>3, <1>4, Names DEF Ended, Places, CondIsApart, MainIsParked, Live, Waiting,
                             Inv, TypeOK
  <2>2. LifeStatus(x)' = IF x \in S THEN "ready" ELSE LifeStatus(x)
    BY <1>1, <1>4, <1>5, <1>look, <2>1 DEF Look, Ended
  <2>3. LifeAwaits(x)' = IF x \in S THEN NoOne ELSE LifeAwaits(x)
    BY <1>1, <1>3, <1>5, <1>look DEF Look, Waiting
  <2> QED BY <2>2, <2>3
<1>7. Shown' = Shown /\ \A x \in S : LifeAwaits(x) = Cond
  BY <1>1, <1>3, <1>4, <1>look DEF Look, Ended
<1> QED
  BY <1>2, <1>4, <1>6, <1>7, NotifyShown

\* What the end of a fiber changes, whether or not the thread goes on.
LEMMA EndLives ==
  ASSUME Inv, Look, Look', NEW w \in Workers, EndFiber(w),
         UNCHANGED <<shutdown, cond, handle>>,
         NEW next \in Fibers \cup {Dispatcher},
         next = Dispatcher \/ next \in (Range(ready) \cup Range(waitList[w])),
         active' = next \/ (active' = w /\ next = Dispatcher)
  PROVE  Lifecycle!Next
<1>1. /\ Places /\ active = w /\ Shown = w /\ ~Ended(w) /\ w # Dispatcher /\ w \in Fibers
      /\ w \in Live /\ w \notin Waiting /\ InUserCode(w)
  BY UserCode, CallerLooks, Names DEF EndFiber
<1>2. /\ terminated' = terminated \cup {w}
      /\ \A v \in Workers : Range(waitList'[v]) = IF v = w THEN {} ELSE Range(waitList[v])
  BY EmptyQueue DEF EndFiber, Inv, TypeOK
<1>3. /\ \A v \in Workers : v # w => Range(waitList[v]) \cap Range(waitList[w]) = {}
      /\ Range(cond) \cap Range(waitList[w]) = {}
      /\ Range(waitList[w]) \subseteq (Fibers \cap Live) \ {w}
  BY <1>1 DEF Places, WaitListsAreApart
<1>4. Waiting' = Waiting \ Range(waitList[w])
  <2>1. \A x : x \in Waiting' <=> x \in Range(cond) \/ \E v \in Workers : x \in Range(waitList'[v])
    BY DEF Waiting
  <2>2. \A x : x \in Waiting <=> x \in Range(cond) \/ \E v \in Workers : x \in Range(waitList[v])
    BY DEF Waiting
  <2> QED BY <1>2, <1>3, <2>1, <2>2
<1>5. Live' = Live \ {w}
  BY <1>2, Names DEF Live, Created
<1>6. \A x \in Fibers : LifeAwaits(x) = w <=> x \in Range(waitList[w])
  <2>1. Cond # w /\ NoOne # w
    BY CondIsAName, Names
  <2> QED BY <2>1 DEF Look, Waiting
<1>7. \A x \in Range(waitList[w]) : x \in Fibers /\ x # w /\ ~Ended(x) /\ x \in Live
  BY <1>1, <1>3, Names DEF Ended, Places, MainIsParked, Live, Waiting, Inv, TypeOK
<1>8. /\ next \in Fibers => /\ next # w /\ ~Ended(next) /\ next \in Live
                            /\ LifeStatus(next) = "ready" \/ LifeAwaits(next) = w
                            /\ next \notin Waiting'
  <2>1. CASE next \in Range(ready)
    <3>1. next \in Live /\ next # active /\ next \notin Waiting /\ ~Ended(next)
          /\ (next \in Fibers => LifeStatus(next) = "ready")
      BY <1>1, <2>1, ReadyLooks
    <3> QED BY <1>1, <1>4, <3>1
  <2>2. CASE next \in Range(waitList[w])
    BY <1>4, <1>6, <1>7, <2>2
  <2> QED BY <2>1, <2>2, Names
<1>9. Shown' = next
  BY <1>2, <1>8, Names DEF Look, Ended
<1>10. ASSUME NEW x \in Fibers
       PROVE  LifeStatus(x)' = IF x = next THEN "running"
                               ELSE IF x = w THEN "ended"
                               ELSE IF LifeAwaits(x) = w THEN "ready"
                               ELSE LifeStatus(x)
  <2>1. LifeStatus(x)' = IF Ended(x)' THEN "ended"
                         ELSE IF x \notin Live' THEN "unborn"
                         ELSE IF x = active' THEN "running"
                         ELSE IF x \in Waiting' THEN "waiting"
                         ELSE "ready"
    BY DEF Look
  <2>2. Ended(x)' <=> Ended(x) \/ x = w
    BY <1>2 DEF Ended
  <2>3. x # w => (x = active' <=> x = next)
    BY Names
  <2>4. CASE x = w
    BY <1>8, <2>1, <2>2, <2>4
  <2>5. CASE x = next
    BY <1>5, <1>8, <2>1, <2>2, <2>3, <2>5
  <2>6. CASE x # w /\ x # next
    <3>1. LifeStatus(x)' = IF Ended(x) THEN "ended"
                           ELSE IF x \notin Live THEN "unborn"
                           ELSE IF x \in Waiting \ Range(waitList[w]) THEN "waiting"
                           ELSE "ready"
      BY <1>4, <1>5, <2>1, <2>2, <2>3, <2>6
    <3>2. LifeStatus(x) = IF Ended(x) THEN "ended"
                          ELSE IF x \notin Live THEN "unborn"
                          ELSE IF x \in Waiting THEN "waiting"
                          ELSE "ready"
      BY <1>1, <2>6 DEF Look
    <3> QED BY <1>6, <1>7, <2>6, <3>1, <3>2
  <2> QED BY <2>4, <2>5, <2>6
<1>11. \A x \in Fibers : LifeAwaits(x)' = IF LifeAwaits(x) = w THEN NoOne ELSE LifeAwaits(x)
  BY <1>2, <1>3, <1>4, <1>6 DEF Look, Waiting
<1> QED
  BY <1>1, <1>8, <1>9, <1>10, <1>11, EndShown

LEMMA TerminateLives ==
  ASSUME Inv, Look, Inv', NEW w \in Workers, Terminate(w)
  PROVE  Lifecycle!Next
<1> DEFINE q == Awakened(ready, waitList[w])
<1>1. /\ GoesOn /\ Places /\ active = w /\ EndFiber(w)
      /\ w \notin Range(ready) /\ Dispatcher \in Range(ready)
      /\ UNCHANGED <<shutdown, cond, handle>>
  BY UserCode, Names DEF Terminate, EndFiber, loopVars
<1>2. /\ waitList[w] \in Seq(Contexts) /\ ready \in Seq(Contexts)
      /\ Range(waitList[w]) \subseteq (Fibers \cap Live) \ {w}
      /\ Range(ready) \subseteq Live \ {w}
      /\ Range(waitList[w]) \cap Range(ready) = {}
      /\ IsInjective(ready) /\ IsInjective(waitList[w])
  BY <1>1, Names DEF Places, ReadyIsApart, WaitListsAreApart, Inv, TypeOK
<1>3. /\ q \in Seq(Contexts) /\ IsInjective(q)
      /\ Range(q) = Range(ready) \cup Range(waitList[w])
  BY <1>2, ConcatApart DEF Awakened
<1>4. q # <<>> /\ Range(q) \subseteq Live \ {active}
  BY <1>1, <1>2, <1>3, EmptyQueue
<1>5. active' \in Range(q) /\ halted' = halted
  <2> HIDE DEF q
  <2>1. ResumeNext(q, <<>>)
    BY DEF Terminate, q
  <2>2. <<>> \in Seq(Contexts) /\ Range(<<>>) = {} /\ IsInjective(<<>>)
    BY EmptyQueue
  <2>3. Range(<<>>) \cap Range(q) = {} /\ TypeOK
    BY <2>2 DEF Inv
  <2> QED
    BY <1>1, <1>3, <1>4, <2>1, <2>2, <2>3, GoodSwitch
<1>6. active' \in Fibers \cup {Dispatcher} /\ active' \in Range(ready) \cup Range(waitList[w])
  BY <1>2, <1>3, <1>4, <1>5, Names DEF Contexts
<1>look. Look'
  <2>1. GoesOn'
    BY <1>1, <1>5, <1>6, Names DEF GoesOn, Exited
  <2> QED BY <2>1, LooksNext
<1> QED
  BY <1>1, <1>6, <1>look, EndLives

\* A fiber that ends while the thread already holds mtx_ still ends, and wakes
\* those who join it, before the thread stops for good.
LEMMA TerminateBlockedLives ==
  ASSUME Inv, Look, Inv', NEW w \in Workers, TerminateBlocked(w)
  PROVE  Lifecycle!Next
<1>1. /\ GoesOn /\ Places /\ active = w /\ EndFiber(w) /\ w \in Live /\ w \notin terminated
      /\ w \notin Range(ready) /\ w \notin Waiting /\ loop = "run"
      /\ UNCHANGED <<shutdown, cond, handle, active, loop>>
  BY UserCode, Names DEF TerminateBlocked, EndFiber, loopVars
<1>2. /\ waitList[w] \in Seq(Contexts) /\ ready \in Seq(Contexts)
      /\ Range(waitList[w]) \subseteq (Fibers \cap Live) \ {w}
      /\ Range(ready) \subseteq Live \ {w}
      /\ Range(waitList[w]) \cap Range(ready) = {}
      /\ IsInjective(ready) /\ IsInjective(waitList[w])
  BY <1>1, Names DEF Places, ReadyIsApart, WaitListsAreApart, Inv, TypeOK
<1>3. Range(ready') = Range(ready) \cup Range(waitList[w]) /\ IsInjective(ready')
  BY <1>2, ConcatApart DEF TerminateBlocked, Awakened
<1>4. /\ Live' = Live \ {w}
      /\ \A v \in Workers : waitList'[v] = IF v = w THEN <<>> ELSE waitList[v]
      /\ Range(waitList'[w]) = {} /\ IsInjective(waitList'[w])
  BY <1>1, Names, EmptyQueue DEF EndFiber, Live, Created, Inv, TypeOK
<1>5. TypeOK' /\ OnlyMadeFibersEnd' /\ ReadyIsApart'
  BY <1>1, <1>2, <1>3, <1>4 DEF ReadyIsApart, Inv
<1>6. CondIsApart' /\ WaitListsAreApart'
  <2>1. CondIsApart'
    BY <1>1, <1>3, <1>4 DEF Places, CondIsApart, WaitListsAreApart
  <2>2. \A v \in Workers \ {w} : Range(waitList[v]) \cap Range(waitList[w]) = {}
    BY <1>1 DEF Places, WaitListsAreApart
  <2>3. \A v \in Workers : w \notin Range(waitList[v])
    BY <1>1 DEF Waiting
  <2> QED
    BY <1>1, <1>3, <1>4, <2>1, <2>2, <2>3 DEF Places, WaitListsAreApart
<1>7. ASSUME NEW c \in Live' \ {active'}
      PROVE  (c \in Range(ready) \/ c \in Range(cond) \/ WaitsIn(c) # {} \/ Parked(c))'
  <2>1. c \in Live \ {active}
    BY <1>1, <1>4, <1>7
  <2>2. c \in Range(ready) \/ c \in Range(cond) \/ WaitsIn(c) # {} \/ Parked(c)
    BY <1>1, <2>1 DEF Places, NoContextIsLost
  <2>3. CASE WaitsIn(c) # {}
    <3>1. PICK v \in Workers : c \in Range(waitList[v])
      BY <2>3 DEF WaitsIn
    <3> QED
      BY <1>3, <1>4, <3>1 DEF WaitsIn
  <2> QED
    BY <1>1, <1>3, <2>2, <2>3 DEF Parked
<1>look. Look'
  <2>1. Settled'
    BY <1>5, <1>6, <1>7 DEF Settled
  <2> QED BY <2>1, LooksRight, PTL
<1> QED
  BY <1>1, <1>look, EndLives

\* ~Scheduler ends the main context, for which nobody waits.
LEMMA ShutDownLives ==
  ASSUME Inv, Look, Inv', ShutDown
  PROVE  Lifecycle!Next
<1>1. /\ InUserCode(Main) /\ ResumeNext(ready, <<>>) /\ Main \in Fibers
      /\ UNCHANGED <<terminated, cond, waitList, handle>> /\ shutdown'
  BY Names DEF ShutDown, queueVars, waitVars
<1>2. /\ GoesOn /\ Places /\ active = Main /\ Shown = Main /\ ~Ended(Main)
      /\ ready # <<>>
  BY <1>1, UserCode, CallerLooks
<1>3. active' \in Range(ready) /\ halted' = halted
  BY <1>1, <1>2, Suspension
<1>4. /\ active' \in Fibers \cup {Dispatcher} /\ active' # Main /\ active' \in Live
      /\ active' \notin Waiting /\ ~Ended(active')
      /\ active' \in Fibers => LifeStatus(active') = "ready"
  BY <1>2, <1>3, ReadyLooks
<1>5. /\ Live' = Live /\ Waiting' = Waiting
      /\ \A x \in Fibers : LifeAwaits(x)' = LifeAwaits(x)
  BY <1>1, SameAwaits DEF Live, Created
<1>look. Look'
  <2>1. GoesOn'
    BY <1>2, <1>3, <1>4, Names DEF GoesOn, Exited
  <2> QED BY <2>1, LooksNext
<1>6. \A x \in Fibers : LifeAwaits(x) # Main
  <2>1. Cond # Main /\ NoOne # Main /\ \A v \in Workers : v # Main
    BY CondIsAName, Names
  <2> QED BY <2>1 DEF Look, Waiting
<1>7. Shown' = active'
  BY <1>1, <1>4, <1>look DEF Look, Ended
<1>8. \A x \in Fibers : LifeStatus(x)' = IF x = active' THEN "running"
                                         ELSE IF x = Main THEN "ended"
                                         ELSE LifeStatus(x)
  BY <1>1, <1>2, <1>4, <1>5, <1>look DEF Look, Ended
<1> QED
  BY <1>1, <1>2, <1>4, <1>5, <1>6, <1>7, <1>8, EndShown

\* The dispatcher hands the thread to a ready fiber, or waits for one.
LEMMA DispatchTurnLives ==
  ASSUME Inv, Look, Inv', DispatchTurn
  PROVE  Lifecycle!Next \/ /\ Shown' = Shown
                           /\ \A x \in Fibers : /\ LifeStatus(x)' = LifeStatus(x)
                                                /\ LifeAwaits(x)' = LifeAwaits(x)
<1>1. /\ GoesOn /\ Places /\ active = Dispatcher /\ Dispatcher \notin Fibers
      /\ UNCHANGED <<terminated, shutdown, cond, waitList, handle>>
  BY Names DEF DispatchTurn, GoesOn, Exited, Inv, waitVars
<1>2. /\ Live' = Live /\ Waiting' = Waiting
      /\ \A x \in Fibers : LifeAwaits(x)' = LifeAwaits(x)
  BY <1>1, SameAwaits DEF Live, Created
<1>3. Shown = Dispatcher
  BY <1>1 DEF Look
<1>4. Awakened(ready, SubSeq(sleepQueue, 1, Due)) = ready
  <2>1. sleepQueue = <<>> /\ Due = 0 /\ ready \in Seq(Contexts)
    BY DueIsPrefix DEF Inv, NoSleep, TypeOK
  <2>2. SubSeq(sleepQueue, 1, Due) = <<>>
    BY <2>1, SubSeqEmpty
  <2> QED
    BY <2>1, <2>2 DEF Awakened
<1>5. CASE ready = <<>>
  <2>1. UNCHANGED <<active, ready, halted>>
    BY <1>4, <1>5 DEF DispatchTurn
  <2>2. Look'
    BY <1>1, <2>1, LooksNext DEF GoesOn, Exited
  <2> QED
    BY <1>1, <1>2, <1>3, <2>1, <2>2 DEF Look, Ended
<1>6. CASE ready # <<>>
  <2> DEFINE back == <<Dispatcher>>
  <2>1. ResumeNext(ready, back)
    BY <1>4, <1>6 DEF DispatchTurn, ResumeNext
  <2>2. back \in Seq(Contexts) /\ Range(back) = {Dispatcher} /\ IsInjective(back)
    BY OneContext, Names
  <2> HIDE DEF back
  <2>3. /\ ready \in Seq(Contexts) /\ IsInjective(ready) /\ TypeOK
        /\ Range(ready) \subseteq Live \ {active}
    BY <1>1 DEF Places, ReadyIsApart, Inv, TypeOK
  <2>4. active' \in Range(ready) /\ halted' = halted
    BY <1>1, <1>6, <2>1, <2>2, <2>3, GoodSwitch
  <2>5. /\ active' \in Fibers /\ active' \in Live /\ active' \notin Waiting
        /\ ~Ended(active') /\ LifeStatus(active') = "ready"
    BY <1>1, <2>4, ReadyLooks
  <2>look. Look'
    <3>1. GoesOn'
      BY <1>1, <2>4, <2>5, Names DEF GoesOn, Exited
    <3> QED BY <3>1, LooksNext
  <2>6. Shown' = active'
    BY <1>1, <2>5, <2>look DEF Look, Ended
  <2>7. \A x \in Fibers : LifeStatus(x)' = IF x = active' THEN "running" ELSE LifeStatus(x)
    BY <1>1, <1>2, <2>5, <2>look DEF Look, Ended
  <2> QED
    BY <1>2, <1>3, <2>5, <2>6, <2>7, RunShown
<1> QED
  BY <1>5, <1>6

\* The return to ~Scheduler and the exit show nothing: main has ended.
LEMMA ExitLives ==
  ASSUME Inv, Look, Inv', DispatchReturn \/ ShutDownReturn
  PROVE  /\ Shown' = Shown
         /\ \A x \in Fibers : /\ LifeStatus(x)' = LifeStatus(x)
                              /\ LifeAwaits(x)' = LifeAwaits(x)
<1>1. /\ GoesOn /\ Places /\ shutdown /\ Main \notin Waiting
      /\ UNCHANGED <<terminated, shutdown, cond, waitList, handle, ready>>
  <2>1. GoesOn /\ shutdown
    BY Names DEF DispatchReturn, ShutDownReturn, GoesOn, Exited
  <2>2. ready' = ready
    BY DEF DispatchReturn, ShutDownReturn, Resume, Awakened, Inv, TypeOK
  <2> QED
    BY <2>1, <2>2
    DEF DispatchReturn, ShutDownReturn, Inv, Places, MainIsParked, queueVars,
        waitVars, loopVars
<1>2. active \in {Main, Dispatcher} /\ active' \in {Main, Dispatcher, NoOne}
  BY DEF DispatchReturn, ShutDownReturn, Resume
<1>3. ShowsIdle /\ ShowsIdle'
  BY <1>1, <1>2, Names DEF ShowsIdle, Contexts
<1>4. ASSUME NEW x \in Fibers
      PROVE  LifeStatus(x)' = LifeStatus(x) /\ LifeAwaits(x)' = LifeAwaits(x)
  <2>1. LifeAwaits(x)' = LifeAwaits(x)
    BY <1>1, SameAwaits
  <2>2. CASE x = Main
    BY <1>1, <2>1, <2>2, Names DEF LifeStatus, Inv, TypeOK
  <2>3. CASE x # Main
    <3>1. x # active /\ x # active'
      BY <1>2, <2>3, Names
    <3> QED
      BY <1>1, <2>1, <2>3, <3>1 DEF LifeStatus, Created, WaitsIn
  <2> QED BY <2>1, <2>2, <2>3
<1> QED
  BY <1>3, <1>4 DEF Shown

\* The other steps move no context.
LEMMA QuietLives ==
  ASSUME UNCHANGED <<active, ready, cond, waitList, terminated, shutdown>>,
         \A w \in Workers : Created(w)' <=> Created(w)
  PROVE  /\ Shown' = Shown
         /\ \A x \in Fibers : /\ LifeStatus(x)' = LifeStatus(x)
                              /\ LifeAwaits(x)' = LifeAwaits(x)
<1>1. Shown' = Shown
  BY DEF Shown, ShowsIdle
<1>2. ASSUME NEW x \in Fibers
      PROVE  LifeStatus(x)' = LifeStatus(x) /\ LifeAwaits(x)' = LifeAwaits(x)
  <2>1. LifeAwaits(x)' = LifeAwaits(x)
    BY SameAwaits
  <2>2. (x \in Workers /\ ~Created(x))' <=> (x \in Workers /\ ~Created(x))
    OBVIOUS
  <2>3. LifeStatus(x)' = LifeStatus(x)
    BY <2>2 DEF LifeStatus, WaitsIn
  <2> QED BY <2>1, <2>3
<1> QED
  BY <1>1, <1>2

LEMMA LifeInit ==
  Init => Lifecycle!Init
<1> SUFFICES ASSUME Init  PROVE Lifecycle!Init
  OBVIOUS
<1>1. Look
  BY InvInit, LooksNow, Names DEF Init, GoesOn, Exited
<1>2. Live = {Main, Dispatcher} /\ Waiting = {} /\ terminated = {} /\ ~shutdown
      /\ active = Main
  BY EmptyQueue DEF Init, Live, Created, Waiting
<1>3. \A c \in Fibers : /\ LifeStatus(c) = IF c \in {Main} THEN "running" ELSE "unborn"
                        /\ LifeAwaits(c) = NoOne
  BY <1>1, <1>2, Names DEF Look, Ended
<1>4. Shown = Main
  BY <1>1, <1>2, Names DEF Look, Ended
<1> QED
  BY <1>3, <1>4, LifeFibers DEF Lifecycle!Init, Shown

LifeVars == <<[c \in Fibers |-> LifeStatus(c)],
              [t \in {Main} |-> IF ShowsIdle THEN Dispatcher ELSE active],
              [c \in Fibers |-> LifeAwaits(c)]>>

LEMMA LifeStep ==
  ASSUME Sleepers = {}, Inv, [Next]_vars
  PROVE  Lifecycle!Next \/ UNCHANGED LifeVars
<1>i. Inv'
  BY InvStep
<1>s. (/\ Shown' = Shown
       /\ \A x \in Fibers : /\ LifeStatus(x)' = LifeStatus(x)
                            /\ LifeAwaits(x)' = LifeAwaits(x)) => UNCHANGED LifeVars
  BY SameShown DEF LifeVars
<1>l. CASE UNCHANGED vars
  <2>1. UNCHANGED <<active, ready, cond, waitList, terminated, shutdown>>
        /\ \A w \in Workers : Created(w)' <=> Created(w)
    BY <1>l DEF vars, queueVars, waitVars, loopVars, Created
  <2> QED BY <1>s, <2>1, QuietLives
<1>n. CASE Next
  <2>look. Look
    <3>1. GoesOn
      <4>1. ASSUME NEW c \in Fibers, InUserCode(c) \/ JoinReturn(c)  PROVE GoesOn
        BY <4>1, Names DEF InUserCode, JoinReturn, GoesOn, Exited
      <4>2. ASSUME NEW c \in Fibers, NEW w \in Workers,
                   \/ Post(c, w) \/ Dispatch(c, w) \/ LaunchBlocked(c, w)
                   \/ JoinTerminated(c, w) \/ JoinWait(c, w) \/ Detach(c, w)
            PROVE  InUserCode(c)
        BY <4>2 DEF Post, Dispatch, LaunchBlocked, JoinTerminated, JoinWait, MayJoin, Detach
      <4>3. ASSUME NEW c \in Fibers,
                   \/ Yield(c) \/ CondWait(c) \/ NotifyOne(c) \/ NotifyAll(c)
                   \/ \E d \in Delays : WaitUntil(c, d)
            PROVE  InUserCode(c)
        BY <4>3 DEF Yield, CondWait, NotifyOne, NotifyAll, WaitUntil
      <4>4. ASSUME NEW w \in Workers, Terminate(w) \/ TerminateBlocked(w)
            PROVE  w \in Fibers /\ InUserCode(w)
        BY <4>4, Names DEF Terminate, TerminateBlocked, EndFiber
      <4>5. ShutDown => InUserCode(Main) /\ Main \in Fibers
        BY Names DEF ShutDown
      <4>6. ASSUME \/ DispatchTurn \/ SuspendUntilReturns \/ DispatchReturn
                   \/ ShutDownReturn \/ Tick
            PROVE  GoesOn
        BY <4>6, Names
        DEF DispatchTurn, SuspendUntilReturns, DispatchReturn, ShutDownReturn, Tick,
            GoesOn, Exited
      <4> QED
        BY <1>n, <4>1, <4>2, <4>3, <4>4, <4>5, <4>6 DEF Next, Step
    <3> QED BY <3>1, LooksNow
  <2>1. ASSUME NEW c \in Fibers, NEW w \in Workers,
               Post(c, w) \/ Dispatch(c, w) \/ JoinWait(c, w)
        PROVE  Lifecycle!Next
    BY <1>i, <2>look, <2>1, PostLives, DispatchLives, JoinWaitLives
  <2>2. ASSUME NEW c \in Fibers, Yield(c) \/ CondWait(c) \/ NotifyOne(c) \/ NotifyAll(c)
        PROVE  Lifecycle!Next
    BY <1>i, <2>look, <2>2, YieldLives, CondWaitLives, NotifyLives
  <2>3. ASSUME NEW w \in Workers, Terminate(w) \/ TerminateBlocked(w)
        PROVE  Lifecycle!Next
    BY <1>i, <2>look, <2>3, TerminateLives, TerminateBlockedLives
  <2>4. CASE ShutDown
    BY <1>i, <2>look, <2>4, ShutDownLives
  <2>5. CASE DispatchTurn \/ DispatchReturn \/ ShutDownReturn
    BY <1>i, <1>s, <2>look, <2>5, DispatchTurnLives, ExitLives
  <2>6. ASSUME NEW c \in Fibers, NEW w \in Workers,
               LaunchBlocked(c, w) \/ JoinTerminated(c, w) \/ Detach(c, w)
        PROVE  UNCHANGED LifeVars
    <3>1. UNCHANGED <<active, ready, cond, waitList, terminated, shutdown>>
      BY <2>6 DEF LaunchBlocked, JoinTerminated, Detach, queueVars, waitVars, loopVars
    <3>2. handle' = handle
          \/ (handle[w] = "joinable" /\ handle' = [handle EXCEPT ![w] = "empty"])
      BY <2>6 DEF LaunchBlocked, JoinTerminated, MayJoin, Detach, waitVars
    <3>3. \A v \in Workers : Created(v)' <=> Created(v)
      BY <3>2 DEF Created, Inv, TypeOK
    <3> QED BY <1>s, <3>1, <3>3, QuietLives
  <2>7. ASSUME NEW c \in Fibers, JoinReturn(c)  PROVE UNCHANGED LifeVars
    <3>1. UNCHANGED <<active, ready, cond, waitList, terminated, shutdown>>
      BY <2>7 DEF JoinReturn, queueVars, loopVars
    <3>2. GoesOn /\ Places /\ joining[c] \in Workers /\ active = c
      BY <2>7, Names DEF JoinReturn, GoesOn, Exited, Inv, TypeOK
    <3>3. Created(joining[c])
      BY <3>2
      DEF Places, JoinersWaitOrAreWoken, WaitListsAreApart, Inv, OnlyMadeFibersEnd
    <3>4. \A v \in Workers : Created(v)' <=> Created(v)
      BY <2>7, <3>2, <3>3 DEF JoinReturn, Created, Inv, TypeOK
    <3> QED BY <1>s, <3>1, <3>4, QuietLives
  <2>8. CASE SuspendUntilReturns \/ Tick
    <3>1. UNCHANGED <<active, ready, cond, waitList, terminated, shutdown, handle>>
      BY <2>8 DEF SuspendUntilReturns, Tick, queueVars, waitVars, loopVars
    <3>2. \A v \in Workers : Created(v)' <=> Created(v)
      BY <3>1 DEF Created
    <3> QED BY <1>s, <3>1, <3>2, QuietLives
  <2>9. ASSUME NEW c \in Fibers, NEW d \in Delays, WaitUntil(c, d)  PROVE FALSE
    BY <2>9 DEF WaitUntil
  <2> QED
    BY <1>n, <2>1, <2>2, <2>3, <2>4, <2>5, <2>6, <2>7, <2>8, <2>9 DEF Next, Step
<1> QED
  BY <1>l, <1>n

\* In a program that never sleeps the thread implements the life of a fiber
\* that FiberLifecycle promises: every step of the thread is one of its steps,
\* or shows nothing.
THEOREM LivesAsPromised ==
  ASSUME Sleepers = {}
  PROVE  Spec => ImplementsLifecycle
<1>1. Init => Lifecycle!Init
  BY LifeInit
<1>2. Inv /\ [Next]_vars => [Lifecycle!Next]_LifeVars
  BY LifeStep
<1> QED
  BY <1>1, <1>2, Invariance, PTL
  DEF Spec, ImplementsLifecycle, Lifecycle!Spec, Lifecycle!vars, LifeVars

=============================================================================
