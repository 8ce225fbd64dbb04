-------------------------- MODULE RoundRobinProofs --------------------------
(***************************************************************************)
(* Theorems about RoundRobinScheduler, for any number of fibers.           *)
(***************************************************************************)
EXTENDS RoundRobinInvariant, QueueLemmas, FiniteSetTheorems

-----------------------------------------------------------------------------
(***************************************************************************)
(* Type correctness.                                                       *)
(***************************************************************************)

\* The switch leaves the scheduler's variables well typed.
LEMMA SwitchType ==
  ASSUME TypeOK, NEW q \in Seq(Contexts), NEW back \in Seq(Contexts),
         ResumeNext(q, back)
  PROVE  /\ active' \in Contexts \cup {NoOne}
         /\ saved' \in [Contexts -> BOOLEAN]
         /\ ready' \in Seq(Contexts)
         /\ halted' \in HaltReasons
<1>1. CASE q = <<>>
  BY <1>1 DEF ResumeNext, TypeOK, HaltReasons
<1>2. CASE q # <<>>
  <2>1. Head(q) \in Contexts /\ Tail(q) \in Seq(Contexts)
    BY <1>2, HeadTailProperties
  <2>2. Tail(q) \o back \in Seq(Contexts)
    BY <2>1, ConcatProperties
  <2> QED
    BY <1>2, <2>1, <2>2 DEF ResumeNext, Resume, Awakened, TypeOK, HaltReasons
<1> QED
  BY <1>1, <1>2

\* Due counts entries at the head of sleepQueue_.
LEMMA DueIsPrefix ==
  ASSUME TypeOK
  PROVE  Due \in 0 .. Len(sleepQueue)
<1> DEFINE takes(i) == /\ tp[sleepQueue[i]] <= now
                       /\ \A j \in 1 .. i - 1 : sleepQueue[j] # sleepQueue[i]
           D == {i \in 1 .. Len(sleepQueue) : \A j \in 1 .. i : takes(j)}
<1>1. Len(sleepQueue) \in Nat
  BY DEF TypeOK
<1>2. IsFiniteSet(1 .. Len(sleepQueue)) /\ Cardinality(1 .. Len(sleepQueue)) = Len(sleepQueue)
  <2>1. \A n \in Nat : /\ IsFiniteSet(1 .. n)
                       /\ Cardinality(1 .. n) = IF 1 > n THEN 0 ELSE n - 1 + 1
    BY FS_Interval
  <2> QED
    BY <1>1, <2>1
<1>3. D \subseteq 1 .. Len(sleepQueue)
  OBVIOUS
<1>4. IsFiniteSet(D) /\ Cardinality(D) <= Cardinality(1 .. Len(sleepQueue))
  BY <1>2, <1>3, FS_Subset
<1>5. Cardinality(D) \in Nat
  BY <1>4, FS_CardinalityType
<1> QED
  BY <1>1, <1>2, <1>4, <1>5 DEF Due

LEMMA InsertType ==
  ASSUME NEW S, NEW q \in Seq(S), NEW i \in 1 .. Len(q) + 1, NEW c \in S
  PROVE  InsertAt(q, i, c) \in Seq(S)
<1>1. Len(q) \in Nat /\ \A j \in 1 .. Len(q) : q[j] \in S
  OBVIOUS
<1>2. SubSeq(q, 1, i - 1) \in Seq(S) /\ SubSeq(q, i, Len(q)) \in Seq(S)
  BY <1>1, SubSeqProperties
<1>3. <<c>> \in Seq(S)
  OBVIOUS
<1> QED
  BY <1>2, <1>3, ConcatProperties DEF InsertAt

LEMMA TypeInit ==
  Init => TypeOK
<1>1. <<Dispatcher>> \in Seq(Contexts) /\ <<>> \in Seq(Fibers)
  BY DEF Contexts
<1>2. Never \in Times /\ 0 \in 0 .. MaxTime
  BY ProgramAssumption DEF Never, Times
<1> QED
  BY <1>1, <1>2, Zenon DEF Init, TypeOK, Contexts, Fibers, HaltReasons

LEMMA TypeStep ==
  TypeOK /\ [Next]_vars => TypeOK'
<1> SUFFICES ASSUME TypeOK, [Next]_vars  PROVE TypeOK'
  OBVIOUS
<1> USE DEF HaltReasons
<1>q. ready \in Seq(Contexts) /\ <<>> \in Seq(Contexts) /\ Fibers \subseteq Contexts
      /\ Workers \subseteq Fibers /\ Main \in Fibers /\ Dispatcher \in Contexts
      /\ \A c \in Contexts : <<c>> \in Seq(Contexts)
  BY DEF TypeOK, Contexts, Fibers
<1>a. \A p, q \in Seq(Contexts) : Awakened(p, q) \in Seq(Contexts)
  BY ConcatProperties DEF Awakened
<1>f. \A q \in Seq(Fibers) : q \in Seq(Contexts)
  BY <1>q
<1>1. ASSUME NEW c \in Fibers, NEW w \in Workers, Post(c, w)  PROVE TypeOK'
  BY <1>1, <1>q, <1>a DEF Post, Attach, TypeOK, loopVars, sleepVars
<1>2. ASSUME NEW c \in Fibers, NEW w \in Workers, Dispatch(c, w)  PROVE TypeOK'
  BY <1>2, <1>q, <1>a DEF Dispatch, Attach, TypeOK, loopVars, sleepVars
<1>3. ASSUME NEW c \in Fibers, NEW w \in Workers, LaunchBlocked(c, w)  PROVE TypeOK'
  BY <1>3 DEF LaunchBlocked, TypeOK, queueVars, waitVars, loopVars, sleepVars
<1>4. ASSUME NEW c \in Fibers, NEW w \in Workers, JoinTerminated(c, w)  PROVE TypeOK'
  BY <1>4 DEF JoinTerminated, TypeOK, queueVars, loopVars, sleepVars
<1>5. ASSUME NEW c \in Fibers, NEW w \in Workers, JoinWait(c, w)  PROVE TypeOK'
  <2>1. ResumeNext(ready, <<>>)
    BY <1>5 DEF JoinWait
  <2>2. /\ active' \in Contexts \cup {NoOne} /\ saved' \in [Contexts -> BOOLEAN]
        /\ ready' \in Seq(Contexts) /\ halted' \in HaltReasons
    BY <2>1, <1>q, SwitchType
  <2>3. waitList' \in [Workers -> Seq(Fibers)]
    <3>1. Append(waitList[w], c) \in Seq(Fibers)
      BY AppendApart DEF TypeOK
    <3> QED BY <3>1, <1>5 DEF JoinWait, TypeOK
  <2>4. joining' \in [Fibers -> Workers \cup {NoOne}]
    BY <1>5 DEF JoinWait, TypeOK
  <2> QED
    BY <2>2, <2>3, <2>4, <1>5 DEF JoinWait, TypeOK, queueVars, loopVars, sleepVars
<1>6. ASSUME NEW c \in Fibers, NEW w \in Workers, Detach(c, w)  PROVE TypeOK'
  BY <1>6 DEF Detach, TypeOK, queueVars, loopVars, sleepVars
<1>7. ASSUME NEW c \in Fibers, Yield(c)  PROVE TypeOK'
  <2>1. ResumeNext(ready, <<c>>) /\ <<c>> \in Seq(Contexts)
    BY <1>7, <1>q DEF Yield
  <2>2. /\ active' \in Contexts \cup {NoOne} /\ saved' \in [Contexts -> BOOLEAN]
        /\ ready' \in Seq(Contexts) /\ halted' \in HaltReasons
    BY <2>1, <1>q, SwitchType
  <2> QED
    BY <2>2, <1>7 DEF Yield, TypeOK, waitVars, loopVars, sleepVars
<1>8. ASSUME NEW c \in Fibers, JoinReturn(c)  PROVE TypeOK'
  BY <1>8 DEF JoinReturn, TypeOK, queueVars, loopVars, sleepVars
<1>9. ASSUME NEW c \in Fibers, CondWait(c)  PROVE TypeOK'
  <2>1. ResumeNext(ready, <<>>)
    BY <1>9 DEF CondWait
  <2>2. /\ active' \in Contexts \cup {NoOne} /\ saved' \in [Contexts -> BOOLEAN]
        /\ ready' \in Seq(Contexts) /\ halted' \in HaltReasons
    BY <2>1, <1>q, SwitchType
  <2>3. cond' \in Seq(Fibers)
    BY <1>9, AppendApart DEF CondWait, TypeOK
  <2> QED
    BY <2>2, <2>3, <1>9 DEF CondWait, TypeOK, queueVars, loopVars, sleepVars
<1>10. ASSUME NEW c \in Fibers, NotifyOne(c)  PROVE TypeOK'
  <2>1. Head(cond) \in Fibers /\ Tail(cond) \in Seq(Fibers)
    BY <1>10, HeadTailProperties DEF NotifyOne, TypeOK
  <2> QED
    BY <2>1, <1>10, <1>q, <1>a DEF NotifyOne, TypeOK, queueVars, loopVars, sleepVars
<1>11. ASSUME NEW c \in Fibers, NotifyAll(c)  PROVE TypeOK'
  <2>1. cond \in Seq(Contexts) /\ <<>> \in Seq(Fibers)
    BY <1>f DEF TypeOK
  <2> QED
    BY <2>1, <1>11, <1>q, <1>a DEF NotifyAll, TypeOK, queueVars, loopVars, sleepVars
<1>12. ASSUME NEW c \in Fibers, NEW d \in Delays, WaitUntil(c, d)  PROVE TypeOK'
  <2>1. ResumeNext(ready, <<c>>) /\ <<c>> \in Seq(Contexts)
    BY <1>12, <1>q DEF WaitUntil
  <2>2. /\ active' \in Contexts \cup {NoOne} /\ saved' \in [Contexts -> BOOLEAN]
        /\ ready' \in Seq(Contexts) /\ halted' \in HaltReasons
    BY <2>1, <1>q, SwitchType
  <2>3. tp' \in [Contexts -> Times]
    <3>1. now + d \in Times
      BY <1>12, ProgramAssumption DEF WaitUntil, TypeOK, Times, Never
    <3> QED BY <3>1, <1>12 DEF WaitUntil, TypeOK
  <2>4. sleepQueue' \in Seq(Fibers)
    <3>1. PICK i \in InsertPlaces(sleepQueue, tp', now + d) :
            sleepQueue' = InsertAt(sleepQueue, i, c)
      BY <1>12 DEF WaitUntil
    <3>2. i \in 1 .. Len(sleepQueue) + 1
      BY <3>1 DEF InsertPlaces
    <3> QED BY <3>1, <3>2, InsertType DEF TypeOK
  <2> QED
    BY <2>2, <2>3, <2>4, <1>12 DEF WaitUntil, TypeOK, queueVars, waitVars, loopVars
<1>13. ASSUME NEW w \in Workers, Terminate(w)  PROVE TypeOK'
  <2>1. waitList[w] \in Seq(Contexts)
    BY <1>f DEF TypeOK
  <2>2. ResumeNext(Awakened(ready, waitList[w]), <<>>)
        /\ Awakened(ready, waitList[w]) \in Seq(Contexts)
    BY <1>13, <2>1, <1>q, <1>a DEF Terminate
  <2>3. /\ active' \in Contexts \cup {NoOne} /\ saved' \in [Contexts -> BOOLEAN]
        /\ ready' \in Seq(Contexts) /\ halted' \in HaltReasons
    BY <2>2, <1>q, SwitchType
  <2>4. waitList' \in [Workers -> Seq(Fibers)] /\ terminated' \subseteq Workers
    BY <1>13 DEF Terminate, EndFiber, TypeOK
  <2> QED
    BY <2>3, <2>4, <1>13 DEF Terminate, TypeOK, loopVars, sleepVars
<1>14. ASSUME NEW w \in Workers, TerminateBlocked(w)  PROVE TypeOK'
  <2>1. waitList[w] \in Seq(Contexts)
    BY <1>f DEF TypeOK
  <2>2. waitList' \in [Workers -> Seq(Fibers)] /\ terminated' \subseteq Workers
    BY <1>14 DEF TerminateBlocked, EndFiber, TypeOK
  <2> QED
    BY <2>1, <2>2, <1>14, <1>q, <1>a
    DEF TerminateBlocked, TypeOK, loopVars, sleepVars
<1>15. ASSUME DispatchTurn  PROVE TypeOK'
  <2> DEFINE woken == SubSeq(sleepQueue, 1, Due)
             q == Awakened(ready, woken)
  <2>1. Due \in 0 .. Len(sleepQueue) /\ Len(sleepQueue) \in Nat
        /\ \A i \in 1 .. Len(sleepQueue) : sleepQueue[i] \in Fibers
    BY DueIsPrefix DEF TypeOK
  <2>2. woken \in Seq(Fibers)
    BY <2>1, SubSeqProperties
  <2>3. SubSeq(sleepQueue, Due + 1, Len(sleepQueue)) \in Seq(Fibers)
    BY <2>1, SubSeqProperties
  <2>4. q \in Seq(Contexts)
    BY <2>2, <1>q, <1>a, <1>f
  <2>5. /\ active' \in Contexts \cup {NoOne} /\ saved' \in [Contexts -> BOOLEAN]
        /\ ready' \in Seq(Contexts) /\ halted' \in HaltReasons
        /\ loop' \in {"run", "idle", "left"}
    <3>1. CASE q = <<>>
      BY <1>15, <3>1 DEF DispatchTurn, TypeOK
    <3>2. CASE q # <<>>
      <4>1. Resume(Head(q), Tail(q), <<Dispatcher>>) /\ UNCHANGED loop
        BY <1>15, <3>2 DEF DispatchTurn
      <4>2. ResumeNext(q, <<Dispatcher>>)
        BY <4>1, <3>2 DEF ResumeNext
      <4> QED BY <4>1, <4>2, <2>4, <1>q, SwitchType DEF TypeOK
    <3> QED BY <3>1, <3>2
  <2>6. tp' \in [Contexts -> Times]
    <3>1. Never \in Times
      BY ProgramAssumption DEF Never, Times
    <3>2. tp' = [c \in Contexts |-> IF c \in Range(woken) THEN Never ELSE tp[c]]
      BY <1>15 DEF DispatchTurn
    <3> QED BY <3>1, <3>2 DEF TypeOK
  <2>7. sleepQueue' = SubSeq(sleepQueue, Due + 1, Len(sleepQueue))
        /\ flag' \in BOOLEAN /\ terminatedQueue' = {}
    BY <1>15 DEF DispatchTurn, TypeOK
  <2> QED
    BY <2>3, <2>5, <2>6, <2>7, <1>15 DEF DispatchTurn, TypeOK, waitVars
<1>16. ASSUME SuspendUntilReturns  PROVE TypeOK'
  BY <1>16 DEF SuspendUntilReturns, TypeOK, queueVars, waitVars, sleepVars
<1>17. ASSUME DispatchReturn  PROVE TypeOK'
  BY <1>17, <1>q, <1>a
  DEF DispatchReturn, Resume, TypeOK, waitVars, sleepVars
<1>18. ASSUME ShutDown  PROVE TypeOK'
  <2>1. ResumeNext(ready, <<>>)
    BY <1>18 DEF ShutDown
  <2>2. /\ active' \in Contexts \cup {NoOne} /\ saved' \in [Contexts -> BOOLEAN]
        /\ ready' \in Seq(Contexts) /\ halted' \in HaltReasons
    BY <2>1, <1>q, SwitchType
  <2> QED
    BY <2>2, <1>18 DEF ShutDown, TypeOK, queueVars, waitVars, sleepVars
<1>19. ASSUME ShutDownReturn  PROVE TypeOK'
  BY <1>19 DEF ShutDownReturn, TypeOK, queueVars, waitVars, loopVars, sleepVars
<1>20. ASSUME Tick  PROVE TypeOK'
  BY <1>20, ProgramAssumption DEF Tick, TypeOK, queueVars, waitVars, loopVars
<1>21. ASSUME UNCHANGED vars  PROVE TypeOK'
  BY <1>21 DEF vars, TypeOK, queueVars, waitVars, loopVars, sleepVars
<1> QED
  BY <1>1, <1>2, <1>3, <1>4, <1>5, <1>6, <1>7, <1>8, <1>9, <1>10, <1>11, <1>12,
     <1>13, <1>14, <1>15, <1>16, <1>17, <1>18, <1>19, <1>20, <1>21
  DEF Next, Step

\* In every program, every variable keeps its type.
THEOREM TypeCorrect == Spec => []TypeOK
<1> QED
  BY TypeInit, TypeStep, PTL DEF Spec

-----------------------------------------------------------------------------
(***************************************************************************)
(* What every program keeps, sleepers included.                            *)
(***************************************************************************)
LEMMA Names ==
  /\ Main \in Fibers /\ Workers \subseteq Fibers /\ Fibers \subseteq Contexts
  /\ Dispatcher \in Contexts /\ Dispatcher \notin Fibers
  /\ Main \notin Workers /\ NoOne \notin Contexts /\ Live \subseteq Contexts
  /\ Main \in Live /\ Dispatcher \in Live
BY ContextsDistinct DEF Fibers, Contexts, Live

JoinedAreMade == \A c \in Fibers : joining[c] # NoOne => Created(joining[c])

EveryProgram ==
  /\ TypeOK
  /\ JoinedAreMade
  /\ NobodyWaitsForTheDead
  /\ NoContextIsLost

\* Whoever was ready, or is scheduled behind the switch, is ready or runs.
LEMMA SwitchCarries ==
  ASSUME NEW q \in Seq(Contexts), NEW back \in Seq(Contexts),
         ResumeNext(q, back), halted' = "no"
  PROVE  Range(q) \cup Range(back) \subseteq Range(ready') \cup {active'}
<1> DEFINE rest == Tail(q)
<1>1. q # <<>> /\ Resume(Head(q), rest, back)
  BY DEF ResumeNext
<1>2. active' = Head(q) /\ ready' = rest \o back
  BY <1>1 DEF Resume, Awakened
<1>3. rest \in Seq(Contexts) /\ Range(q) = Range(rest) \cup {Head(q)}
  BY <1>1, TailApart
<1> HIDE DEF rest
<1>4. Range(rest \o back) = Range(rest) \cup Range(back)
  BY <1>3, ConcatApart
<1> QED
  BY <1>2, <1>3, <1>4

\* A step that takes a context out of a queue makes it ready or runs it.
LEMMA Carried ==
  ASSUME NoContextIsLost, GoesOn, NEW a, a = active,
         Range(ready) \subseteq Range(ready') \cup {active'},
         Range(cond) \subseteq Range(cond') \cup Range(ready') \cup {active'},
         \A w \in Workers :
           Range(waitList[w]) \subseteq Range(waitList'[w]) \cup Range(ready') \cup {active'},
         shutdown => shutdown',
         loop = "left" => loop' = "left",
         \/ a \notin Live'
         \/ a \in Range(ready') \cup Range(cond') \cup {active'}
         \/ \E w \in Workers : a \in Range(waitList'[w])
         \/ a = Main /\ shutdown'
         \/ a = Dispatcher /\ loop' = "left",
         Live' \ Live \subseteq Range(ready') \cup {active'}
  PROVE  NoContextIsLost'
<1> SUFFICES ASSUME NEW c \in Live', c # active'
             PROVE  \/ c \in Range(ready') \/ c \in Range(cond')
                    \/ \E w \in Workers : c \in Range(waitList'[w])
                    \/ c = Main /\ shutdown'
                    \/ c = Dispatcher /\ loop' = "left"
  BY DEF NoContextIsLost, WaitsIn, Parked
<1>1. CASE c = a \/ c \notin Live
  BY <1>1
<1>2. CASE c \in Live /\ c # active
  <2>1. \/ c \in Range(ready) \/ c \in Range(cond)
        \/ \E w \in Workers : c \in Range(waitList[w])
        \/ c = Main /\ shutdown
        \/ c = Dispatcher /\ loop = "left"
    BY <1>2 DEF NoContextIsLost, WaitsIn, Parked
  <2> QED
    BY <2>1
<1> QED
  BY <1>1, <1>2

LEMMA EveryProgramInit ==
  Init => EveryProgram
<1> SUFFICES ASSUME Init  PROVE EveryProgram
  OBVIOUS
<1>1. TypeOK
  BY TypeInit
<1>2. Live = {Main, Dispatcher} /\ active = Main /\ ready = <<Dispatcher>>
  BY DEF Init, Live, Created
<1>3. Dispatcher \in Range(ready)
  BY <1>2 DEF Range
<1> QED
  BY <1>1, <1>2, <1>3
  DEF Init, EveryProgram, JoinedAreMade, NobodyWaitsForTheDead, NoContextIsLost

LEMMA EveryProgramStep ==
  EveryProgram /\ [Next]_vars => EveryProgram'
<1> SUFFICES ASSUME EveryProgram, [Next]_vars  PROVE EveryProgram'
  OBVIOUS
<1>t. TypeOK /\ TypeOK' /\ JoinedAreMade /\ NobodyWaitsForTheDead /\ NoContextIsLost
  BY TypeStep DEF EveryProgram
<1>c. \A c \in Contexts : <<c>> \in Seq(Contexts) /\ Range(<<c>>) = {c}
  BY DEF Range
<1>q. ready \in Seq(Contexts) /\ <<>> \in Seq(Contexts) /\ Range(<<>>) = {}
  BY <1>t, EmptyQueue DEF TypeOK
<1>p. \A q \in Seq(Contexts) : Range(ready \o q) = Range(ready) \cup Range(q)
  BY <1>q, ConcatApart
<1>f. \A q \in Seq(Fibers) : q \in Seq(Contexts)
  BY Names
<1>w. \A w \in Workers : Created(w) <=> handle[w] # "none"
  BY DEF Created
<1>l. Live = {Main, Dispatcher} \cup {w \in Workers : handle[w] # "none" /\ w \notin terminated}
  BY DEF Live, Created
<1>m. Live' = {Main, Dispatcher} \cup {w \in Workers : handle'[w] # "none" /\ w \notin terminated'}
  BY DEF Live, Created
<1>g. halted' # "no" => NoContextIsLost'
  BY DEF NoContextIsLost, GoesOn
<1>1. ASSUME NEW c \in Fibers, NEW w \in Workers, Post(c, w)  PROVE EveryProgram'
  <2>1. /\ GoesOn /\ active = c /\ ready' = ready \o <<w>>
        /\ handle' = [handle EXCEPT ![w] = "joinable"] /\ handle[w] = "none"
        /\ UNCHANGED <<active, terminated, waitList, cond, joining, shutdown, loop>>
    BY <1>1, Names DEF Post, InUserCode, GoesOn, Exited, Awakened, Created, loopVars
  <2>2. Range(ready') = Range(ready) \cup {w}
    BY <2>1, <1>c, <1>p, Names
  <2>3. Live' \subseteq Live \cup {w}
    BY <2>1, <1>l, <1>m, <1>t DEF TypeOK
  <2>4. NoContextIsLost'
    BY <2>1, <2>2, <2>3, <1>t, Carried
  <2> QED
    BY <2>1, <2>4, <1>t
    DEF EveryProgram, JoinedAreMade, NobodyWaitsForTheDead, Created, TypeOK
<1>2. ASSUME NEW c \in Fibers, NEW w \in Workers, Dispatch(c, w)  PROVE EveryProgram'
  <2>1. /\ GoesOn /\ active = c /\ active' = w /\ ready' = ready \o <<c>>
        /\ handle' = [handle EXCEPT ![w] = "joinable"] /\ handle[w] = "none"
        /\ UNCHANGED <<terminated, waitList, cond, joining, shutdown, loop>>
    BY <1>2, Names DEF Dispatch, InUserCode, GoesOn, Exited, Awakened, Created, loopVars
  <2>2. Range(ready') = Range(ready) \cup {c}
    BY <2>1, <1>c, <1>p, Names
  <2>3. Live' \subseteq Live \cup {w}
    BY <2>1, <1>l, <1>m, <1>t DEF TypeOK
  <2>4. NoContextIsLost'
    BY <2>1, <2>2, <2>3, <1>t, Carried
  <2> QED
    BY <2>1, <2>4, <1>t
    DEF EveryProgram, JoinedAreMade, NobodyWaitsForTheDead, Created, TypeOK
<1>3. ASSUME NEW c \in Fibers, NEW w \in Workers, LaunchBlocked(c, w)  PROVE EveryProgram'
  BY <1>3, <1>t, <1>g
  DEF LaunchBlocked, EveryProgram, JoinedAreMade, NobodyWaitsForTheDead, Created,
      queueVars, waitVars
<1>4. ASSUME NEW c \in Fibers, NEW w \in Workers, JoinTerminated(c, w) \/ Detach(c, w)
      PROVE  EveryProgram'
  <2>1. /\ handle[w] = "joinable" /\ handle' = [handle EXCEPT ![w] = "empty"]
        /\ UNCHANGED <<active, ready, terminated, waitList, cond, joining, shutdown, loop, halted>>
    BY <1>4 DEF JoinTerminated, MayJoin, Detach, queueVars, loopVars
  <2>2. \A v \in Workers : Created(v)' <=> Created(v)
    BY <2>1, <1>t DEF Created, TypeOK
  <2>3. Live' = Live
    BY <2>1, <2>2 DEF Live
  <2> QED
    BY <2>1, <2>2, <2>3, <1>t
    DEF EveryProgram, JoinedAreMade, NobodyWaitsForTheDead, NoContextIsLost, GoesOn,
        Exited, WaitsIn, Parked, TypeOK
<1>5. ASSUME NEW c \in Fibers, NEW w \in Workers, JoinWait(c, w)  PROVE EveryProgram'
  <2>1. /\ GoesOn /\ active = c /\ ResumeNext(ready, <<>>)
        /\ waitList' = [waitList EXCEPT ![w] = Append(@, c)]
        /\ joining' = [joining EXCEPT ![c] = w]
        /\ handle[w] = "joinable" /\ w \notin terminated
        /\ UNCHANGED <<terminated, handle, cond, shutdown, loop>>
    BY <1>5, Names
    DEF JoinWait, MayJoin, InUserCode, GoesOn, Exited, queueVars, loopVars
  <2>2. Range(Append(waitList[w], c)) = Range(waitList[w]) \cup {c}
    BY <1>t, AppendApart DEF TypeOK
  <2>3. /\ waitList'[w] = Append(waitList[w], c)
        /\ \A v \in Workers : v # w => waitList'[v] = waitList[v]
    BY <2>1, <1>t DEF TypeOK
  <2>4. \A v \in Workers : Range(waitList[v]) \subseteq Range(waitList'[v])
    BY <2>2, <2>3
  <2>5. Live' = Live
    BY <2>1, <1>l, <1>m
  <2>6. NoContextIsLost'
    <3>1. CASE halted' = "no"
      <4>1. Range(ready) \subseteq Range(ready') \cup {active'}
        BY <2>1, <3>1, <1>q, SwitchCarries
      <4>2. c \in Range(waitList'[w])
        BY <2>2, <2>3
      <4> QED
        BY <2>1, <2>4, <2>5, <4>1, <4>2, <1>t, Carried
    <3> QED BY <3>1, <1>g
  <2>7. NobodyWaitsForTheDead'
    BY <2>1, <2>3, <1>t DEF NobodyWaitsForTheDead, Created
  <2>8. JoinedAreMade'
    BY <2>1, <1>t DEF JoinedAreMade, Created, TypeOK
  <2> QED
    BY <2>6, <2>7, <2>8, <1>t DEF EveryProgram
<1>6. ASSUME NEW c \in Fibers, JoinReturn(c)  PROVE EveryProgram'
  <2>1. /\ joining[c] \in Workers /\ handle[joining[c]] # "none"
        /\ handle' = [handle EXCEPT ![joining[c]] = "empty"]
        /\ joining' = [joining EXCEPT ![c] = NoOne]
        /\ UNCHANGED <<active, ready, terminated, waitList, cond, shutdown, loop, halted>>
    BY <1>6, <1>t DEF JoinReturn, JoinedAreMade, Created, TypeOK, queueVars, loopVars
  <2>2. \A v \in Workers : Created(v)' <=> Created(v)
    BY <2>1, <1>t DEF Created, TypeOK
  <2>3. Live' = Live
    BY <2>1, <2>2 DEF Live
  <2>4. \A x \in Fibers : joining'[x] \in {joining[x], NoOne}
    BY <2>1, <1>t DEF TypeOK
  <2>5. JoinedAreMade'
    <3>1. ASSUME NEW x \in Fibers, joining'[x] # NoOne
          PROVE  handle'[joining'[x]] # "none"
      <4>1. joining'[x] = joining[x] /\ joining[x] \in Workers /\ handle[joining[x]] # "none"
        BY <2>4, <3>1, <1>t DEF JoinedAreMade, Created, TypeOK
      <4> QED BY <4>1, <2>1, <1>t DEF TypeOK
    <3> QED BY <3>1 DEF JoinedAreMade, Created
  <2> QED
    BY <2>1, <2>2, <2>3, <2>5, <1>t
    DEF EveryProgram, NobodyWaitsForTheDead, NoContextIsLost, GoesOn,
        Exited, WaitsIn, Parked
<1>7. ASSUME NEW c \in Fibers,
             Yield(c) \/ CondWait(c) \/ \E d \in Delays : WaitUntil(c, d)
      PROVE  EveryProgram'
  <2>1. /\ GoesOn /\ active = c
        /\ UNCHANGED <<terminated, handle, waitList, joining, shutdown, loop>>
        /\ \/ ResumeNext(ready, <<c>>) /\ UNCHANGED cond
           \/ ResumeNext(ready, <<>>) /\ cond' = Append(cond, c)
    BY <1>7, Names
    DEF Yield, CondWait, WaitUntil, InUserCode, GoesOn, Exited, queueVars, waitVars, loopVars
  <2>2. Live' = Live
    BY <2>1, <1>l, <1>m
  <2>3. Range(Append(cond, c)) = Range(cond) \cup {c}
    BY <1>t, AppendApart DEF TypeOK
  <2>4. NoContextIsLost'
    <3>1. CASE halted' = "no"
      <4>1. c \in Range(ready') \cup Range(cond') \cup {active'}
            /\ Range(ready) \subseteq Range(ready') \cup {active'}
        BY <2>1, <2>3, <3>1, <1>c, <1>q, Names, SwitchCarries
      <4>2. Range(cond) \subseteq Range(cond')
        BY <2>1, <2>3
      <4> QED
        BY <2>1, <2>2, <4>1, <4>2, <1>t, Carried
    <3> QED BY <3>1, <1>g
  <2> QED
    BY <2>1, <2>4, <1>t DEF EveryProgram, JoinedAreMade, NobodyWaitsForTheDead, Created
<1>8. ASSUME NEW c \in Fibers, NotifyOne(c) \/ NotifyAll(c)  PROVE EveryProgram'
  <2>1. /\ GoesOn /\ active = c
        /\ UNCHANGED <<active, terminated, handle, waitList, joining, shutdown, loop>>
        /\ cond # <<>>
        /\ \/ cond' = Tail(cond) /\ ready' = ready \o <<Head(cond)>>
           \/ ready' = ready \o cond
    BY <1>8, Names
    DEF NotifyOne, NotifyAll, InUserCode, GoesOn, Exited, Awakened, queueVars, loopVars
  <2>2. Live' = Live
    BY <2>1, <1>l, <1>m
  <2>3. Head(cond) \in Fibers /\ Range(cond) = Range(Tail(cond)) \cup {Head(cond)}
    BY <2>1, <1>t, TailApart DEF TypeOK
  <2>4. /\ Range(ready \o <<Head(cond)>>) = Range(ready) \cup {Head(cond)}
        /\ Range(ready \o cond) = Range(ready) \cup Range(cond)
    <3>1. cond \in Seq(Contexts) /\ <<Head(cond)>> \in Seq(Contexts)
      BY <2>3, <1>t, <1>f, <1>c, Names DEF TypeOK
    <3> QED BY <3>1, <2>3, <1>p, <1>c, Names
  <2>5. /\ Range(ready) \subseteq Range(ready')
        /\ Range(cond) \subseteq Range(cond') \cup Range(ready')
    BY <2>1, <2>3, <2>4
  <2>6. NoContextIsLost'
    BY <2>1, <2>2, <2>5, <1>t, Carried
  <2> QED
    BY <2>1, <2>6, <1>t DEF EveryProgram, JoinedAreMade, NobodyWaitsForTheDead, Created
<1>9. ASSUME NEW w \in Workers, Terminate(w) \/ TerminateBlocked(w)  PROVE EveryProgram'
  <2>1. /\ GoesOn /\ active = w
        /\ terminated' = terminated \cup {w} /\ waitList' = [waitList EXCEPT ![w] = <<>>]
        /\ UNCHANGED <<handle, cond, joining, shutdown, loop>>
        /\ ResumeNext(ready \o waitList[w], <<>>) \/ halted' # "no"
    BY <1>9, Names
    DEF Terminate, TerminateBlocked, EndFiber, InUserCode, GoesOn, Exited, Awakened, loopVars
  <2>2. w \notin Live' /\ Live' \subseteq Live
    BY <2>1, <1>l, <1>m, Names
  <2>3. /\ waitList'[w] = <<>>
        /\ \A v \in Workers : v # w => waitList'[v] = waitList[v]
    BY <2>1, <1>t DEF TypeOK
  <2>4. NoContextIsLost'
    <3>1. CASE halted' = "no"
      <4>1. waitList[w] \in Seq(Contexts)
        BY <1>t, <1>f DEF TypeOK
      <4>2. /\ ready \o waitList[w] \in Seq(Contexts)
            /\ Range(ready \o waitList[w]) = Range(ready) \cup Range(waitList[w])
        BY <4>1, <1>q, ConcatApart
      <4>3. Range(ready) \cup Range(waitList[w]) \subseteq Range(ready') \cup {active'}
        BY <2>1, <3>1, <4>2, <1>q, SwitchCarries
      <4> QED
        BY <2>1, <2>2, <2>3, <4>3, <1>t, Carried
    <3> QED BY <3>1, <1>g
  <2>5. NobodyWaitsForTheDead'
    BY <2>1, <2>3, <1>t DEF NobodyWaitsForTheDead, Created
  <2> QED
    BY <2>1, <2>4, <2>5, <1>t DEF EveryProgram, JoinedAreMade, Created
<1>10. ASSUME DispatchTurn  PROVE EveryProgram'
  <2> DEFINE woken == SubSeq(sleepQueue, 1, Due)
             q == ready \o woken
  <2>1. woken \in Seq(Fibers)
    <3>1. Due \in 0 .. Len(sleepQueue) /\ Len(sleepQueue) \in Nat
          /\ \A i \in 1 .. Len(sleepQueue) : sleepQueue[i] \in Fibers
      BY <1>t, DueIsPrefix DEF TypeOK
    <3> QED BY <3>1, SubSeqProperties
  <2>2. woken \in Seq(Contexts)
    BY <2>1, <1>f
  <2>3. /\ GoesOn /\ active = Dispatcher /\ loop = "run"
        /\ UNCHANGED <<terminated, handle, cond, waitList, joining, shutdown>>
        /\ \/ q = <<>> /\ UNCHANGED <<active, ready>>
           \/ ResumeNext(q, <<Dispatcher>>)
    BY <1>10, Names
    DEF DispatchTurn, GoesOn, Exited, Awakened, ResumeNext, waitVars
  <2> HIDE DEF woken
  <2>4. q \in Seq(Contexts) /\ Range(q) = Range(ready) \cup Range(woken)
    BY <2>2, <1>q, ConcatApart
  <2> HIDE DEF q
  <2>5. Live' = Live
    BY <2>3, <1>l, <1>m
  <2>6. NoContextIsLost'
    <3>1. CASE halted' = "no"
      <4>1. Range(ready) \cup {Dispatcher} \subseteq Range(ready') \cup {active'}
        <5>1. CASE ResumeNext(q, <<Dispatcher>>)
          <6>1. <<Dispatcher>> \in Seq(Contexts) /\ Range(<<Dispatcher>>) = {Dispatcher}
            BY <1>c, Names
          <6>2. Range(q) \cup Range(<<Dispatcher>>) \subseteq Range(ready') \cup {active'}
            BY <5>1, <3>1, <2>4, <6>1, SwitchCarries
          <6> QED
            BY <2>4, <6>1, <6>2
        <5> QED BY <5>1, <2>3
      <4> QED
        BY <2>3, <2>5, <4>1, <1>t, Carried
    <3> QED BY <3>1, <1>g
  <2> QED
    BY <2>3, <2>6, <1>t DEF EveryProgram, JoinedAreMade, NobodyWaitsForTheDead, Created
<1>11. ASSUME DispatchReturn  PROVE EveryProgram'
  <2>1. /\ GoesOn /\ active = Dispatcher /\ loop' = "left" /\ ready' = ready \o <<>>
        /\ UNCHANGED <<terminated, handle, cond, waitList, joining, shutdown>>
    BY <1>11, Names DEF DispatchReturn, Resume, Awakened, GoesOn, Exited, waitVars
  <2>2. Live' = Live /\ Range(ready') = Range(ready)
    BY <2>1, <1>l, <1>m, <1>q, ConcatApart
  <2>3. NoContextIsLost'
    BY <2>1, <2>2, <1>t, Carried
  <2> QED
    BY <2>1, <2>3, <1>t DEF EveryProgram, JoinedAreMade, NobodyWaitsForTheDead, Created
<1>12. ASSUME ShutDown  PROVE EveryProgram'
  <2>1. /\ GoesOn /\ active = Main /\ shutdown' /\ ResumeNext(ready, <<>>)
        /\ UNCHANGED <<terminated, handle, cond, waitList, joining, loop>>
    BY <1>12, Names
    DEF ShutDown, InUserCode, GoesOn, Exited, queueVars, waitVars
  <2>2. Live' = Live
    BY <2>1, <1>l, <1>m
  <2>3. NoContextIsLost'
    <3>1. CASE halted' = "no"
      <4>1. Range(ready) \subseteq Range(ready') \cup {active'}
        BY <2>1, <3>1, <1>q, SwitchCarries
      <4> QED BY <2>1, <2>2, <4>1, <1>t, Carried
    <3> QED BY <3>1, <1>g
  <2> QED
    BY <2>1, <2>3, <1>t DEF EveryProgram, JoinedAreMade, NobodyWaitsForTheDead, Created
<1>13. CASE ShutDownReturn
  <2>1. /\ UNCHANGED <<terminated, handle, waitList, joining>>
        /\ halted' # "no" \/ active' = NoOne
    BY <1>13 DEF ShutDownReturn, queueVars, waitVars
  <2>2. NoContextIsLost'
    BY <2>1 DEF NoContextIsLost, GoesOn, Exited
  <2> QED
    BY <2>1, <2>2, <1>t DEF EveryProgram, JoinedAreMade, NobodyWaitsForTheDead, Created
<1>14. CASE Tick \/ UNCHANGED vars
  <2>1. UNCHANGED <<active, ready, terminated, handle, waitList, cond, joining, shutdown,
                    loop, halted>>
    BY <1>14 DEF Tick, vars, queueVars, waitVars, loopVars
  <2> QED
    BY <2>1, <1>t
    DEF EveryProgram, JoinedAreMade, NobodyWaitsForTheDead, NoContextIsLost, Created,
        GoesOn, Exited, Live, WaitsIn, Parked
<1>15. CASE SuspendUntilReturns
  <2>1. /\ GoesOn /\ active = Dispatcher /\ loop = "idle"
        /\ UNCHANGED <<active, ready, terminated, handle, waitList, cond, joining, shutdown>>
    BY <1>15, Names DEF SuspendUntilReturns, GoesOn, Exited, queueVars, waitVars
  <2>2. Live' = Live
    BY <2>1, <1>l, <1>m
  <2>3. NoContextIsLost'
    BY <2>1, <2>2, <1>t, Carried
  <2> QED
    BY <2>1, <2>3, <1>t DEF EveryProgram, JoinedAreMade, NobodyWaitsForTheDead, Created
<1> QED
  BY <1>1, <1>2, <1>3, <1>4, <1>5, <1>6, <1>7, <1>8, <1>9, <1>10, <1>11, <1>12, <1>13,
     <1>14, <1>15
  DEF Next, Step

LEMMA EveryProgramKeeps ==
  Spec => []EveryProgram
BY EveryProgramInit, EveryProgramStep, PTL DEF Spec

\* Whatever a program calls, no suspended context is forgotten while its thread
\* goes on.
THEOREM NothingIsLost == Spec => []NoContextIsLost
<1>1. EveryProgram => NoContextIsLost
  BY DEF EveryProgram
<1> QED
  BY <1>1, EveryProgramKeeps, PTL

\* Whatever a program calls, nobody stays in the wait list of a fiber that has
\* terminated (Context::Join and Terminate).
THEOREM NoLateJoiners == Spec => []NobodyWaitsForTheDead
<1>1. EveryProgram => NobodyWaitsForTheDead
  BY DEF EveryProgram
<1> QED
  BY <1>1, EveryProgramKeeps, PTL

-----------------------------------------------------------------------------
(***************************************************************************)
(* sleepQueue_, in every program.                                          *)
(***************************************************************************)
\* The steps that work on sleepQueue_ and the times in it.
LEMMA SleepersMove ==
  ASSUME [Next]_vars
  PROVE  \/ \E c \in Fibers : \E d \in Delays : WaitUntil(c, d)
         \/ DispatchTurn
         \/ UNCHANGED <<sleepQueue, tp>>
BY DEF Next, Step, Post, Dispatch, LaunchBlocked, Yield, JoinTerminated, JoinWait,
       JoinReturn, Detach, CondWait, NotifyOne, NotifyAll, Terminate,
       TerminateBlocked, SuspendUntilReturns, DispatchReturn, ShutDown,
       ShutDownReturn, Tick, vars, sleepVars

\* Where the elements of q are after c came to place i.
LEMMA InsertPoints ==
  ASSUME NEW S, NEW q \in Seq(S), NEW i \in 1 .. Len(q) + 1, NEW c \in S
  PROVE  /\ DOMAIN InsertAt(q, i, c) = 1 .. Len(q) + 1
         /\ InsertAt(q, i, c)[i] = c
         /\ \A k \in 1 .. Len(q) :
              InsertAt(q, i, c)[IF k < i THEN k ELSE k + 1] = q[k]
<1> DEFINE front == SubSeq(q, 1, i - 1)
           rest  == SubSeq(q, i, Len(q))
           mid   == front \o <<c>>
           p     == mid \o rest
<1>1. Len(q) \in Nat /\ i \in Int /\ \A j \in 1 .. Len(q) : q[j] \in S
  OBVIOUS
<1>2. /\ front \in Seq(S) /\ Len(front) = i - 1
      /\ \A j \in 1 .. i - 1 : front[j] = q[j]
  <2>1. \A j \in 1 .. i - 1 : q[j] \in S
    BY <1>1
  <2>2. /\ front \in Seq(S) /\ Len(front) = IF 1 <= i - 1 THEN i - 1 - 1 + 1 ELSE 0
        /\ \A j \in 1 .. i - 1 - 1 + 1 : front[j] = q[1 + j - 1]
    BY <1>1, <2>1, SubSeqProperties
  <2> QED BY <1>1, <2>2
<1>3. /\ rest \in Seq(S) /\ Len(rest) = Len(q) - i + 1
      /\ \A j \in 1 .. Len(q) - i + 1 : rest[j] = q[i + j - 1]
  <2>1. \A j \in i .. Len(q) : q[j] \in S
    BY <1>1
  <2>2. /\ rest \in Seq(S) /\ Len(rest) = IF i <= Len(q) THEN Len(q) - i + 1 ELSE 0
        /\ \A j \in 1 .. Len(q) - i + 1 : rest[j] = q[i + j - 1]
    BY <1>1, <2>1, SubSeqProperties
  <2> QED BY <1>1, <2>2
<1> HIDE DEF front, rest
<1>4. /\ mid \in Seq(S) /\ Len(mid) = i /\ mid[i] = c
      /\ \A j \in 1 .. i - 1 : mid[j] = q[j]
  <2>1. <<c>> \in Seq(S) /\ Len(<<c>>) = 1 /\ <<c>>[1] = c
    OBVIOUS
  <2>2. /\ mid \in Seq(S) /\ Len(mid) = Len(front) + 1
        /\ \A j \in 1 .. Len(front) + 1 :
             mid[j] = IF j <= Len(front) THEN front[j] ELSE <<c>>[j - Len(front)]
    BY <1>2, <2>1, ConcatProperties
  <2> HIDE DEF mid
  <2>3. mid \in Seq(S) /\ Len(mid) = i
    BY <1>1, <1>2, <2>2
  <2>4. mid[i] = c
    <3>1. i \in 1 .. Len(front) + 1 /\ ~(i <= Len(front)) /\ i - Len(front) = 1
      BY <1>1, <1>2
    <3> QED BY <2>1, <2>2, <3>1
  <2>5. \A j \in 1 .. i - 1 : mid[j] = q[j]
    <3>1. \A j \in 1 .. i - 1 : j \in 1 .. Len(front) + 1 /\ j <= Len(front)
      BY <1>1, <1>2
    <3> QED BY <1>2, <2>2, <3>1
  <2> QED BY <2>3, <2>4, <2>5
<1> HIDE DEF mid
<1>5. /\ DOMAIN p = 1 .. Len(q) + 1
      /\ \A j \in 1 .. Len(q) + 1 : p[j] = IF j <= i THEN mid[j] ELSE rest[j - i]
  <2>1. /\ p \in Seq(S) /\ Len(p) = Len(mid) + Len(rest)
        /\ \A j \in 1 .. Len(mid) + Len(rest) :
             p[j] = IF j <= Len(mid) THEN mid[j] ELSE rest[j - Len(mid)]
    BY <1>3, <1>4, ConcatProperties
  <2> QED BY <1>1, <1>3, <1>4, <2>1
<1> HIDE DEF p
<1>6. p[i] = c
  BY <1>1, <1>4, <1>5
<1>7. ASSUME NEW k \in 1 .. Len(q)  PROVE p[IF k < i THEN k ELSE k + 1] = q[k]
  <2>1. CASE k < i
    BY <1>1, <1>4, <1>5, <2>1
  <2>2. CASE ~(k < i)
    <3>1. p[k + 1] = rest[k + 1 - i] /\ k + 1 - i \in 1 .. Len(q) - i + 1
      BY <1>1, <1>5, <2>2
    <3>2. rest[k + 1 - i] = q[i + (k + 1 - i) - 1]
      BY <1>3, <3>1
    <3> QED BY <1>1, <2>2, <3>1, <3>2
  <2> QED BY <2>1, <2>2
<1>8. InsertAt(q, i, c) = p
  BY DEF InsertAt, p, mid, front, rest
<1> QED
  BY <1>5, <1>6, <1>7, <1>8

\* What ProcSleepToReady takes is due, and takes no context twice.
LEMMA DueAreTaken ==
  ASSUME TypeOK, NEW i \in 1 .. Due
  PROVE  /\ i \in 1 .. Len(sleepQueue) /\ tp[sleepQueue[i]] <= now
         /\ \A j \in 1 .. i - 1 : sleepQueue[j] # sleepQueue[i]
<1> DEFINE takes(k) == /\ tp[sleepQueue[k]] <= now
                       /\ \A j \in 1 .. k - 1 : sleepQueue[j] # sleepQueue[k]
           D == {k \in 1 .. Len(sleepQueue) : \A j \in 1 .. k : takes(j)}
<1>1. Len(sleepQueue) \in Nat /\ Due = Cardinality(D) /\ Due \in 0 .. Len(sleepQueue)
  BY DueIsPrefix DEF TypeOK, Due
<1>2. i \in D
  <2>1. SUFFICES ASSUME i \notin D  PROVE FALSE
    OBVIOUS
  <2>2. D \subseteq 1 .. i - 1
    BY <1>1, <2>1
  <2>3. IsFiniteSet(1 .. i - 1) /\ Cardinality(1 .. i - 1) = i - 1
    <3>1. \A k \in Int : /\ IsFiniteSet(1 .. k)
                         /\ Cardinality(1 .. k) = IF 1 > k THEN 0 ELSE k - 1 + 1
      BY FS_Interval
    <3>2. i - 1 \in Int /\ i - 1 >= 0
      BY <1>1
    <3>3. /\ IsFiniteSet(1 .. i - 1)
          /\ Cardinality(1 .. i - 1) = IF 1 > i - 1 THEN 0 ELSE (i - 1) - 1 + 1
      BY <3>1, <3>2
    <3> QED BY <3>2, <3>3
  <2>4. Cardinality(D) <= i - 1
    BY <2>2, <2>3, FS_Subset
  <2> QED BY <1>1, <2>4
<1>3. takes(i)
  BY <1>1, <1>2
<1> QED
  BY <1>1, <1>3

\* Only those that sleep are in sleepQueue_.
SleepersOnly == sleepQueue \in Seq(Sleepers)

LEMMA SleepersOnlyStep ==
  TypeOK /\ SleepersOnly /\ [Next]_vars => SleepersOnly'
<1> SUFFICES ASSUME TypeOK, SleepersOnly, [Next]_vars  PROVE SleepersOnly'
  OBVIOUS
<1>1. ASSUME NEW c \in Fibers, NEW d \in Delays, WaitUntil(c, d)  PROVE SleepersOnly'
  <2>1. PICK i \in InsertPlaces(sleepQueue, tp', now + d) :
          sleepQueue' = InsertAt(sleepQueue, i, c)
    BY <1>1 DEF WaitUntil
  <2>2. i \in 1 .. Len(sleepQueue) + 1 /\ c \in Sleepers
    BY <1>1, <2>1 DEF InsertPlaces, WaitUntil
  <2> QED BY <2>1, <2>2, InsertType DEF SleepersOnly
<1>2. CASE DispatchTurn
  <2>1. /\ Due \in 0 .. Len(sleepQueue) /\ Len(sleepQueue) \in Nat
        /\ \A i \in 1 .. Len(sleepQueue) : sleepQueue[i] \in Sleepers
    BY DueIsPrefix DEF SleepersOnly
  <2>2. SubSeq(sleepQueue, Due + 1, Len(sleepQueue)) \in Seq(Sleepers)
    BY <2>1, SubSeqProperties
  <2> QED BY <1>2, <2>2 DEF DispatchTurn, SleepersOnly
<1>3. CASE UNCHANGED <<sleepQueue, tp>>
  BY <1>3 DEF SleepersOnly
<1> QED
  BY <1>1, <1>2, <1>3, SleepersMove

\* Who has no stale entry after a call of WaitUntil had none before, and the
\* new entry is put in order.
LEMMA InsertOrdered ==
  ASSUME TypeOK, SleepersOnly, OrderedUnlessStale,
         NEW c \in Fibers, NEW d \in Delays, WaitUntil(c, d)
  PROVE  OrderedUnlessStale'
<1> DEFINE t == now + d
           q == sleepQueue
           p == sleepQueue'
           n == Len(q)
<1>1. PICK i \in InsertPlaces(q, tp', t) : p = InsertAt(q, i, c)
  BY DEF WaitUntil
<1> DEFINE pos(k) == IF k < i THEN k ELSE k + 1
<1>2. /\ i \in 1 .. n + 1 /\ n \in Nat /\ c \in Sleepers /\ t \in Int
      /\ i > 1 => tp'[q[i - 1]] <= t
      /\ i <= n => tp'[q[i]] > t
      /\ DOMAIN q = 1 .. n /\ \A k \in 1 .. n : q[k] \in Sleepers
      /\ \A k \in 1 .. n : q[k] \in Contexts
  BY <1>1, ProgramAssumption, Names DEF InsertPlaces, WaitUntil, SleepersOnly, TypeOK
<1>3. /\ DOMAIN p = 1 .. n + 1 /\ p[i] = c
      /\ \A k \in 1 .. n : p[pos(k)] = q[k]
  BY <1>1, <1>2, InsertPoints DEF SleepersOnly
<1>4. /\ tp'[c] = t /\ \A s \in Contexts : s # c => tp'[s] = tp[s]
      /\ \A s \in Contexts : tp[s] \in Int /\ tp'[s] \in Int
  BY <1>2, Names, ProgramAssumption DEF WaitUntil, TypeOK, Times, Never
<1> SUFFICES ASSUME \A s \in Sleepers : ~Stale(s)'
             PROVE  \A j, k \in DOMAIN p : j < k => tp'[p[j]] <= tp'[p[k]]
  BY DEF OrderedUnlessStale
<1>s. \A s \in Sleepers : \A j \in DOMAIN p :
        p[j] = s => tp'[s] # Never /\ \A k \in DOMAIN p : p[k] = s => k = j
  BY DEF Stale, EntriesOf
<1> HIDE DEF p, q
<1>5. \A k \in 1 .. n : pos(k) \in 1 .. n + 1 /\ pos(k) # i
  BY <1>2
<1>6. ASSUME NEW k \in 1 .. n  PROVE q[k] # c /\ tp'[q[k]] = tp[q[k]]
  BY <1>2, <1>3, <1>4, <1>5, <1>s
<1>7. ASSUME NEW s \in Sleepers  PROVE ~Stale(s)
  <2>1. ASSUME NEW j \in 1 .. n, q[j] = s
        PROVE  tp[s] # Never /\ \A k \in 1 .. n : q[k] = s => k = j
    <3>1. pos(j) \in DOMAIN p /\ p[pos(j)] = s
      BY <1>3, <1>5, <2>1
    <3>2. tp[s] # Never
      BY <1>6, <1>s, <2>1, <3>1
    <3>3. ASSUME NEW k \in 1 .. n, q[k] = s  PROVE k = j
      <4>1. pos(k) = pos(j)
        BY <1>3, <1>5, <1>s, <3>1, <3>3
      <4> QED BY <4>1, <1>2
    <3> QED BY <3>2, <3>3
  <2> QED BY <1>2, <2>1 DEF Stale, EntriesOf, q
<1>8. \A j, k \in 1 .. n : j < k => tp[q[j]] <= tp[q[k]]
  BY <1>2, <1>7 DEF OrderedUnlessStale, q
<1>9. ASSUME NEW j \in 1 .. n + 1, NEW k \in 1 .. n + 1, j < k
      PROVE  tp'[p[j]] <= tp'[p[k]]
  <2>1. ASSUME NEW l \in 1 .. n + 1, l < i
        PROVE  l \in 1 .. n /\ p[l] = q[l] /\ tp'[p[l]] = tp[q[l]]
    BY <1>2, <1>3, <1>6, <2>1
  <2>2. ASSUME NEW l \in 1 .. n + 1, l > i
        PROVE  l - 1 \in 1 .. n /\ p[l] = q[l - 1] /\ tp'[p[l]] = tp[q[l - 1]]
    <3>1. l - 1 \in 1 .. n /\ pos(l - 1) = l
      BY <1>2, <2>2
    <3> QED BY <1>3, <1>6, <3>1
  <2>3. CASE j < i /\ k < i
    BY <1>8, <1>9, <2>1, <2>3
  <2>4. CASE j < i /\ k > i
    <3>1. j <= k - 1 /\ k - 1 \in 1 .. n /\ j \in 1 .. n
          /\ tp'[p[j]] = tp[q[j]] /\ tp'[p[k]] = tp[q[k - 1]]
      BY <1>2, <2>1, <2>2, <2>4
    <3>2. tp[q[j]] <= tp[q[k - 1]]
      <4>1. CASE j = k - 1
        BY <1>2, <1>4, <3>1, <4>1
      <4>2. CASE j # k - 1
        BY <1>8, <3>1, <4>2
      <4> QED BY <4>1, <4>2
    <3> QED BY <3>1, <3>2
  <2>5. CASE j > i
    <3>1. k > i /\ j - 1 < k - 1
      BY <1>2, <1>9, <2>5
    <3> QED BY <1>8, <2>2, <2>5, <3>1
  <2>6. CASE k = i
    <3>1. /\ i - 1 \in 1 .. n /\ tp[q[i - 1]] <= t /\ j <= i - 1
          /\ j \in 1 .. n /\ tp'[p[j]] = tp[q[j]] /\ tp'[p[k]] = t
      BY <1>2, <1>3, <1>4, <1>6, <1>9, <2>1, <2>6
    <3>2. tp[q[j]] <= tp[q[i - 1]]
      <4>1. CASE j = i - 1
        BY <1>2, <1>4, <3>1, <4>1
      <4>2. CASE j # i - 1
        BY <1>8, <3>1, <4>2
      <4> QED BY <4>1, <4>2
    <3>3. tp[q[j]] \in Int /\ tp[q[i - 1]] \in Int
      BY <1>2, <1>4, <3>1
    <3> QED BY <1>2, <3>1, <3>2, <3>3
  <2>7. CASE j = i
    <3>1. /\ i \in 1 .. n /\ tp[q[i]] > t /\ i <= k - 1
          /\ k - 1 \in 1 .. n /\ tp'[p[k]] = tp[q[k - 1]] /\ tp'[p[j]] = t
      BY <1>2, <1>3, <1>4, <1>6, <1>9, <2>2, <2>7
    <3>2. tp[q[i]] <= tp[q[k - 1]]
      <4>1. CASE i = k - 1
        BY <1>2, <1>4, <3>1, <4>1
      <4>2. CASE i # k - 1
        BY <1>8, <3>1, <4>2
      <4> QED BY <4>1, <4>2
    <3>3. tp[q[i]] \in Int /\ tp[q[k - 1]] \in Int
      BY <1>2, <1>4, <3>1
    <3> QED BY <1>2, <3>1, <3>2, <3>3
  <2> QED
    BY <1>2, <1>9, <2>3, <2>4, <2>5, <2>6, <2>7
<1> QED
  BY <1>3, <1>9

\* ProcSleepToReady takes entries off the head; a context that it woke and
\* that has another entry is stale from then on.
LEMMA WakeOrdered ==
  ASSUME TypeOK, SleepersOnly, OrderedUnlessStale, DispatchTurn
  PROVE  OrderedUnlessStale'
<1> DEFINE q == sleepQueue
           p == sleepQueue'
           n == Len(q)
           m == Due
           woken == SubSeq(q, 1, m)
<1>1. /\ n \in Nat /\ m \in 0 .. n /\ DOMAIN q = 1 .. n
      /\ \A k \in 1 .. n : q[k] \in Sleepers /\ q[k] \in Contexts
  BY DueIsPrefix, ProgramAssumption, Names DEF SleepersOnly, TypeOK
<1>2. /\ p = SubSeq(q, m + 1, n)
      /\ tp' = [s \in Contexts |-> IF s \in Range(woken) THEN Never ELSE tp[s]]
  BY DEF DispatchTurn
<1>3. \A j \in 1 .. m : tp[q[j]] <= now /\ \A k \in 1 .. j - 1 : q[k] # q[j]
  BY DueAreTaken
<1>4. \A s \in Contexts : tp[s] \in Int
  BY ProgramAssumption DEF TypeOK, Times, Never
<1>n. now < Never /\ now \in Int /\ Never \in Int
  BY ProgramAssumption DEF TypeOK, Never
<1>o. (\A s \in Sleepers : ~Stale(s)) =>
        \A j, k \in 1 .. n : j < k => tp[q[j]] <= tp[q[k]]
  BY <1>1 DEF OrderedUnlessStale
<1> SUFFICES ASSUME \A s \in Sleepers : ~Stale(s)'
             PROVE  \A j, k \in DOMAIN p : j < k => tp'[p[j]] <= tp'[p[k]]
  BY DEF OrderedUnlessStale
<1>s. \A s \in Sleepers : \A j \in DOMAIN p :
        p[j] = s => tp'[s] # Never /\ \A k \in DOMAIN p : p[k] = s => k = j
  BY DEF Stale, EntriesOf
<1>t. \A s \in Sleepers :
        (\A j \in 1 .. n : q[j] = s =>
           tp[s] # Never /\ \A k \in 1 .. n : q[k] = s => k = j) => ~Stale(s)
  BY <1>1 DEF Stale, EntriesOf
<1> HIDE DEF p, q, m
<1>5. /\ DOMAIN p = 1 .. n - m
      /\ \A k \in 1 .. n - m : p[k] = q[k + m]
  <2>1. /\ p \in Seq(Contexts)
        /\ Len(p) = IF m + 1 <= n THEN n - (m + 1) + 1 ELSE 0
        /\ \A k \in 1 .. n - (m + 1) + 1 : p[k] = q[(m + 1) + k - 1]
    <3>1. q \in Seq(Contexts) /\ m + 1 \in Int /\ n \in Int
          /\ \A k \in m + 1 .. n : q[k] \in Contexts
      BY <1>1, Names DEF TypeOK, q
    <3> QED BY <1>2, <3>1, SubSeqProperties
  <2> HIDE DEF n
  <2>2. Len(p) = n - m /\ n - (m + 1) + 1 = n - m
    BY <1>1, <2>1
  <2>3. DOMAIN p = 1 .. n - m
    BY <2>1, <2>2
  <2>4. ASSUME NEW k \in 1 .. n - m  PROVE p[k] = q[k + m]
    <3>1. (m + 1) + k - 1 = k + m
      BY <1>1
    <3> QED BY <2>1, <2>2, <3>1
  <2> QED BY <2>3, <2>4
<1>6. \A s : s \in Range(woken) <=> \E j \in 1 .. m : q[j] = s
  <2>1. /\ DOMAIN woken = 1 .. m
        /\ \A k \in 1 .. m : woken[k] = q[k]
    <3>1. /\ woken \in Seq(Contexts) /\ Len(woken) = IF 1 <= m THEN m - 1 + 1 ELSE 0
          /\ \A k \in 1 .. m - 1 + 1 : woken[k] = q[1 + k - 1]
      BY <1>1, SubSeqProperties
    <3> QED BY <1>1, <3>1
  <2> QED BY <2>1 DEF Range
<1> HIDE DEF woken
<1>7. ASSUME NEW k \in 1 .. n - m
      PROVE  /\ tp'[p[k]] = tp[p[k]] /\ tp'[p[k]] # Never /\ p[k] = q[k + m]
             /\ k + m \in 1 .. n /\ p[k] \notin Range(woken)
  <2>1. p[k] = q[k + m] /\ k + m \in 1 .. n /\ p[k] \in Sleepers /\ p[k] \in Contexts
    BY <1>1, <1>5
  <2>2. tp'[p[k]] # Never
    BY <1>5, <1>s, <2>1
  <2> QED BY <1>2, <2>1, <2>2
<1>8. ASSUME NEW s \in Sleepers  PROVE ~Stale(s)
  <2>1. ASSUME NEW j \in 1 .. n, q[j] = s
        PROVE  tp[s] # Never /\ \A k \in 1 .. n : q[k] = s => k = j
    <3>1. CASE j <= m
      <4>1. j \in 1 .. m /\ s \in Range(woken)
        BY <1>1, <1>6, <2>1, <3>1
      <4>2. tp[s] # Never
        BY <1>1, <1>3, <1>4, <1>n, <2>1, <4>1
      <4>3. ASSUME NEW k \in 1 .. n, q[k] = s, k # j  PROVE FALSE
        <5>1. CASE k > m
          <6>1. k - m \in 1 .. n - m /\ k - m + m = k
            BY <1>1, <5>1
          <6> QED BY <1>7, <4>1, <4>3, <6>1
        <5>2. CASE k < j
          <6>1. k \in 1 .. j - 1
            BY <1>1, <5>2
          <6> QED BY <1>3, <2>1, <4>1, <4>3, <6>1
        <5>3. CASE k > j /\ k <= m
          <6>1. k \in 1 .. m /\ j \in 1 .. k - 1
            BY <1>1, <5>3
          <6> QED BY <1>3, <2>1, <4>3, <6>1
        <5> QED BY <1>1, <4>3, <5>1, <5>2, <5>3
      <4> QED BY <4>2, <4>3
    <3>2. CASE j > m
      <4>1. j - m \in 1 .. n - m /\ j - m + m = j
        BY <1>1, <3>2
      <4>2. tp[s] # Never /\ s \notin Range(woken) /\ p[j - m] = s
        BY <1>7, <2>1, <4>1
      <4>3. ASSUME NEW k \in 1 .. n, q[k] = s  PROVE k = j
        <5>1. k > m
          BY <1>1, <1>6, <4>2, <4>3
        <5>2. k - m \in 1 .. n - m /\ k - m + m = k
          BY <1>1, <5>1
        <5>3. p[k - m] = s
          BY <1>7, <4>3, <5>2
        <5>4. k - m = j - m
          BY <1>5, <1>s, <4>1, <4>2, <5>2, <5>3
        <5> QED BY <1>1, <5>4
      <4> QED BY <4>2, <4>3
    <3> QED BY <1>1, <3>1, <3>2
  <2> QED BY <1>t, <2>1
<1>9. ASSUME NEW j \in 1 .. n - m, NEW k \in 1 .. n - m, j < k
      PROVE  tp'[p[j]] <= tp'[p[k]]
  <2>1. j + m < k + m
    BY <1>1, <1>9
  <2>2. tp[q[j + m]] <= tp[q[k + m]]
    BY <1>7, <1>8, <1>o, <2>1
  <2> QED BY <1>7, <2>2
<1> QED
  BY <1>5, <1>9

\* Whatever a program calls, sleepQueue_ is in the order of the times in it as
\* long as no entry is stale (Scheduler::WaitUntil and ProcSleepToReady).
THEOREM SleepersInOrder == Spec => []OrderedUnlessStale
<1> DEFINE J == TypeOK /\ SleepersOnly /\ OrderedUnlessStale
<1>1. Init => J
  <2> SUFFICES ASSUME Init  PROVE SleepersOnly /\ OrderedUnlessStale
    BY TypeInit
  <2>1. sleepQueue = <<>> /\ DOMAIN <<>> = {} /\ <<>> \in Seq(Sleepers)
    BY DEF Init
  <2> QED BY <2>1 DEF SleepersOnly, OrderedUnlessStale
<1>2. J /\ [Next]_vars => J'
  <2> SUFFICES ASSUME J, [Next]_vars  PROVE OrderedUnlessStale'
    BY TypeStep, SleepersOnlyStep
  <2>1. CASE UNCHANGED <<sleepQueue, tp>>
    BY <2>1 DEF OrderedUnlessStale, Stale, EntriesOf
  <2> QED
    BY <2>1, SleepersMove, InsertOrdered, WakeOrdered
<1>3. J => OrderedUnlessStale
  OBVIOUS
<1> QED
  BY <1>1, <1>2, <1>3, PTL DEF Spec

-----------------------------------------------------------------------------
(***************************************************************************)
(* ~Scheduler, in every program whose main context does not sleep.         *)
(***************************************************************************)
MainBusy == active = Main \/ Main \in Range(ready)

(***************************************************************************)
(* The main context is in one place, once: it runs or is ready, or waits   *)
(* in one queue.  In ~Scheduler it waits nowhere, and it runs again only   *)
(* when Dispatch, with no workers left, has come back to it.               *)
(***************************************************************************)
MainInOnePlace ==
  /\ Once(ready, Main) /\ Once(cond, Main)
  /\ \A w \in Workers : Once(waitList[w], Main)
  /\ active = Main => Main \notin Range(ready)
  /\ Main \in Range(cond) => ~MainBusy /\ ~shutdown
  /\ \A w \in Workers :
       Main \in Range(waitList[w]) =>
         /\ ~MainBusy /\ ~shutdown /\ Main \notin Range(cond)
         /\ \A v \in Workers : Main \in Range(waitList[v]) => v = w
  /\ shutdown /\ MainBusy => loop = "left"
  /\ loop = "left" =>
       active = Main /\ shutdown /\ workerQueue = {} /\ terminatedQueue = {}

\* A switch keeps the main context in one place.
LEMMA MainSwitches ==
  ASSUME NEW q \in Seq(Contexts), NEW back \in Seq(Contexts),
         Once(q, Main), Once(back, Main), Main \notin Range(q) \cap Range(back),
         ResumeNext(q, back), halted' = "no"
  PROVE  /\ Once(ready', Main) /\ (active' = Main => Main \notin Range(ready'))
         /\ MainBusy' => Main \in Range(q) \cup Range(back)
<1> DEFINE rest == Tail(q)
<1>1. q # <<>> /\ Resume(Head(q), rest, back)
  BY DEF ResumeNext
<1>2. active' = Head(q) /\ ready' = rest \o back
  BY <1>1 DEF Resume, Awakened
<1>3. /\ rest \in Seq(Contexts) /\ Range(q) = Range(rest) \cup {Head(q)}
      /\ Once(rest, Main) /\ (Head(q) = Main => Main \notin Range(rest))
  BY <1>1, TailApart, TailOnce
<1> HIDE DEF rest
<1>4. Range(rest \o back) = Range(rest) \cup Range(back) /\ Once(rest \o back, Main)
  BY <1>3, ConcatApart, ConcatOnce
<1> QED
  BY <1>2, <1>3, <1>4 DEF MainBusy

\* A step that brings the main context to no new place.
LEMMA MainStays ==
  ASSUME MainInOnePlace,
         Once(ready', Main), active' = Main => Main \notin Range(ready'),
         MainBusy' => MainBusy,
         Once(cond', Main), Main \in Range(cond') => Main \in Range(cond),
         \A w \in Workers :
           /\ Once(waitList'[w], Main)
           /\ Main \in Range(waitList'[w]) => Main \in Range(waitList[w]),
         shutdown' = shutdown, loop' = "left" => loop = "left",
         loop = "left" => UNCHANGED <<active, loop, workerQueue, terminatedQueue>>
  PROVE  MainInOnePlace'
BY DEF MainInOnePlace, MainBusy

\* A step that leaves the main context running or ready, if anywhere.
LEMMA MainIsWoken ==
  ASSUME Once(ready', Main), active' = Main => Main \notin Range(ready'),
         Once(cond', Main), Main \notin Range(cond'),
         \A w \in Workers : Once(waitList'[w], Main) /\ Main \notin Range(waitList'[w]),
         ~shutdown', loop' # "left"
  PROVE  MainInOnePlace'
BY DEF MainInOnePlace

\* A fiber runs its own code: Dispatch has not come back to ~Scheduler.
LEMMA MainUserCode ==
  ASSUME GoesOn => MainInOnePlace, NEW c \in Fibers, InUserCode(c)
  PROVE  /\ GoesOn /\ MainInOnePlace /\ active = c /\ loop # "left"
         /\ c = Main => ~shutdown /\ Main \notin Range(ready) /\ Main \notin Range(cond)
                        /\ \A w \in Workers : Main \notin Range(waitList[w])
BY Names DEF InUserCode, GoesOn, Exited, MainInOnePlace, MainBusy

LEMMA MainInOnePlaceStep ==
  ASSUME Main \notin Sleepers, TypeOK, SleepersOnly, GoesOn => MainInOnePlace,
         Next, GoesOn'
  PROVE  MainInOnePlace'
<1>q. /\ ready \in Seq(Contexts) /\ cond \in Seq(Contexts)
      /\ \A w \in Workers : waitList[w] \in Seq(Fibers) /\ waitList[w] \in Seq(Contexts)
      /\ cond \in Seq(Fibers) /\ waitList \in [Workers -> Seq(Fibers)]
  BY Names DEF TypeOK
<1>c. \A c \in Contexts : /\ <<c>> \in Seq(Contexts) /\ Range(<<c>>) = {c}
                          /\ Once(<<c>>, Main)
  BY DEF Range, Once
<1>e. <<>> \in Seq(Contexts) /\ Range(<<>>) = {} /\ Once(<<>>, Main)
  BY EmptyQueue DEF Once
<1>h. halted' = "no"
  BY DEF GoesOn
<1>s. ASSUME GoesOn, MainInOnePlace, NEW c \in Contexts, active = c,
             ResumeNext(ready, <<c>>) \/ ResumeNext(ready, <<>>)
      PROVE  /\ Once(ready', Main) /\ (active' = Main => Main \notin Range(ready'))
             /\ MainBusy' => MainBusy
  <2>1. Once(ready, Main) /\ (c = Main => Main \notin Range(ready))
    BY <1>s DEF MainInOnePlace
  <2>2. CASE ResumeNext(ready, <<c>>)
    <3>1. /\ Once(ready', Main) /\ (active' = Main => Main \notin Range(ready'))
          /\ MainBusy' => Main \in Range(ready) \cup Range(<<c>>)
      BY <1>c, <1>h, <1>q, <2>1, <2>2, MainSwitches
    <3> QED BY <1>c, <1>s, <3>1 DEF MainBusy
  <2>3. CASE ResumeNext(ready, <<>>)
    <3>1. /\ Once(ready', Main) /\ (active' = Main => Main \notin Range(ready'))
          /\ MainBusy' => Main \in Range(ready) \cup Range(<<>>)
      BY <1>e, <1>h, <1>q, <2>1, <2>3, MainSwitches
    <3> QED BY <1>e, <3>1 DEF MainBusy
  <2> QED BY <1>s, <2>2, <2>3
<1>a. ASSUME NEW c \in Contexts, Once(ready, Main), c = Main => Main \notin Range(ready)
      PROVE  Once(ready \o <<c>>, Main) /\ Range(ready \o <<c>>) = Range(ready) \cup {c}
  <2> DEFINE one == <<c>>
  <2>1. one \in Seq(Contexts) /\ Range(one) = {c} /\ Once(one, Main)
    BY <1>c
  <2> HIDE DEF one
  <2>2. Range(ready \o one) = Range(ready) \cup {c} /\ Once(ready \o one, Main)
    BY <1>a, <1>q, <2>1, ConcatApart, ConcatOnce
  <2> QED BY <2>2 DEF one
<1>1. ASSUME NEW c \in Fibers, NEW w \in Workers, Post(c, w)  PROVE MainInOnePlace'
  <2>1. /\ InUserCode(c) /\ ready' = ready \o <<w>>
        /\ UNCHANGED <<active, waitList, cond, shutdown, loop>>
    BY <1>1 DEF Post, Awakened, loopVars
  <2>2. MainInOnePlace /\ active = c /\ loop # "left"
    BY <2>1, MainUserCode
  <2>3. Once(ready', Main) /\ Range(ready') = Range(ready) \cup {w}
    BY <1>a, <2>1, <2>2, Names DEF MainInOnePlace
  <2>4. (active' = Main => Main \notin Range(ready')) /\ (MainBusy' => MainBusy)
    BY <2>1, <2>2, <2>3, Names DEF MainBusy, MainInOnePlace
  <2>5. /\ Once(cond', Main) /\ (Main \in Range(cond') => Main \in Range(cond))
        /\ \A v \in Workers : /\ Once(waitList'[v], Main)
                              /\ Main \in Range(waitList'[v]) => Main \in Range(waitList[v])
    BY <2>1, <2>2 DEF MainInOnePlace
  <2> QED BY <2>1, <2>2, <2>3, <2>4, <2>5, MainStays
<1>2. ASSUME NEW c \in Fibers, NEW w \in Workers, Dispatch(c, w)  PROVE MainInOnePlace'
  <2>1. /\ InUserCode(c) /\ active' = w /\ ready' = ready \o <<c>>
        /\ UNCHANGED <<waitList, cond, shutdown, loop>>
    BY <1>2 DEF Dispatch, Awakened, loopVars
  <2>2. /\ MainInOnePlace /\ active = c /\ loop # "left"
        /\ c = Main => Main \notin Range(ready)
    BY <2>1, MainUserCode
  <2>3. Once(ready', Main) /\ Range(ready') = Range(ready) \cup {c}
    BY <1>a, <2>1, <2>2, Names DEF MainInOnePlace
  <2>4. (active' = Main => Main \notin Range(ready')) /\ (MainBusy' => MainBusy)
    BY <2>1, <2>2, <2>3, Names DEF MainBusy
  <2>5. /\ Once(cond', Main) /\ (Main \in Range(cond') => Main \in Range(cond))
        /\ \A v \in Workers : /\ Once(waitList'[v], Main)
                              /\ Main \in Range(waitList'[v]) => Main \in Range(waitList[v])
    BY <2>1, <2>2 DEF MainInOnePlace
  <2> QED BY <2>1, <2>2, <2>3, <2>4, <2>5, MainStays
<1>3. ASSUME NEW c \in Fibers,
             Yield(c) \/ \E d \in Delays : WaitUntil(c, d)
      PROVE  MainInOnePlace'
  <2>1. /\ InUserCode(c) /\ ResumeNext(ready, <<c>>)
        /\ UNCHANGED <<waitList, cond, shutdown, loop>>
    BY <1>3 DEF Yield, WaitUntil, waitVars, loopVars
  <2>2. GoesOn /\ MainInOnePlace /\ active = c /\ loop # "left"
    BY <2>1, MainUserCode
  <2>3. /\ Once(ready', Main) /\ (active' = Main => Main \notin Range(ready'))
        /\ MainBusy' => MainBusy
    BY <1>s, <2>1, <2>2, Names
  <2>4. /\ Once(cond', Main) /\ (Main \in Range(cond') => Main \in Range(cond))
        /\ \A v \in Workers : /\ Once(waitList'[v], Main)
                              /\ Main \in Range(waitList'[v]) => Main \in Range(waitList[v])
    BY <2>1, <2>2 DEF MainInOnePlace
  <2> QED BY <2>1, <2>2, <2>3, <2>4, MainStays
<1>4. ASSUME NEW c \in Fibers, NEW w \in Workers, JoinWait(c, w)  PROVE MainInOnePlace'
  <2>1. /\ InUserCode(c) /\ ResumeNext(ready, <<>>)
        /\ waitList' = [waitList EXCEPT ![w] = Append(@, c)]
        /\ UNCHANGED <<cond, shutdown, loop>>
    BY <1>4 DEF JoinWait, MayJoin, loopVars
  <2>2. /\ GoesOn /\ MainInOnePlace /\ active = c /\ loop # "left"
        /\ c = Main => ~shutdown /\ Main \notin Range(ready) /\ Main \notin Range(cond)
                       /\ \A v \in Workers : Main \notin Range(waitList[v])
    BY <2>1, MainUserCode
  <2>3. /\ Once(ready', Main) /\ (active' = Main => Main \notin Range(ready'))
        /\ MainBusy' => MainBusy
    BY <1>s, <2>1, <2>2, Names
  <2>4. /\ waitList'[w] = Append(waitList[w], c)
        /\ \A v \in Workers : v # w => waitList'[v] = waitList[v]
    BY <1>q, <2>1
  <2>5. /\ Range(waitList'[w]) = Range(waitList[w]) \cup {c}
        /\ Once(waitList'[w], Main)
    BY <1>q, <2>2, <2>4, AppendApart, AppendOnce DEF MainInOnePlace
  <2>6. \A v \in Workers : Once(waitList'[v], Main)
    BY <2>2, <2>4, <2>5 DEF MainInOnePlace
  <2>7. CASE c = Main
    <3>1. ~MainBusy'
      <4>1. MainBusy' => Main \in Range(ready) \cup Range(<<>>)
        BY <1>e, <1>h, <1>q, <2>1, <2>2, MainSwitches DEF MainInOnePlace
      <4> QED BY <1>e, <2>2, <2>7, <4>1
    <3>2. \A v \in Workers : Main \in Range(waitList'[v]) => v = w
      BY <2>2, <2>4, <2>7
    <3>3. ~shutdown' /\ loop' # "left" /\ Main \notin Range(cond') /\ Once(cond', Main)
      BY <2>1, <2>2, <2>7 DEF MainInOnePlace
    <3> QED BY <2>3, <2>6, <3>1, <3>2, <3>3 DEF MainInOnePlace
  <2>8. CASE c # Main
    <3>1. \A v \in Workers : Main \in Range(waitList'[v]) => Main \in Range(waitList[v])
      BY <2>4, <2>5, <2>8
    <3>2. Once(cond', Main) /\ (Main \in Range(cond') => Main \in Range(cond))
      BY <2>1, <2>2 DEF MainInOnePlace
    <3> QED BY <2>1, <2>2, <2>3, <2>6, <3>1, <3>2, MainStays
  <2> QED BY <2>7, <2>8
<1>5. ASSUME NEW c \in Fibers, CondWait(c)  PROVE MainInOnePlace'
  <2>1. /\ InUserCode(c) /\ ResumeNext(ready, <<>>)
        /\ cond' = Append(cond, c)
        /\ UNCHANGED <<waitList, shutdown, loop>>
    BY <1>5 DEF CondWait, loopVars
  <2>2. /\ GoesOn /\ MainInOnePlace /\ active = c /\ loop # "left"
        /\ c = Main => ~shutdown /\ Main \notin Range(ready) /\ Main \notin Range(cond)
                       /\ \A v \in Workers : Main \notin Range(waitList[v])
    BY <2>1, MainUserCode
  <2>3. /\ Once(ready', Main) /\ (active' = Main => Main \notin Range(ready'))
        /\ MainBusy' => MainBusy
    BY <1>s, <2>1, <2>2, Names
  <2>4. Range(cond') = Range(cond) \cup {c} /\ Once(cond', Main)
    BY <1>q, <2>1, <2>2, AppendApart, AppendOnce DEF MainInOnePlace
  <2>5. \A v \in Workers : Once(waitList'[v], Main)
    BY <2>1, <2>2 DEF MainInOnePlace
  <2>6. CASE c = Main
    <3>1. ~MainBusy'
      <4>1. MainBusy' => Main \in Range(ready) \cup Range(<<>>)
        BY <1>e, <1>h, <1>q, <2>1, <2>2, MainSwitches DEF MainInOnePlace
      <4> QED BY <1>e, <2>2, <2>6, <4>1
    <3>2. \A v \in Workers : Main \notin Range(waitList'[v])
      BY <2>1, <2>2, <2>6
    <3>3. ~shutdown' /\ loop' # "left"
      BY <2>1, <2>2, <2>6
    <3> QED BY <2>3, <2>4, <2>5, <3>1, <3>2, <3>3 DEF MainInOnePlace
  <2>7. CASE c # Main
    <3>1. Main \in Range(cond') => Main \in Range(cond)
      BY <2>4, <2>7
    <3>2. \A v \in Workers : Main \in Range(waitList'[v]) => Main \in Range(waitList[v])
      BY <2>1
    <3> QED BY <2>1, <2>2, <2>3, <2>4, <2>5, <3>1, <3>2, MainStays
  <2> QED BY <2>6, <2>7
<1>6. ASSUME NEW c \in Fibers, NotifyOne(c) \/ NotifyAll(c)  PROVE MainInOnePlace'
  <2>1. /\ InUserCode(c) /\ cond # <<>>
        /\ \/ cond' = Tail(cond) /\ ready' = ready \o <<Head(cond)>>
           \/ cond' = <<>> /\ ready' = ready \o cond
        /\ UNCHANGED <<active, waitList, shutdown, loop>>
    BY <1>6 DEF NotifyOne, NotifyAll, Awakened, loopVars
  <2>2. MainInOnePlace /\ loop # "left"
    BY <2>1, MainUserCode
  <2>3. PICK woken \in Seq(Contexts) :
          /\ ready' = ready \o woken /\ Once(woken, Main) /\ Once(cond', Main)
          /\ Range(cond) = Range(cond') \cup Range(woken)
          /\ Main \notin Range(cond') \cap Range(woken)
    <3>0. Once(cond, Main)
      BY <2>2 DEF MainInOnePlace
    <3>1. CASE cond' = Tail(cond) /\ ready' = ready \o <<Head(cond)>>
      <4>1. /\ Head(cond) \in Contexts /\ Range(cond) = Range(Tail(cond)) \cup {Head(cond)}
            /\ Once(Tail(cond), Main)
            /\ Head(cond) = Main => Main \notin Range(Tail(cond))
        BY <1>q, <2>1, <3>0, TailApart, TailOnce
      <4>2. <<Head(cond)>> \in Seq(Contexts) /\ Range(<<Head(cond)>>) = {Head(cond)}
            /\ Once(<<Head(cond)>>, Main)
        BY <1>c, <4>1
      <4> QED BY <3>1, <4>1, <4>2
    <3>2. CASE cond' = <<>> /\ ready' = ready \o cond
      BY <1>e, <1>q, <3>0, <3>2
    <3> QED BY <2>1, <3>1, <3>2
  <2>4. Main \in Range(woken) => ~MainBusy
    BY <2>2, <2>3 DEF MainInOnePlace
  <2>5. Once(ready', Main) /\ Range(ready') = Range(ready) \cup Range(woken)
    BY <1>q, <2>2, <2>3, <2>4, ConcatApart, ConcatOnce DEF MainInOnePlace, MainBusy
  <2>6. active' = Main => Main \notin Range(ready')
    BY <2>1, <2>2, <2>4, <2>5 DEF MainInOnePlace, MainBusy
  <2>7. \A v \in Workers : Once(waitList'[v], Main)
    BY <2>1, <2>2 DEF MainInOnePlace
  <2>8. CASE Main \in Range(woken)
    <3>1. /\ Main \notin Range(cond') /\ ~shutdown' /\ loop' # "left"
          /\ \A v \in Workers : Main \notin Range(waitList'[v])
      BY <2>1, <2>2, <2>3, <2>8 DEF MainInOnePlace
    <3> QED BY <2>3, <2>5, <2>6, <2>7, <3>1, MainIsWoken
  <2>9. CASE Main \notin Range(woken)
    <3>1. /\ MainBusy' => MainBusy
          /\ Main \in Range(cond') => Main \in Range(cond)
          /\ \A v \in Workers : Main \in Range(waitList'[v]) => Main \in Range(waitList[v])
      BY <2>1, <2>3, <2>5, <2>9 DEF MainBusy
    <3> QED BY <2>1, <2>2, <2>3, <2>5, <2>6, <2>7, <3>1, MainStays
  <2> QED BY <2>8, <2>9
<1>7. ASSUME NEW w \in Workers, Terminate(w)  PROVE MainInOnePlace'
  <2> DEFINE list == waitList[w]
             q == ready \o list
  <2>1. /\ InUserCode(w) /\ ResumeNext(q, <<>>)
        /\ waitList' = [waitList EXCEPT ![w] = <<>>]
        /\ UNCHANGED <<cond, shutdown, loop>>
    BY <1>7 DEF Terminate, EndFiber, Awakened, loopVars
  <2>2. MainInOnePlace /\ active = w /\ loop # "left"
    BY <2>1, Names, MainUserCode
  <2>3. /\ waitList'[w] = <<>>
        /\ \A v \in Workers : v # w => waitList'[v] = waitList[v]
    BY <1>q, <2>1
  <2>4. list \in Seq(Contexts) /\ Once(list, Main) /\ (Main \in Range(list) => ~MainBusy)
    BY <1>q, <2>2 DEF MainInOnePlace
  <2> HIDE DEF list
  <2>5. /\ q \in Seq(Contexts) /\ Once(q, Main)
        /\ Range(q) = Range(ready) \cup Range(list)
    BY <1>q, <2>2, <2>4, ConcatApart, ConcatOnce DEF MainInOnePlace, MainBusy
  <2> HIDE DEF q
  <2>6. /\ Once(ready', Main) /\ (active' = Main => Main \notin Range(ready'))
        /\ MainBusy' => Main \in Range(q) \cup Range(<<>>)
    BY <1>e, <1>h, <2>1, <2>5, MainSwitches
  <2>7. /\ Once(cond', Main)
        /\ \A v \in Workers : Once(waitList'[v], Main)
    BY <1>e, <2>1, <2>2, <2>3 DEF MainInOnePlace
  <2>8. CASE Main \in Range(list)
    <3>1. /\ Main \notin Range(cond) /\ ~shutdown
          /\ \A v \in Workers : Main \in Range(waitList[v]) => v = w
      BY <2>2, <2>8 DEF MainInOnePlace, list
    <3>2. \A v \in Workers : Main \notin Range(waitList'[v])
      BY <1>e, <2>3, <3>1
    <3> QED BY <2>1, <2>2, <2>6, <2>7, <3>1, <3>2, MainIsWoken
  <2>9. CASE Main \notin Range(list)
    <3>1. MainBusy' => MainBusy
      BY <1>e, <2>5, <2>6, <2>9 DEF MainBusy
    <3>2. \A v \in Workers : Main \in Range(waitList'[v]) => Main \in Range(waitList[v])
      BY <1>e, <2>3
    <3> QED BY <2>1, <2>2, <2>6, <2>7, <3>1, <3>2, MainStays
  <2> QED BY <2>8, <2>9
<1>8. CASE DispatchTurn
  <2> DEFINE woken == SubSeq(sleepQueue, 1, Due)
             q == ready \o woken
  <2>1. /\ GoesOn /\ active = Dispatcher /\ loop = "run" /\ loop' # "left"
        /\ UNCHANGED <<cond, waitList, shutdown>>
        /\ \/ q = <<>> /\ UNCHANGED <<active, ready>>
           \/ ResumeNext(q, <<Dispatcher>>)
    BY <1>8, Names DEF DispatchTurn, GoesOn, Exited, Awakened, ResumeNext, waitVars
  <2>2. MainInOnePlace
    BY <2>1
  <2>3. woken \in Seq(Contexts) /\ Main \notin Range(woken) /\ Once(woken, Main)
    <3>1. /\ Due \in 0 .. Len(sleepQueue) /\ Len(sleepQueue) \in Nat
          /\ \A i \in 1 .. Len(sleepQueue) : sleepQueue[i] \in Sleepers
      BY DueIsPrefix DEF SleepersOnly
    <3>2. woken \in Seq(Sleepers)
      BY <3>1, SubSeqProperties
    <3>3. woken \in Seq(Contexts)
      BY <3>2, ProgramAssumption, Names
    <3> HIDE DEF woken
    <3>4. Main \notin Range(woken)
      BY <3>2 DEF Range
    <3> QED BY <3>3, <3>4 DEF Once, Range
  <2> HIDE DEF woken
  <2>4. /\ q \in Seq(Contexts) /\ Once(q, Main)
        /\ Range(q) = Range(ready) \cup Range(woken)
    BY <1>q, <2>2, <2>3, ConcatApart, ConcatOnce DEF MainInOnePlace
  <2> HIDE DEF q
  <2>5. /\ Once(ready', Main) /\ (active' = Main => Main \notin Range(ready'))
        /\ MainBusy' => MainBusy
    <3>1. CASE ResumeNext(q, <<Dispatcher>>)
      <4>1. <<Dispatcher>> \in Seq(Contexts) /\ Range(<<Dispatcher>>) = {Dispatcher}
            /\ Once(<<Dispatcher>>, Main) /\ Main # Dispatcher
        BY <1>c, Names
      <4>2. /\ Once(ready', Main) /\ (active' = Main => Main \notin Range(ready'))
            /\ MainBusy' => Main \in Range(q) \cup Range(<<Dispatcher>>)
        BY <1>h, <2>4, <3>1, <4>1, MainSwitches
      <4> QED BY <2>3, <2>4, <4>1, <4>2 DEF MainBusy
    <3>2. CASE UNCHANGED <<active, ready>>
      BY <2>2, <3>2 DEF MainInOnePlace, MainBusy
    <3> QED BY <2>1, <3>1, <3>2
  <2>6. /\ Once(cond', Main) /\ (Main \in Range(cond') => Main \in Range(cond))
        /\ \A v \in Workers : /\ Once(waitList'[v], Main)
                              /\ Main \in Range(waitList'[v]) => Main \in Range(waitList[v])
    BY <2>1, <2>2 DEF MainInOnePlace
  <2> QED BY <2>1, <2>2, <2>5, <2>6, MainStays
<1>9. CASE DispatchReturn
  <2>1. /\ GoesOn /\ active = Dispatcher /\ loop = "run" /\ loop' = "left"
        /\ shutdown /\ shutdown' /\ workerQueue' = {} /\ terminatedQueue' = {}
        /\ active' = Main /\ ready' = ready \o <<>>
        /\ UNCHANGED <<cond, waitList>>
    BY <1>9, <1>h, Names
    DEF DispatchReturn, Resume, Awakened, GoesOn, Exited, waitVars
  <2>2. ready' = ready
    BY <1>q, <2>1, ConcatEmptySeq
  <2>3. MainInOnePlace /\ Main \notin Range(ready)
    BY <2>1 DEF MainInOnePlace, MainBusy
  <2> QED BY <2>1, <2>2, <2>3 DEF MainInOnePlace
<1>10. CASE ShutDown
  <2>1. /\ InUserCode(Main) /\ ResumeNext(ready, <<>>) /\ shutdown'
        /\ UNCHANGED <<waitList, cond, loop>>
    BY <1>10 DEF ShutDown, waitVars
  <2>2. /\ GoesOn /\ MainInOnePlace /\ active = Main /\ loop # "left"
        /\ Main \notin Range(ready) /\ Main \notin Range(cond)
        /\ \A v \in Workers : Main \notin Range(waitList[v])
    BY <2>1, Names, MainUserCode
  <2>3. /\ Once(ready', Main) /\ (active' = Main => Main \notin Range(ready'))
        /\ MainBusy' => Main \in Range(ready) \cup Range(<<>>)
    BY <1>e, <1>h, <1>q, <2>1, <2>2, MainSwitches DEF MainInOnePlace
  <2>4. ~MainBusy'
    BY <1>e, <2>2, <2>3
  <2> QED BY <2>1, <2>2, <2>3, <2>4 DEF MainInOnePlace
<1>11. CASE SuspendUntilReturns \/ Tick
            \/ \E c \in Fibers : JoinReturn(c) \/ \E w \in Workers : JoinTerminated(c, w) \/ Detach(c, w)
  <2>1. /\ GoesOn /\ UNCHANGED <<active, ready, workerQueue, terminatedQueue, cond, waitList, shutdown>>
        /\ UNCHANGED loop \/ (loop = "idle" /\ loop' = "run")
    BY <1>11, Names
    DEF SuspendUntilReturns, Tick, JoinReturn, JoinTerminated, Detach, MayJoin,
        InUserCode, GoesOn, Exited, queueVars, waitVars, loopVars
  <2> QED BY <2>1 DEF MainInOnePlace, MainBusy
<1>12. CASE ShutDownReturn \/ (\E w \in Workers : TerminateBlocked(w))
            \/ \E c \in Fibers : \E w \in Workers : LaunchBlocked(c, w)
  <2>1. ~GoesOn'
    BY <1>12 DEF ShutDownReturn, TerminateBlocked, LaunchBlocked, GoesOn, Exited
  <2> QED BY <2>1
<1> QED
  BY <1>1, <1>2, <1>3, <1>4, <1>5, <1>6, <1>7, <1>8, <1>9, <1>10, <1>11, <1>12
  DEF Next, Step

\* However long other fibers sleep, ~Scheduler goes on only when Dispatch has
\* left its loop and no worker and no terminated fiber is left, if the main
\* context itself never sleeps.
THEOREM QueuesEndEmpty ==
  ASSUME Main \notin Sleepers
  PROVE  Spec => []DestructorFindsQueuesEmpty
<1> DEFINE J == TypeOK /\ SleepersOnly /\ (GoesOn => MainInOnePlace)
<1>1. Init => J
  <2> SUFFICES ASSUME Init  PROVE SleepersOnly /\ MainInOnePlace
    BY TypeInit
  <2>1. /\ <<>> \in Seq(Sleepers) /\ Range(<<>>) = {} /\ Once(<<>>, Main)
        /\ Range(<<Dispatcher>>) = {Dispatcher} /\ Once(<<Dispatcher>>, Main)
    BY EmptyQueue DEF Range, Once
  <2> QED
    BY <2>1, Names DEF Init, SleepersOnly, MainInOnePlace, MainBusy
<1>2. J /\ [Next]_vars => J'
  <2> SUFFICES ASSUME J, [Next]_vars, GoesOn'  PROVE MainInOnePlace'
    BY TypeStep, SleepersOnlyStep
  <2>1. CASE Next
    BY <2>1, MainInOnePlaceStep
  <2>2. CASE UNCHANGED vars
    BY <2>2
    DEF MainInOnePlace, MainBusy, GoesOn, Exited, vars, queueVars, waitVars, loopVars
  <2> QED BY <2>1, <2>2
<1>3. J => DestructorFindsQueuesEmpty
  BY DEF DestructorFindsQueuesEmpty, MainInOnePlace, MainBusy
<1> QED
  BY <1>1, <1>2, <1>3, PTL DEF Spec

-----------------------------------------------------------------------------
(***************************************************************************)
(* The inductive invariant, for programs that never sleep.                 *)
(***************************************************************************)
\* What a fiber that runs its own code may rely on.
LEMMA UserCode ==
  ASSUME Inv, NEW c \in Fibers, InUserCode(c)
  PROVE  /\ GoesOn /\ Places
         /\ active = c /\ c \in Live /\ c \notin terminated
         /\ c \notin Range(ready) /\ c \notin Waiting
         /\ loop = "run" /\ Dispatcher \in Range(ready) /\ ready # <<>>
         /\ c = Main => ~shutdown
<1>1. GoesOn /\ active = c /\ (c = Main => ~shutdown)
  BY Names DEF InUserCode, GoesOn, Exited
<1>2. Places
  BY <1>1 DEF Inv
<1>3. c \in Live /\ c \notin Range(ready) /\ c \notin Waiting
  BY <1>1, <1>2
  DEF Places, OthersAreSaved, ReadyIsApart, CondIsApart, WaitListsAreApart, Waiting
<1>4. c \notin terminated
  BY <1>3, Names DEF Live, Inv, TypeOK
<1>5. loop = "run"
  BY <1>1, <1>2, Names DEF Places, DispatcherIsNear, MainIsParked, Inv, TypeOK
<1>6. Dispatcher \in Range(ready)
  BY <1>1, <1>2, <1>5, Names DEF Places, DispatcherIsNear
<1>7. ready # <<>>
  BY <1>6, EmptyQueue
<1> QED
  BY <1>1, <1>2, <1>3, <1>4, <1>5, <1>6, <1>7

\* A switch to the head of a queue of live contexts that do not run.
LEMMA GoodSwitch ==
  ASSUME TypeOK, Places,
         NEW q \in Seq(Contexts), q # <<>>, IsInjective(q),
         Range(q) \subseteq Live \ {active},
         NEW back \in Seq(Contexts), IsInjective(back),
         Range(back) \cap Range(q) = {},
         ResumeNext(q, back)
  PROVE  /\ active' \in Range(q) /\ halted' = halted
         /\ saved' = [saved EXCEPT ![active] = TRUE, ![active'] = FALSE]
         /\ IsInjective(ready')
         /\ Range(ready') = (Range(q) \ {active'}) \cup Range(back)
<1> DEFINE n == Head(q)
<1>1. /\ n \in Contexts /\ Tail(q) \in Seq(Contexts)
      /\ Range(q) = Range(Tail(q)) \cup {n}
      /\ IsInjective(Tail(q)) /\ n \notin Range(Tail(q))
  BY TailApart
<1>2. Resumable(n)
  <2>1. n \in Live /\ n # active
    BY <1>1
  <2>2. n \notin terminated
    BY <2>1, Names DEF Live, TypeOK
  <2> QED
    BY <2>1, <2>2 DEF Places, OthersAreSaved, Resumable
<1>3. /\ active' = n /\ halted' = halted /\ ready' = Tail(q) \o back
      /\ saved' = [saved EXCEPT ![active] = TRUE, ![n] = FALSE]
  BY <1>2 DEF ResumeNext, Resume, Awakened
<1>4. /\ Range(Tail(q) \o back) = Range(Tail(q)) \cup Range(back)
      /\ IsInjective(Tail(q) \o back)
  <2> DEFINE t == Tail(q)
  <2>1. t \in Seq(Contexts) /\ IsInjective(t) /\ Range(t) \cap Range(back) = {}
    BY <1>1
  <2> HIDE DEF t
  <2>2. /\ Range(t \o back) = Range(t) \cup Range(back)
        /\ IsInjective(t \o back)
    BY <2>1, ConcatApart
  <2> QED BY <2>2 DEF t
<1>5. Range(Tail(q)) = Range(q) \ {n} /\ n \in Range(q)
  BY <1>1
<1> QED
  BY <1>3, <1>4, <1>5

\* A step that moves no context keeps the invariant.
LEMMA QuietStep ==
  ASSUME Inv, TypeOK',
         UNCHANGED <<active, saved, ready, cond, waitList, queueVars,
                     shutdown, loop, sleepQueue, halted>>,
         \A w \in Workers : Created(w)' <=> Created(w),
         \A c \in Fibers : joining'[c] \in {joining[c], NoOne}
  PROVE  Inv'
<1>1. Live' = Live /\ GoesOn' = GoesOn
  BY DEF Live, GoesOn, Exited, queueVars
<1>2. NoSleep' /\ HaltsOnlyOnMutex' /\ NobodyWaitsForTheDead'
      /\ OnlyMadeFibersEnd' /\ SavedOnlyIfMade'
  BY DEF Inv, NoSleep, HaltsOnlyOnMutex, NobodyWaitsForTheDead,
         OnlyMadeFibersEnd, SavedOnlyIfMade, queueVars, TypeOK
<1>3. ASSUME GoesOn  PROVE Places'
  <2>1. Places
    BY <1>3 DEF Inv
  <2>2. OthersAreSaved' /\ ReadyIsApart' /\ CondIsApart' /\ WaitListsAreApart'
    BY <1>1, <2>1
    DEF Places, OthersAreSaved, ReadyIsApart, CondIsApart, WaitListsAreApart
  <2>3. DispatcherIsNear'
    BY <2>1 DEF Places, DispatcherIsNear
  <2>4. MainIsParked'
    BY <2>1, Names DEF Places, MainIsParked, queueVars, Waiting
  <2>5. JoinersWaitOrAreWoken'
    BY <2>1, Names DEF Places, JoinersWaitOrAreWoken, queueVars
  <2>6. NoContextIsLost'
    BY <1>1, <2>1 DEF Places, NoContextIsLost, WaitsIn, Parked
  <2> QED
    BY <2>2, <2>3, <2>4, <2>5, <2>6 DEF Places
<1> QED
  BY <1>1, <1>2, <1>3 DEF Inv

\* A switch leaves a continuation only with the context it suspends.
LEMMA SavedStep ==
  ASSUME TypeOK, SavedOnlyIfMade, active \in Live,
         NEW n \in Contexts,
         saved' = [saved EXCEPT ![active] = TRUE, ![n] = FALSE],
         \A w \in Workers : Created(w) => Created(w)'
  PROVE  SavedOnlyIfMade'
<1> SUFFICES ASSUME NEW w \in Workers, saved'[w]  PROVE Created(w)
  BY DEF SavedOnlyIfMade
<1>1. saved[w] \/ w = active
  BY Names DEF TypeOK
<1> QED
  BY <1>1, Names DEF SavedOnlyIfMade, Live

LEMMA SwitchSaves ==
  ASSUME TypeOK, OthersAreSaved, Live' = Live, active' \in Live \ {active},
         saved' = [saved EXCEPT ![active] = TRUE, ![active'] = FALSE]
  PROVE  OthersAreSaved'
<1>1. \A c \in Live : saved'[c] = IF c = active' THEN FALSE
                                 ELSE IF c = active THEN TRUE ELSE saved[c]
  BY Names DEF TypeOK
<1> QED
  BY <1>1 DEF OthersAreSaved

\* Scheduler::Suspend: the thread goes to the head of the ready queue.
LEMMA Suspension ==
  ASSUME Inv, Places, ready # <<>>, ResumeNext(ready, <<>>)
  PROVE  /\ active' \in Range(ready) /\ halted' = halted
         /\ saved' = [saved EXCEPT ![active] = TRUE, ![active'] = FALSE]
         /\ IsInjective(ready')
         /\ Range(ready') = Range(ready) \ {active'}
<1>1. IsInjective(ready) /\ Range(ready) \subseteq Live \ {active}
      /\ ready \in Seq(Contexts) /\ TypeOK
  BY DEF Places, ReadyIsApart, Inv, TypeOK
<1>2. <<>> \in Seq(Contexts) /\ Range(<<>>) = {} /\ IsInjective(<<>>)
  BY EmptyQueue
<1>3. Range(<<>>) \cap Range(ready) = {}
  BY <1>2
<1>4. Range(ready') = (Range(ready) \ {active'}) \cup Range(<<>>)
      /\ active' \in Range(ready) /\ halted' = halted /\ IsInjective(ready')
      /\ saved' = [saved EXCEPT ![active] = TRUE, ![active'] = FALSE]
  BY <1>1, <1>2, <1>3, GoodSwitch
<1> QED
  BY <1>2, <1>4

LEMMA OneContext ==
  ASSUME NEW c \in Contexts
  PROVE  <<c>> \in Seq(Contexts) /\ Range(<<c>>) = {c} /\ IsInjective(<<c>>)
BY DEF Range, IsInjective

LEMMA PostKeeps ==
  ASSUME Inv, TypeOK', NEW c \in Fibers, NEW w \in Workers, Post(c, w)
  PROVE  Inv'
<1>1. /\ GoesOn /\ Places /\ active = c /\ c \in Live /\ loop = "run"
      /\ Dispatcher \in Range(ready)
  BY UserCode DEF Post
<1>2. /\ ~Created(w) /\ w \notin terminated /\ w \notin Live
      /\ Live' = Live \cup {w} /\ terminated' = terminated
      /\ \A v \in Workers : Created(v) => Created(v)'
  BY Names DEF Post, Created, Live, Inv, OnlyMadeFibersEnd, TypeOK
<1>3. ready' = Append(ready, w)
  BY DEF Post, Awakened, Inv, TypeOK
<1>4. Range(ready') = Range(ready) \cup {w} /\ IsInjective(ready')
  BY <1>1, <1>2, <1>3, Names, AppendApart DEF Places, ReadyIsApart, Inv, TypeOK
<1>5. /\ UNCHANGED <<active, cond, waitList, joining, shutdown, loop, halted, sleepQueue>>
      /\ saved' = [saved EXCEPT ![w] = TRUE] /\ terminatedQueue' = terminatedQueue
  BY DEF Post, loopVars, sleepVars
<1>6. OthersAreSaved'
  BY <1>1, <1>2, <1>5, Names DEF Places, OthersAreSaved, Inv, TypeOK
<1>7. ReadyIsApart'
  BY <1>1, <1>2, <1>4, <1>5 DEF Places, ReadyIsApart
<1>8. CondIsApart' /\ WaitListsAreApart'
  BY <1>1, <1>2, <1>4, <1>5 DEF Places, CondIsApart, WaitListsAreApart
<1>9. DispatcherIsNear' /\ MainIsParked'
  BY <1>1, <1>4, <1>5, Names DEF Places, DispatcherIsNear, MainIsParked, Waiting
<1>10. JoinersWaitOrAreWoken' /\ NoContextIsLost'
  BY <1>1, <1>2, <1>4, <1>5
  DEF Places, JoinersWaitOrAreWoken, NoContextIsLost, WaitsIn, Parked
<1>11. NobodyWaitsForTheDead' /\ OnlyMadeFibersEnd' /\ SavedOnlyIfMade'
  <2>1. Created(w)'
    BY DEF Post, Created, Inv, TypeOK
  <2> QED
    BY <1>2, <1>5, <2>1
    DEF Inv, NobodyWaitsForTheDead, OnlyMadeFibersEnd, SavedOnlyIfMade, TypeOK
<1> QED
  BY <1>5, <1>6, <1>7, <1>8, <1>9, <1>10, <1>11
  DEF Inv, Places, NoSleep, HaltsOnlyOnMutex

LEMMA DispatchKeeps ==
  ASSUME Inv, TypeOK', NEW c \in Fibers, NEW w \in Workers, Dispatch(c, w)
  PROVE  Inv'
<1>1. /\ GoesOn /\ Places /\ active = c /\ c \in Live /\ loop = "run"
      /\ Dispatcher \in Range(ready) /\ c \notin Range(ready) /\ c \notin Waiting
      /\ c = Main => ~shutdown
  BY UserCode DEF Dispatch
<1>2. /\ ~Created(w) /\ w \notin terminated /\ w \notin Live
      /\ Live' = Live \cup {w} /\ terminated' = terminated
      /\ \A v \in Workers : Created(v) => Created(v)'
  BY Names DEF Dispatch, Created, Live, Inv, OnlyMadeFibersEnd, TypeOK
<1>3. ready' = Append(ready, c)
  BY DEF Dispatch, Awakened, Inv, TypeOK
<1>4. Range(ready') = Range(ready) \cup {c} /\ IsInjective(ready')
  BY <1>1, <1>3, Names, AppendApart DEF Places, ReadyIsApart, Inv, TypeOK
<1>5. /\ UNCHANGED <<cond, waitList, joining, shutdown, loop, halted, sleepQueue>>
      /\ saved' = [saved EXCEPT ![c] = TRUE] /\ terminatedQueue' = terminatedQueue
      /\ active' = w
  BY DEF Dispatch, loopVars, sleepVars
<1>6. OthersAreSaved'
  <2>1. ~saved[w]
    BY <1>2 DEF Inv, SavedOnlyIfMade
  <2> QED
    BY <1>1, <1>2, <1>5, <2>1, Names DEF Places, OthersAreSaved, Inv, TypeOK
<1>7. ReadyIsApart'
  BY <1>1, <1>2, <1>4, <1>5 DEF Places, ReadyIsApart
<1>8. CondIsApart' /\ WaitListsAreApart'
  BY <1>1, <1>2, <1>4, <1>5 DEF Places, CondIsApart, WaitListsAreApart, Waiting
<1>9. DispatcherIsNear' /\ MainIsParked'
  BY <1>1, <1>4, <1>5, Names DEF Places, DispatcherIsNear, MainIsParked, Waiting
<1>10. JoinersWaitOrAreWoken' /\ NoContextIsLost'
  BY <1>1, <1>2, <1>4, <1>5
  DEF Places, JoinersWaitOrAreWoken, NoContextIsLost, WaitsIn, Parked
<1>11. NobodyWaitsForTheDead' /\ OnlyMadeFibersEnd' /\ SavedOnlyIfMade'
  <2>2. c \in Workers => Created(c)
    BY <1>1, Names DEF Live
  <2>3. \A v \in Workers : saved'[v] => saved[v] \/ v = c
    BY <1>5, Names DEF Inv, TypeOK
  <2>4. SavedOnlyIfMade'
    BY <1>2, <2>2, <2>3 DEF Inv, SavedOnlyIfMade
  <2> QED
    BY <1>2, <1>5, <2>4 DEF Inv, NobodyWaitsForTheDead, OnlyMadeFibersEnd, TypeOK
<1> QED
  BY <1>5, <1>6, <1>7, <1>8, <1>9, <1>10, <1>11
  DEF Inv, Places, NoSleep, HaltsOnlyOnMutex

LEMMA YieldKeeps ==
  ASSUME Inv, TypeOK', NEW c \in Fibers, Yield(c)
  PROVE  Inv'
<1>1. /\ GoesOn /\ Places /\ active = c /\ c \in Live /\ loop = "run" /\ ready # <<>>
      /\ Dispatcher \in Range(ready) /\ c \notin Range(ready) /\ c \notin Waiting
      /\ c = Main => ~shutdown
  BY UserCode DEF Yield
<1>2. <<c>> \in Seq(Contexts) /\ Range(<<c>>) = {c} /\ IsInjective(<<c>>)
  BY OneContext, Names
<1>3. /\ active' \in Range(ready) /\ halted' = halted
      /\ saved' = [saved EXCEPT ![active] = TRUE, ![active'] = FALSE]
      /\ IsInjective(ready')
      /\ Range(ready') = (Range(ready) \ {active'}) \cup Range(<<c>>)
  <2>1. ResumeNext(ready, <<c>>) /\ ready \in Seq(Contexts)
    BY DEF Yield, Inv, TypeOK
  <2>2. IsInjective(ready) /\ Range(ready) \subseteq Live \ {active} /\ TypeOK
    BY <1>1 DEF Places, ReadyIsApart, Inv
  <2>3. Range(<<c>>) \cap Range(ready) = {}
    BY <1>1, <1>2
  <2> QED
    BY <1>1, <1>2, <2>1, <2>2, <2>3, GoodSwitch
<1>4. /\ UNCHANGED <<terminated, terminatedQueue, cond, waitList, handle, joining,
                     shutdown, loop, sleepQueue>>
      /\ Live' = Live
  BY DEF Yield, waitVars, loopVars, sleepVars, Live, Created
<1>5. OthersAreSaved' /\ ReadyIsApart'
  <2>1. active' \in Live \ {active} /\ active = c
    BY <1>1, <1>3 DEF Places, ReadyIsApart
  <2>2. \A x \in Live : saved'[x] = IF x = active' THEN FALSE
                                    ELSE IF x = active THEN TRUE ELSE saved[x]
    BY <1>1, <1>3, <2>1, Names DEF Inv, TypeOK
  <2>3. OthersAreSaved'
    BY <1>1, <1>4, <2>1, <2>2 DEF Places, OthersAreSaved
  <2>4. ReadyIsApart'
    BY <1>1, <1>2, <1>3, <1>4, <2>1 DEF Places, ReadyIsApart
  <2> QED
    BY <2>3, <2>4
<1>6. CondIsApart' /\ WaitListsAreApart'
  BY <1>1, <1>2, <1>3, <1>4 DEF Places, CondIsApart, WaitListsAreApart, Waiting
<1>7. DispatcherIsNear' /\ MainIsParked'
  BY <1>1, <1>2, <1>3, <1>4, Names DEF Places, DispatcherIsNear, MainIsParked, Waiting
<1>8. JoinersWaitOrAreWoken' /\ NoContextIsLost'
  BY <1>1, <1>2, <1>3, <1>4
  DEF Places, JoinersWaitOrAreWoken, NoContextIsLost, WaitsIn, Parked
<1>9. NobodyWaitsForTheDead' /\ OnlyMadeFibersEnd' /\ SavedOnlyIfMade'
  <2>1. SavedOnlyIfMade'
    BY <1>1, <1>3, <1>4, Names, SavedStep
    DEF Inv, Places, OthersAreSaved, ReadyIsApart, Created
  <2> QED
    BY <1>4, <2>1 DEF Inv, NobodyWaitsForTheDead, OnlyMadeFibersEnd, Created
<1> QED
  BY <1>3, <1>4, <1>5, <1>6, <1>7, <1>8, <1>9
  DEF Inv, Places, NoSleep, HaltsOnlyOnMutex

LEMMA JoinWaitKeeps ==
  ASSUME Inv, TypeOK', NEW c \in Fibers, NEW w \in Workers, JoinWait(c, w)
  PROVE  Inv'
<1>1. /\ GoesOn /\ Places /\ active = c /\ c \in Live /\ loop = "run" /\ ready # <<>>
      /\ Dispatcher \in Range(ready) /\ c \notin Range(ready) /\ c \notin Waiting
      /\ c = Main => ~shutdown
  BY UserCode DEF JoinWait, MayJoin
<1>2. /\ active' \in Range(ready) /\ halted' = halted
      /\ saved' = [saved EXCEPT ![active] = TRUE, ![active'] = FALSE]
      /\ IsInjective(ready')
      /\ Range(ready') = Range(ready) \ {active'}
  BY <1>1, Suspension DEF JoinWait
<1>3. /\ UNCHANGED <<terminated, workerQueue, terminatedQueue, cond, handle,
                     shutdown, loop, sleepQueue>>
      /\ Live' = Live
      /\ w \in Live /\ Created(w) /\ w \notin terminated
  BY DEF JoinWait, MayJoin, queueVars, loopVars, sleepVars, Live, Created
<1>4. /\ waitList' = [waitList EXCEPT ![w] = Append(waitList[w], c)]
      /\ joining' = [joining EXCEPT ![c] = w]
      /\ Range(waitList'[w]) = Range(waitList[w]) \cup {c}
      /\ IsInjective(waitList'[w])
      /\ \A v \in Workers \ {w} : waitList'[v] = waitList[v]
  <2>1. waitList' = [waitList EXCEPT ![w] = Append(waitList[w], c)]
        /\ joining' = [joining EXCEPT ![c] = w]
    BY DEF JoinWait
  <2>2. waitList'[w] = Append(waitList[w], c) /\ waitList[w] \in Seq(Fibers)
        /\ \A v \in Workers \ {w} : waitList'[v] = waitList[v]
    BY <2>1 DEF Inv, TypeOK
  <2>3. IsInjective(waitList[w]) /\ c \notin Range(waitList[w])
    BY <1>1 DEF Places, WaitListsAreApart, Waiting
  <2> QED
    BY <2>1, <2>2, <2>3, AppendApart
<1>5. OthersAreSaved' /\ ReadyIsApart'
  BY <1>1, <1>2, <1>3, Names
  DEF Places, OthersAreSaved, ReadyIsApart, Inv, TypeOK
<1>6. CondIsApart' /\ WaitListsAreApart'
  <2>1. CondIsApart'
    BY <1>1, <1>2, <1>3 DEF Places, CondIsApart, Waiting
  <2>2. c \in (Fibers \cap Live') \ {active'} /\ c \notin Range(ready') \cup Range(cond')
    BY <1>1, <1>2, <1>3 DEF Waiting
  <2>3. ASSUME NEW v \in Workers
        PROVE  /\ IsInjective(waitList'[v])
               /\ Range(waitList'[v]) \subseteq (Fibers \cap Live') \ {active'}
               /\ Range(waitList'[v]) \cap Range(ready') = {}
               /\ Range(waitList'[v]) \cap Range(cond') = {}
    <3>1. /\ IsInjective(waitList[v])
          /\ Range(waitList[v]) \subseteq (Fibers \cap Live) \ {active}
          /\ Range(waitList[v]) \cap Range(ready) = {}
          /\ Range(waitList[v]) \cap Range(cond) = {}
      BY <1>1 DEF Places, WaitListsAreApart
    <3> QED BY <1>2, <1>3, <1>4, <2>2, <3>1
  <2>4. ASSUME NEW v \in Workers, NEW u \in Workers, v # u
        PROVE  Range(waitList'[v]) \cap Range(waitList'[u]) = {}
    <3>1. Range(waitList[v]) \cap Range(waitList[u]) = {}
      BY <1>1, <2>4 DEF Places, WaitListsAreApart
    <3>2. c \notin Range(waitList[v]) \cup Range(waitList[u])
      BY <1>1 DEF Waiting
    <3> QED BY <1>4, <2>4, <3>1, <3>2
  <2> QED
    BY <2>1, <2>3, <2>4 DEF WaitListsAreApart
<1>7. DispatcherIsNear' /\ MainIsParked'
  <2>1. DispatcherIsNear'
    BY <1>1, <1>2, <1>3 DEF Places, DispatcherIsNear
  <2>2. shutdown => c # Main /\ joining'[Main] = NoOne /\ Main \notin Range(ready')
                    /\ Main \notin Waiting' /\ active' # Main
    BY <1>1, <1>2, <1>3, <1>4, Names DEF Places, MainIsParked, Waiting, Inv, TypeOK
  <2> QED
    BY <1>1, <1>3, <2>1, <2>2 DEF MainIsParked
<1>8. JoinersWaitOrAreWoken' /\ NoContextIsLost'
  <2>1. JoinersWaitOrAreWoken'
    BY <1>1, <1>3, <1>4 DEF Places, JoinersWaitOrAreWoken, Inv, TypeOK
  <2>2. \A x \in Contexts : WaitsIn(x) # {} => WaitsIn(x)' # {}
    BY <1>4 DEF WaitsIn
  <2>3. WaitsIn(c)' # {}
    BY <1>4 DEF WaitsIn
  <2>4. NoContextIsLost'
    BY <1>1, <1>2, <1>3, <2>2, <2>3, Names DEF Places, NoContextIsLost, Parked
  <2> QED
    BY <2>1, <2>4
<1>9. NobodyWaitsForTheDead' /\ OnlyMadeFibersEnd' /\ SavedOnlyIfMade'
  <2>1. SavedOnlyIfMade'
    BY <1>1, <1>2, <1>3, Names, SavedStep
    DEF Inv, Places, OthersAreSaved, ReadyIsApart, Created
  <2> QED
    BY <1>3, <1>4, <2>1 DEF Inv, NobodyWaitsForTheDead, OnlyMadeFibersEnd, Created
<1> QED
  BY <1>2, <1>3, <1>5, <1>6, <1>7, <1>8, <1>9
  DEF Inv, Places, NoSleep, HaltsOnlyOnMutex

LEMMA CondWaitKeeps ==
  ASSUME Inv, TypeOK', NEW c \in Fibers, CondWait(c)
  PROVE  Inv'
<1>1. /\ GoesOn /\ Places /\ active = c /\ c \in Live /\ loop = "run" /\ ready # <<>>
      /\ Dispatcher \in Range(ready) /\ c \notin Range(ready) /\ c \notin Waiting
      /\ c = Main => ~shutdown
  BY UserCode DEF CondWait
<1>2. /\ active' \in Range(ready) /\ halted' = halted
      /\ saved' = [saved EXCEPT ![active] = TRUE, ![active'] = FALSE]
      /\ IsInjective(ready')
      /\ Range(ready') = Range(ready) \ {active'}
  BY <1>1, Suspension DEF CondWait
<1>3. /\ UNCHANGED <<terminated, workerQueue, terminatedQueue, waitList, handle,
                     joining, shutdown, loop, sleepQueue>>
      /\ Live' = Live
  BY DEF CondWait, queueVars, loopVars, sleepVars, Live, Created
<1>4. /\ Range(cond') = Range(cond) \cup {c}
      /\ IsInjective(cond')
  <2>1. cond' = Append(cond, c) /\ cond \in Seq(Fibers)
    BY DEF CondWait, Inv, TypeOK
  <2>2. IsInjective(cond) /\ c \notin Range(cond)
    BY <1>1 DEF Places, CondIsApart, Waiting
  <2> QED
    BY <2>1, <2>2, AppendApart
<1>5. OthersAreSaved' /\ ReadyIsApart'
  BY <1>1, <1>2, <1>3, Names
  DEF Places, OthersAreSaved, ReadyIsApart, Inv, TypeOK
<1>6. CondIsApart' /\ WaitListsAreApart'
  BY <1>1, <1>2, <1>3, <1>4 DEF Places, CondIsApart, WaitListsAreApart, Waiting
<1>7. DispatcherIsNear' /\ MainIsParked'
  BY <1>1, <1>2, <1>3, <1>4, Names DEF Places, DispatcherIsNear, MainIsParked, Waiting
<1>8. JoinersWaitOrAreWoken' /\ NoContextIsLost'
  BY <1>1, <1>2, <1>3, <1>4
  DEF Places, JoinersWaitOrAreWoken, NoContextIsLost, WaitsIn, Parked
<1>9. NobodyWaitsForTheDead' /\ OnlyMadeFibersEnd' /\ SavedOnlyIfMade'
  <2>1. SavedOnlyIfMade'
    BY <1>1, <1>2, <1>3, Names, SavedStep
    DEF Inv, Places, OthersAreSaved, ReadyIsApart, Created
  <2> QED
    BY <1>3, <2>1 DEF Inv, NobodyWaitsForTheDead, OnlyMadeFibersEnd, Created
<1> QED
  BY <1>2, <1>3, <1>5, <1>6, <1>7, <1>8, <1>9
  DEF Inv, Places, NoSleep, HaltsOnlyOnMutex

\* Both notifications move contexts from the condition variable's queue to
\* the ready queue.
LEMMA NotifyKeeps ==
  ASSUME Inv, TypeOK', NEW c \in Fibers, NotifyOne(c) \/ NotifyAll(c)
  PROVE  Inv'
<1>1. /\ GoesOn /\ Places /\ active = c /\ loop = "run" /\ cond # <<>>
      /\ ready \in Seq(Contexts) /\ cond \in Seq(Fibers) /\ cond \in Seq(Contexts)
  BY UserCode, Names DEF NotifyOne, NotifyAll, Inv, TypeOK
<1>2. /\ IsInjective(ready) /\ IsInjective(cond) /\ Range(cond) \cap Range(ready) = {}
  BY <1>1 DEF Places, ReadyIsApart, CondIsApart
<1>3. PICK S \in SUBSET Range(cond) :
        /\ Range(cond') = Range(cond) \ S /\ IsInjective(cond')
        /\ Range(ready') = Range(ready) \cup S /\ IsInjective(ready')
  <2>1. CASE NotifyOne(c)
    <3>1. /\ Head(cond) \in Fibers /\ Range(cond) = Range(Tail(cond)) \cup {Head(cond)}
          /\ IsInjective(Tail(cond)) /\ Head(cond) \notin Range(Tail(cond))
      BY <1>1, <1>2, TailApart
    <3> DEFINE woken == <<Head(cond)>>
    <3>2. cond' = Tail(cond) /\ ready' = ready \o woken
      BY <2>1 DEF NotifyOne, Awakened
    <3>3. woken \in Seq(Contexts) /\ Range(woken) = {Head(cond)} /\ IsInjective(woken)
      BY <3>1, Names, OneContext
    <3>4. Range(ready) \cap Range(woken) = {}
      BY <1>2, <3>1, <3>3
    <3> HIDE DEF woken
    <3>5. Range(ready') = Range(ready) \cup {Head(cond)} /\ IsInjective(ready')
      BY <1>1, <1>2, <3>2, <3>3, <3>4, ConcatApart
    <3>6. {Head(cond)} \in SUBSET Range(cond)
          /\ Range(cond') = Range(cond) \ {Head(cond)}
      BY <3>1, <3>2
    <3> QED
      BY <3>1, <3>2, <3>5, <3>6
  <2>2. CASE NotifyAll(c)
    <3>1. cond' = <<>> /\ ready' = ready \o cond
      BY <2>2 DEF NotifyAll, Awakened
    <3>2. Range(ready') = Range(ready) \cup Range(cond) /\ IsInjective(ready')
      BY <1>1, <1>2, <3>1, ConcatApart
    <3>3. Range(cond') = {} /\ IsInjective(cond')
      BY <3>1, EmptyQueue
    <3> QED
      BY <3>2, <3>3
  <2> QED
    BY <2>1, <2>2
<1>4. /\ UNCHANGED <<active, saved, terminated, workerQueue, terminatedQueue, waitList,
                     handle, joining, shutdown, loop, sleepQueue, halted>>
      /\ Live' = Live
  BY DEF NotifyOne, NotifyAll, queueVars, loopVars, sleepVars, Live, Created
<1>5. OthersAreSaved' /\ ReadyIsApart'
  BY <1>1, <1>3, <1>4
  DEF Places, OthersAreSaved, ReadyIsApart, CondIsApart
<1>6. CondIsApart' /\ WaitListsAreApart'
  BY <1>1, <1>3, <1>4 DEF Places, CondIsApart, WaitListsAreApart
<1>7. DispatcherIsNear' /\ MainIsParked'
  BY <1>1, <1>3, <1>4, Names DEF Places, DispatcherIsNear, MainIsParked, Waiting
<1>8. JoinersWaitOrAreWoken' /\ NoContextIsLost'
  BY <1>1, <1>3, <1>4
  DEF Places, JoinersWaitOrAreWoken, NoContextIsLost, WaitsIn, Parked
<1>9. NobodyWaitsForTheDead' /\ OnlyMadeFibersEnd' /\ SavedOnlyIfMade'
  BY <1>4
  DEF Inv, NobodyWaitsForTheDead, OnlyMadeFibersEnd, SavedOnlyIfMade, Created
<1> QED
  BY <1>4, <1>5, <1>6, <1>7, <1>8, <1>9
  DEF Inv, Places, NoSleep, HaltsOnlyOnMutex

LEMMA TerminateKeeps ==
  ASSUME Inv, TypeOK', NEW w \in Workers, Terminate(w)
  PROVE  Inv'
<1> DEFINE q == Awakened(ready, waitList[w])
<1>1. /\ GoesOn /\ Places /\ active = w /\ w \in Live /\ loop = "run" /\ w \notin terminated
      /\ Dispatcher \in Range(ready) /\ w \notin Range(ready) /\ w \notin Waiting
  BY UserCode, Names DEF Terminate, EndFiber
<1>2. /\ waitList[w] \in Seq(Contexts) /\ ready \in Seq(Contexts)
      /\ Range(waitList[w]) \subseteq (Fibers \cap Live) \ {w}
      /\ Range(ready) \subseteq Live \ {w}
      /\ Range(waitList[w]) \cap Range(ready) = {}
      /\ IsInjective(ready) /\ IsInjective(waitList[w])
  BY <1>1, Names DEF Places, ReadyIsApart, WaitListsAreApart, Inv, TypeOK
<1>3. /\ q \in Seq(Contexts) /\ IsInjective(q)
      /\ Range(q) = Range(ready) \cup Range(waitList[w])
  BY <1>2, ConcatApart DEF Awakened
<1>4. q # <<>> /\ Range(q) \subseteq Live \ {active}
  BY <1>1, <1>2, <1>3, EmptyQueue
<1>5. /\ active' \in Range(q) /\ halted' = halted
      /\ saved' = [saved EXCEPT ![active] = TRUE, ![active'] = FALSE]
      /\ IsInjective(ready')
      /\ Range(ready') = Range(q) \ {active'}
  <2> HIDE DEF q
  <2>1. ResumeNext(q, <<>>)
    BY DEF Terminate, q
  <2>2. <<>> \in Seq(Contexts) /\ Range(<<>>) = {} /\ IsInjective(<<>>)
    BY EmptyQueue
  <2>3. Range(<<>>) \cap Range(q) = {} /\ TypeOK
    BY <2>2 DEF Inv
  <2>4. Range(ready') = (Range(q) \ {active'}) \cup Range(<<>>)
        /\ active' \in Range(q) /\ halted' = halted /\ IsInjective(ready')
        /\ saved' = [saved EXCEPT ![active] = TRUE, ![active'] = FALSE]
    BY <1>1, <1>3, <1>4, <2>1, <2>2, <2>3, GoodSwitch
  <2> QED
    BY <2>2, <2>4
<1>6. /\ UNCHANGED <<cond, handle, joining, shutdown, loop, sleepQueue>>
      /\ terminated' = terminated \cup {w} /\ Live' = Live \ {w}
      /\ waitList' = [waitList EXCEPT ![w] = <<>>]
  BY Names DEF Terminate, EndFiber, loopVars, sleepVars, Live, Created
<1>7. /\ Range(waitList'[w]) = {} /\ IsInjective(waitList'[w]) /\ waitList'[w] = <<>>
      /\ \A v \in Workers \ {w} : waitList'[v] = waitList[v]
  BY <1>6, EmptyQueue DEF Inv, TypeOK
<1> HIDE DEF q
<1>8. /\ Range(ready') \cup {active'} = Range(ready) \cup Range(waitList[w])
      /\ active' \notin Range(ready') /\ active' \in Live'
      /\ Range(ready') \subseteq Live'
  BY <1>1, <1>2, <1>3, <1>4, <1>5, <1>6
<1>9. OthersAreSaved' /\ ReadyIsApart'
  BY <1>1, <1>5, <1>6, <1>8, Names
  DEF Places, OthersAreSaved, ReadyIsApart, Inv, TypeOK
<1>10. CondIsApart' /\ WaitListsAreApart'
  <2>1. CondIsApart'
    BY <1>1, <1>6, <1>8 DEF Places, CondIsApart, WaitListsAreApart
  <2>2. ASSUME NEW v \in Workers
        PROVE  /\ IsInjective(waitList'[v])
               /\ Range(waitList'[v]) \subseteq (Fibers \cap Live') \ {active'}
               /\ Range(waitList'[v]) \cap Range(ready') = {}
               /\ Range(waitList'[v]) \cap Range(cond') = {}
    <3>1. CASE v = w
      BY <1>7, <3>1
    <3>2. CASE v # w
      <4>1. /\ IsInjective(waitList[v])
            /\ Range(waitList[v]) \subseteq (Fibers \cap Live) \ {w}
            /\ Range(waitList[v]) \cap Range(ready) = {}
            /\ Range(waitList[v]) \cap Range(cond) = {}
            /\ Range(waitList[v]) \cap Range(waitList[w]) = {}
        BY <1>1, <3>2 DEF Places, WaitListsAreApart
      <4> QED BY <1>6, <1>7, <1>8, <3>2, <4>1
    <3> QED BY <3>1, <3>2
  <2>3. ASSUME NEW v \in Workers, NEW u \in Workers, v # u
        PROVE  Range(waitList'[v]) \cap Range(waitList'[u]) = {}
    BY <1>1, <1>7, <2>3 DEF Places, WaitListsAreApart
  <2> QED
    BY <2>1, <2>2, <2>3 DEF WaitListsAreApart
<1>11. DispatcherIsNear' /\ MainIsParked'
  <2>1. DispatcherIsNear'
    BY <1>1, <1>6, <1>8 DEF DispatcherIsNear
  <2>2. \A x : x \in Waiting' => x \in Waiting
    BY <1>6, <1>7 DEF Waiting
  <2>3. Range(waitList[w]) \subseteq Waiting
    BY DEF Waiting
  <2> QED
    BY <1>1, <1>6, <1>8, <2>1, <2>2, <2>3 DEF Places, MainIsParked
<1>12. JoinersWaitOrAreWoken' /\ NoContextIsLost'
  <2>1. JoinersWaitOrAreWoken'
    BY <1>1, <1>6, <1>7 DEF Places, JoinersWaitOrAreWoken
  <2>2. ASSUME NEW x \in Live' \ {active'}
        PROVE  x \in Range(ready') \/ x \in Range(cond') \/ WaitsIn(x)' # {} \/ Parked(x)'
    <3>1. x \in Live \ {active}
      BY <1>1, <1>6
    <3>2. \/ x \in Range(ready) \/ x \in Range(cond)
          \/ WaitsIn(x) # {} \/ Parked(x)
      BY <1>1, <3>1 DEF Places, NoContextIsLost
    <3>3. WaitsIn(x) # {} => WaitsIn(x)' # {} \/ x \in Range(waitList[w])
      BY <1>7 DEF WaitsIn
    <3> QED BY <1>6, <1>8, <2>2, <3>2, <3>3 DEF Parked
  <2> QED
    BY <2>1, <2>2 DEF NoContextIsLost
<1>13. NobodyWaitsForTheDead' /\ OnlyMadeFibersEnd' /\ SavedOnlyIfMade'
  <2>1. SavedOnlyIfMade'
    BY <1>1, <1>4, <1>5, <1>6, Names, SavedStep
    DEF Inv, Places, OthersAreSaved, Created
  <2>2. Created(w)
    BY <1>1, Names DEF Live
  <2> QED
    BY <1>6, <1>7, <2>1, <2>2 DEF Inv, NobodyWaitsForTheDead, OnlyMadeFibersEnd, Created
<1> QED
  BY <1>5, <1>6, <1>9, <1>10, <1>11, <1>12, <1>13
  DEF Inv, Places, NoSleep, HaltsOnlyOnMutex

LEMMA ShutDownKeeps ==
  ASSUME Inv, TypeOK', ShutDown
  PROVE  Inv'
<1>1. /\ GoesOn /\ Places /\ active = Main /\ loop = "run" /\ ready # <<>>
      /\ Dispatcher \in Range(ready) /\ Main \notin Range(ready) /\ Main \notin Waiting
      /\ joining[Main] = NoOne
  BY UserCode, Names DEF ShutDown, InUserCode
<1>2. /\ active' \in Range(ready) /\ halted' = halted
      /\ saved' = [saved EXCEPT ![active] = TRUE, ![active'] = FALSE]
      /\ IsInjective(ready')
      /\ Range(ready') = Range(ready) \ {active'}
  BY <1>1, Suspension DEF ShutDown
<1>3. /\ UNCHANGED <<terminated, workerQueue, terminatedQueue, cond, waitList, handle,
                     joining, loop, sleepQueue>>
      /\ Live' = Live /\ shutdown'
  BY DEF ShutDown, queueVars, waitVars, sleepVars, Live, Created
<1>4. OthersAreSaved' /\ ReadyIsApart'
  BY <1>1, <1>2, <1>3, Names
  DEF Places, OthersAreSaved, ReadyIsApart, Inv, TypeOK
<1>5. CondIsApart' /\ WaitListsAreApart'
  BY <1>1, <1>2, <1>3 DEF Places, CondIsApart, WaitListsAreApart, Waiting
<1>6. DispatcherIsNear' /\ MainIsParked'
  BY <1>1, <1>2, <1>3, Names DEF Places, DispatcherIsNear, MainIsParked, Waiting
<1>7. JoinersWaitOrAreWoken' /\ NoContextIsLost'
  BY <1>1, <1>2, <1>3
  DEF Places, JoinersWaitOrAreWoken, NoContextIsLost, WaitsIn, Parked
<1>8. NobodyWaitsForTheDead' /\ OnlyMadeFibersEnd' /\ SavedOnlyIfMade'
  <2>1. SavedOnlyIfMade'
    BY <1>1, <1>2, <1>3, Names, SavedStep
    DEF Inv, Places, OthersAreSaved, ReadyIsApart, Created
  <2> QED
    BY <1>3, <2>1 DEF Inv, NobodyWaitsForTheDead, OnlyMadeFibersEnd, Created
<1> QED
  BY <1>2, <1>3, <1>4, <1>5, <1>6, <1>7, <1>8
  DEF Inv, Places, NoSleep, HaltsOnlyOnMutex

LEMMA DispatchTurnKeeps ==
  ASSUME Inv, TypeOK', DispatchTurn
  PROVE  Inv'
<1>1. /\ GoesOn /\ Places /\ active = Dispatcher /\ loop = "run" /\ Dispatcher \in Live
      /\ Dispatcher \notin Range(ready) /\ Dispatcher \notin Waiting
      /\ ready \in Seq(Contexts) /\ IsInjective(ready)
      /\ Range(ready) \subseteq Live \ {active}
  <2>1. GoesOn /\ active = Dispatcher /\ loop = "run"
    BY Names DEF DispatchTurn, GoesOn, Exited
  <2>2. Places
    BY <2>1 DEF Inv
  <2> QED
    BY <2>1, <2>2, Names
    DEF Places, ReadyIsApart, CondIsApart, WaitListsAreApart, Waiting, Inv, TypeOK
<1>2. /\ SubSeq(sleepQueue, 1, Due) = <<>>
      /\ SubSeq(sleepQueue, Due + 1, Len(sleepQueue)) = <<>>
  <2>1. sleepQueue = <<>> /\ Due = 0 /\ Len(sleepQueue) = 0
    BY DueIsPrefix DEF Inv, NoSleep
  <2> QED
    BY <2>1, SubSeqEmpty
<1>3. Awakened(ready, <<>>) = ready
  BY <1>1 DEF Awakened
<1>4. /\ UNCHANGED <<terminated, workerQueue, cond, waitList, handle, joining, shutdown>>
      /\ Live' = Live /\ sleepQueue' = <<>> /\ terminatedQueue' = {}
  BY <1>2 DEF DispatchTurn, waitVars, Live, Created
<1>5. CASE ready = <<>>
  <2>1. /\ loop' = "idle" /\ UNCHANGED <<active, saved, ready, halted>>
    BY <1>2, <1>3, <1>5 DEF DispatchTurn
  <2>2. OthersAreSaved' /\ ReadyIsApart' /\ CondIsApart' /\ WaitListsAreApart'
    BY <1>1, <1>4, <2>1
    DEF Places, OthersAreSaved, ReadyIsApart, CondIsApart, WaitListsAreApart
  <2>3. DispatcherIsNear' /\ MainIsParked'
    BY <1>1, <1>4, <2>1, Names DEF Places, DispatcherIsNear, MainIsParked, Waiting
  <2>4. JoinersWaitOrAreWoken' /\ NoContextIsLost'
    BY <1>1, <1>4, <2>1
    DEF Places, JoinersWaitOrAreWoken, NoContextIsLost, WaitsIn, Parked
  <2>5. NobodyWaitsForTheDead' /\ OnlyMadeFibersEnd' /\ SavedOnlyIfMade'
    BY <1>4, <2>1
    DEF Inv, NobodyWaitsForTheDead, OnlyMadeFibersEnd, SavedOnlyIfMade, Created
  <2> QED
    BY <1>4, <2>1, <2>2, <2>3, <2>4, <2>5
    DEF Inv, Places, NoSleep, HaltsOnlyOnMutex
<1>6. CASE ready # <<>>
  <2> DEFINE back == <<Dispatcher>>
  <2>1. ResumeNext(ready, back) /\ loop' = loop
    BY <1>2, <1>3, <1>6 DEF DispatchTurn, ResumeNext
  <2>2. /\ back \in Seq(Contexts) /\ Range(back) = {Dispatcher}
        /\ IsInjective(back)
    BY OneContext, Names
  <2> HIDE DEF back
  <2>3. Range(back) \cap Range(ready) = {} /\ TypeOK
    BY <1>1, <2>2 DEF Inv
  <2>4. /\ active' \in Range(ready) /\ halted' = halted
        /\ saved' = [saved EXCEPT ![active] = TRUE, ![active'] = FALSE]
        /\ IsInjective(ready')
        /\ Range(ready') = (Range(ready) \ {active'}) \cup Range(back)
    BY <1>1, <1>6, <2>1, <2>2, <2>3, GoodSwitch
  <2>5. OthersAreSaved' /\ ReadyIsApart'
    <3>1. OthersAreSaved'
      BY <1>1, <1>4, <2>3, <2>4, SwitchSaves DEF Places
    <3> QED
      BY <1>1, <1>4, <2>2, <2>4, <3>1 DEF ReadyIsApart
  <2>6. CondIsApart' /\ WaitListsAreApart'
    BY <1>1, <1>4, <2>2, <2>4 DEF Places, CondIsApart, WaitListsAreApart, Waiting
  <2>7. DispatcherIsNear' /\ MainIsParked'
    BY <1>1, <1>4, <2>1, <2>2, <2>4, Names
    DEF Places, DispatcherIsNear, MainIsParked, Waiting
  <2>8. JoinersWaitOrAreWoken' /\ NoContextIsLost'
    BY <1>1, <1>4, <2>1, <2>2, <2>4
    DEF Places, JoinersWaitOrAreWoken, NoContextIsLost, WaitsIn, Parked
  <2>9. NobodyWaitsForTheDead' /\ OnlyMadeFibersEnd' /\ SavedOnlyIfMade'
    <3>1. SavedOnlyIfMade'
      BY <1>1, <1>4, <2>4, Names, SavedStep DEF Inv, Created
    <3> QED
      BY <1>4, <3>1 DEF Inv, NobodyWaitsForTheDead, OnlyMadeFibersEnd, Created
  <2> QED
    BY <1>4, <2>4, <2>5, <2>6, <2>7, <2>8, <2>9
    DEF Inv, Places, NoSleep, HaltsOnlyOnMutex
<1> QED
  BY <1>5, <1>6

LEMMA DispatchReturnKeeps ==
  ASSUME Inv, TypeOK', DispatchReturn
  PROVE  Inv'
<1>1. /\ GoesOn /\ Places /\ active = Dispatcher /\ loop = "run" /\ shutdown
      /\ workerQueue = {}
  <2>1. GoesOn /\ active = Dispatcher /\ loop = "run" /\ shutdown /\ workerQueue = {}
    BY Names DEF DispatchReturn, GoesOn, Exited
  <2> QED
    BY <2>1 DEF Inv
<1>2. Resumable(Main)
  BY <1>1, Names DEF Places, OthersAreSaved, Resumable, Inv, TypeOK
<1>3. ready' = ready
  BY DEF DispatchReturn, Resume, Awakened, Inv, TypeOK
<1>4. /\ active' = Main /\ halted' = halted
      /\ saved' = [saved EXCEPT ![active] = TRUE, ![active'] = FALSE]
  BY <1>2 DEF DispatchReturn, Resume
<1>5. /\ UNCHANGED <<terminated, workerQueue, cond, waitList, handle, joining,
                     shutdown, sleepQueue>>
      /\ Live' = Live /\ loop' = "left" /\ terminatedQueue' = {}
  BY DEF DispatchReturn, waitVars, sleepVars, Live, Created
<1>6. Main \notin Range(ready) /\ Main \notin Waiting /\ Dispatcher \notin Range(ready)
  BY <1>1 DEF Places, MainIsParked, ReadyIsApart
<1>7. OthersAreSaved' /\ ReadyIsApart'
  <2>1. OthersAreSaved'
    <3>1. active' \in Live \ {active} /\ Live' = Live
      BY <1>1, <1>4, <1>5, Names
    <3> QED
      BY <1>1, <1>4, <3>1, SwitchSaves DEF Places, Inv
  <2>2. IsInjective(ready) /\ Range(ready) \subseteq Live
    BY <1>1 DEF Places, ReadyIsApart
  <2>3. Range(ready') \subseteq Live' \ {active'}
    BY <1>3, <1>4, <1>5, <1>6, <2>2
  <2> QED
    BY <1>3, <2>1, <2>2, <2>3 DEF ReadyIsApart
<1>8. CondIsApart' /\ WaitListsAreApart'
  BY <1>1, <1>3, <1>4, <1>5, <1>6 DEF Places, CondIsApart, WaitListsAreApart, Waiting
<1>9. DispatcherIsNear' /\ MainIsParked'
  BY <1>1, <1>3, <1>4, <1>5, <1>6, Names
  DEF Places, DispatcherIsNear, MainIsParked, Waiting
<1>10. JoinersWaitOrAreWoken' /\ NoContextIsLost'
  BY <1>1, <1>3, <1>4, <1>5
  DEF Places, JoinersWaitOrAreWoken, NoContextIsLost, WaitsIn, Parked
<1>11. NobodyWaitsForTheDead' /\ OnlyMadeFibersEnd' /\ SavedOnlyIfMade'
  <2>1. SavedOnlyIfMade'
    BY <1>1, <1>4, <1>5, Names, SavedStep DEF Inv, Created
  <2> QED
    BY <1>5, <2>1 DEF Inv, NobodyWaitsForTheDead, OnlyMadeFibersEnd, Created
<1> QED
  BY <1>4, <1>5, <1>7, <1>8, <1>9, <1>10, <1>11
  DEF Inv, Places, NoSleep, HaltsOnlyOnMutex

\* The last step of ~Scheduler leaves nothing running.
LEMMA ShutDownReturnKeeps ==
  ASSUME Inv, TypeOK', ShutDownReturn
  PROVE  Inv'
<1>1. GoesOn /\ Places /\ loop = "left"
  <2>1. GoesOn /\ active = Main /\ shutdown
    BY Names DEF ShutDownReturn, GoesOn, Exited
  <2> QED
    BY <2>1 DEF Inv, Places, MainIsParked
<1>2. ~GoesOn' /\ halted' = halted
  BY <1>1 DEF ShutDownReturn, GoesOn, Exited
<1> QED
  BY <1>2 DEF ShutDownReturn, Inv, NoSleep, HaltsOnlyOnMutex, NobodyWaitsForTheDead,
              OnlyMadeFibersEnd, SavedOnlyIfMade, Created,
              queueVars, waitVars, loopVars, sleepVars

\* A step that halts on the mutex.
LEMMA BlockedKeeps ==
  ASSUME Inv, TypeOK',
         \/ \E c \in Fibers : \E w \in Workers : LaunchBlocked(c, w)
         \/ \E w \in Workers : TerminateBlocked(w)
  PROVE  Inv'
<1>1. ~GoesOn' /\ HaltsOnlyOnMutex'
  BY DEF LaunchBlocked, TerminateBlocked, GoesOn, HaltsOnlyOnMutex
<1>2. CASE \E c \in Fibers : \E w \in Workers : LaunchBlocked(c, w)
  BY <1>1, <1>2
  DEF LaunchBlocked, Inv, NoSleep, NobodyWaitsForTheDead, OnlyMadeFibersEnd,
      SavedOnlyIfMade, Created, queueVars, waitVars, loopVars, sleepVars
<1>3. ASSUME NEW w \in Workers, TerminateBlocked(w)  PROVE Inv'
  <2>1. Created(w)
    BY <1>3, UserCode, Names DEF TerminateBlocked, EndFiber, Live
  <2>2. /\ waitList' = [waitList EXCEPT ![w] = <<>>]
        /\ terminated' = terminated \cup {w}
        /\ UNCHANGED <<saved, handle, sleepQueue>>
    BY <1>3 DEF TerminateBlocked, EndFiber, sleepVars
  <2> QED
    BY <1>1, <2>1, <2>2
    DEF Inv, TypeOK, NoSleep, NobodyWaitsForTheDead, OnlyMadeFibersEnd,
        SavedOnlyIfMade, Created
<1> QED
  BY <1>2, <1>3

LEMMA InvInit ==
  ASSUME Init
  PROVE  Inv
<1>1. TypeOK /\ Range(<<>>) = {} /\ IsInjective(<<>>)
      /\ Range(<<Dispatcher>>) = {Dispatcher} /\ IsInjective(<<Dispatcher>>)
  BY TypeInit, EmptyQueue, OneContext, Names
<1>2. Live = {Main, Dispatcher} /\ Waiting = {}
  BY <1>1 DEF Init, Live, Created, Waiting
<1>3. /\ active = Main /\ ready = <<Dispatcher>> /\ cond = <<>> /\ loop = "run"
      /\ \A w \in Workers : waitList[w] = <<>> /\ ~Created(w) /\ ~saved[w]
      /\ \A c \in Fibers : joining[c] = NoOne
      /\ saved[Dispatcher] /\ ~saved[Main] /\ ~shutdown
      /\ sleepQueue = <<>> /\ terminated = {} /\ halted = "no"
  BY Names DEF Init, Created
<1>4. NobodyWaitsForTheDead /\ OnlyMadeFibersEnd /\ SavedOnlyIfMade
      /\ NoSleep /\ HaltsOnlyOnMutex
  BY <1>3 DEF NobodyWaitsForTheDead, OnlyMadeFibersEnd, SavedOnlyIfMade, NoSleep,
              HaltsOnlyOnMutex
<1>5. OthersAreSaved /\ ReadyIsApart /\ CondIsApart /\ WaitListsAreApart
  BY <1>1, <1>2, <1>3, Names
  DEF OthersAreSaved, ReadyIsApart, CondIsApart, WaitListsAreApart
<1>6. DispatcherIsNear /\ MainIsParked /\ JoinersWaitOrAreWoken /\ NoContextIsLost
  BY <1>1, <1>2, <1>3, Names
  DEF DispatcherIsNear, MainIsParked, JoinersWaitOrAreWoken, NoContextIsLost
<1> QED
  BY <1>1, <1>4, <1>5, <1>6 DEF Inv, Places

LEMMA InvStep ==
  ASSUME Sleepers = {}, Inv, [Next]_vars
  PROVE  Inv'
<1>t. TypeOK'
  BY TypeStep DEF Inv
<1>1. ASSUME NEW c \in Fibers, NEW w \in Workers,
             Post(c, w) \/ Dispatch(c, w) \/ JoinWait(c, w) \/ LaunchBlocked(c, w)
      PROVE  Inv'
  BY <1>1, <1>t, PostKeeps, DispatchKeeps, JoinWaitKeeps, BlockedKeeps
<1>2. ASSUME NEW c \in Fibers, NEW w \in Workers,
             JoinTerminated(c, w) \/ Detach(c, w)
      PROVE  Inv'
  <2>1. handle[w] = "joinable" /\ handle' = [handle EXCEPT ![w] = "empty"]
        /\ UNCHANGED <<active, saved, ready, cond, waitList, queueVars, joining,
                       shutdown, loop, sleepQueue, halted>>
    BY <1>2 DEF JoinTerminated, MayJoin, Detach, loopVars, sleepVars
  <2>2. \A v \in Workers : Created(v)' <=> Created(v)
    BY <2>1 DEF Created, Inv, TypeOK
  <2> QED
    BY <1>t, <2>1, <2>2, QuietStep
<1>3. ASSUME NEW c \in Fibers, JoinReturn(c)  PROVE Inv'
  <2> DEFINE w == joining[c]
  <2>1. GoesOn /\ Places /\ active = c
    BY <1>3, Names DEF JoinReturn, GoesOn, Exited, Inv
  <2>2. w \in Workers
    BY <1>3 DEF JoinReturn, Inv, TypeOK
  <2>3. Created(w)
    BY <2>1, <2>2
    DEF Places, JoinersWaitOrAreWoken, WaitListsAreApart, Inv, OnlyMadeFibersEnd
  <2>4. handle' = [handle EXCEPT ![w] = "empty"]
        /\ joining' = [joining EXCEPT ![c] = NoOne]
        /\ UNCHANGED <<active, saved, ready, cond, waitList, queueVars,
                       shutdown, loop, sleepQueue, halted>>
    BY <1>3 DEF JoinReturn, loopVars, sleepVars
  <2>5. \A v \in Workers : Created(v)' <=> Created(v)
    BY <2>2, <2>3, <2>4 DEF Created, Inv, TypeOK
  <2>6. \A x \in Fibers : joining'[x] \in {joining[x], NoOne}
    BY <2>4 DEF Inv, TypeOK
  <2> QED
    BY <1>t, <2>4, <2>5, <2>6, QuietStep
<1>4. ASSUME NEW c \in Fibers,
             Yield(c) \/ CondWait(c) \/ NotifyOne(c) \/ NotifyAll(c)
      PROVE  Inv'
  BY <1>4, <1>t, YieldKeeps, CondWaitKeeps, NotifyKeeps
<1>5. ASSUME NEW c \in Fibers, NEW d \in Delays, WaitUntil(c, d)  PROVE Inv'
  BY <1>5 DEF WaitUntil
<1>6. ASSUME NEW w \in Workers, Terminate(w) \/ TerminateBlocked(w)  PROVE Inv'
  BY <1>6, <1>t, TerminateKeeps, BlockedKeeps
<1>7. CASE DispatchTurn \/ DispatchReturn \/ ShutDown \/ ShutDownReturn
  BY <1>7, <1>t, DispatchTurnKeeps, DispatchReturnKeeps, ShutDownKeeps,
     ShutDownReturnKeeps
<1>8. CASE SuspendUntilReturns
  <2>1. /\ GoesOn /\ Places /\ active = Dispatcher /\ loop' = "run"
        /\ UNCHANGED <<active, saved, ready, cond, waitList, queueVars, handle,
                       joining, shutdown, sleepQueue, halted>>
    BY <1>8, Names DEF SuspendUntilReturns, GoesOn, Exited, Inv, waitVars, sleepVars
  <2>2. Live' = Live /\ UNCHANGED <<terminated, workerQueue, terminatedQueue>>
    BY <2>1 DEF Live, Created, queueVars
  <2>3. OthersAreSaved' /\ ReadyIsApart' /\ CondIsApart' /\ WaitListsAreApart'
    BY <2>1, <2>2
    DEF Places, OthersAreSaved, ReadyIsApart, CondIsApart, WaitListsAreApart
  <2>4. DispatcherIsNear' /\ MainIsParked' /\ JoinersWaitOrAreWoken'
    BY <2>1, <2>2, Names
    DEF Places, DispatcherIsNear, MainIsParked, JoinersWaitOrAreWoken, Waiting
  <2>5. NoContextIsLost'
    BY <1>8, <2>1, <2>2
    DEF SuspendUntilReturns, Places, NoContextIsLost, WaitsIn, Parked
  <2>6. NobodyWaitsForTheDead' /\ OnlyMadeFibersEnd' /\ SavedOnlyIfMade'
    BY <2>1, <2>2
    DEF Inv, NobodyWaitsForTheDead, OnlyMadeFibersEnd, SavedOnlyIfMade, Created
  <2> QED
    BY <1>t, <2>1, <2>3, <2>4, <2>5, <2>6
    DEF Inv, Places, NoSleep, HaltsOnlyOnMutex
<1>9. CASE Tick \/ UNCHANGED vars
  <2>1. UNCHANGED <<active, saved, ready, cond, waitList, queueVars, handle, joining,
                    shutdown, loop, sleepQueue, halted>>
    BY <1>9 DEF Tick, vars, queueVars, waitVars, loopVars, sleepVars
  <2>2. \A v \in Workers : Created(v)' <=> Created(v)
    BY <2>1 DEF Created
  <2> QED
    BY <1>t, <2>1, <2>2, QuietStep
<1> QED
  BY <1>1, <1>2, <1>3, <1>4, <1>5, <1>6, <1>7, <1>8, <1>9 DEF Next, Step

-----------------------------------------------------------------------------
(***************************************************************************)
(* The theorems.                                                           *)
(***************************************************************************)

\* A program that never sleeps keeps the inductive invariant.
THEOREM Invariance ==
  ASSUME Sleepers = {}
  PROVE  Spec => []Inv
<1>1. Init => Inv
  BY InvInit
<1>2. Inv /\ [Next]_vars => Inv'
  BY InvStep
<1> QED
  BY <1>1, <1>2, PTL DEF Spec

\* In a program that never sleeps every switch goes to a live context with a
\* saved continuation, and PickNext() never returns nullptr to a fiber.
THEOREM SwitchesAreSafe ==
  ASSUME Sleepers = {}
  PROVE  Spec => []NeverResumesBadContext
<1>1. Inv => NeverResumesBadContext
  BY DEF Inv, HaltsOnlyOnMutex, NeverResumesBadContext
<1> QED
  BY <1>1, Invariance, PTL

\* In a program that never sleeps no context is queued twice.
THEOREM QueuesAreDisjoint ==
  ASSUME Sleepers = {}
  PROVE  Spec => []OnePlaceEach
<1>1. Inv => OnePlaceEach
  <2> SUFFICES ASSUME Inv, GoesOn, Places  PROVE OnePlaceEach
    BY DEF Inv, OnePlaceEach
  <2>1. IsInjective(ready) /\ IsInjective(cond) /\ Range(ready) \cap Range(cond) = {}
        /\ \A w \in Workers : IsInjective(waitList[w])
    BY DEF Places, ReadyIsApart, CondIsApart, WaitListsAreApart
  <2>2. ASSUME NEW c \in Contexts
        PROVE  /\ WaitsIn(c) # {} => c \notin Range(ready) \cup Range(cond)
               /\ \A v, w \in WaitsIn(c) : v = w
    BY DEF Places, WaitListsAreApart, WaitsIn
  <2>3. ASSUME NEW c \in Contexts, c = active \/ Parked(c)
        PROVE  WaitsIn(c) = {} /\ c \notin Range(ready) \cup Range(cond)
    <3>1. CASE c = active
      BY <3>1
      DEF Places, ReadyIsApart, CondIsApart, WaitListsAreApart, WaitsIn
    <3>2. CASE c = Main /\ shutdown
      BY <3>2 DEF Places, MainIsParked, Waiting, WaitsIn
    <3>3. CASE c = Dispatcher /\ loop = "left"
      BY <3>3, Names
      DEF Places, MainIsParked, CondIsApart, WaitListsAreApart, WaitsIn
    <3> QED BY <2>3, <3>1, <3>2, <3>3 DEF Parked
  <2> QED
    BY <2>1, <2>2, <2>3 DEF OnePlaceEach
<1> QED
  BY <1>1, Invariance, PTL

\* In a program that never sleeps Join() returns only after the fiber has
\* terminated.
THEOREM JoinIsTrue ==
  ASSUME Sleepers = {}
  PROVE  Spec => JoinReturnsAfterTermination
<1>1. ASSUME Inv, [Next]_vars
      PROVE  [\A c \in Fibers : joining[c] # NoOne /\ joining'[c] = NoOne
                                  => joining[c] \in terminated]_vars
  <2> SUFFICES ASSUME NEW c \in Fibers, Next, joining[c] # NoOne, joining'[c] = NoOne
               PROVE  joining[c] \in terminated
    BY <1>1
  <2>0. Next /\ joining[c] # NoOne /\ joining'[c] = NoOne
    OBVIOUS
  <2>1. JoinReturn(c)
    <3>1. CASE \E x \in Fibers : \E w \in Workers : JoinWait(x, w)
      <4>1. PICK x \in Fibers, w \in Workers : JoinWait(x, w)
        BY <3>1
      <4>2. joining' = [joining EXCEPT ![x] = w] /\ w # NoOne
        BY <4>1, Names DEF JoinWait
      <4> QED BY <1>1, <2>0, <4>2 DEF Inv, TypeOK
    <3>2. CASE \E x \in Fibers : JoinReturn(x)
      BY <1>1, <2>0, <3>2 DEF JoinReturn, Inv, TypeOK
    <3>3. CASE UNCHANGED joining
      BY <2>0, <3>3
    <3>4. \/ \E x \in Fibers : \E w \in Workers : JoinWait(x, w)
          \/ \E x \in Fibers : JoinReturn(x)
          \/ UNCHANGED joining
      BY <2>0
      DEF Next, Step, Post, Dispatch, LaunchBlocked, JoinTerminated, Detach, Yield,
          CondWait, NotifyOne, NotifyAll, WaitUntil, Terminate, TerminateBlocked,
          DispatchTurn, SuspendUntilReturns, DispatchReturn, ShutDown,
          ShutDownReturn, Tick, waitVars
    <3> QED BY <3>1, <3>2, <3>3, <3>4
  <2>2. GoesOn /\ Places /\ active = c /\ joining[c] \in Workers
    BY <1>1, <2>1, Names DEF JoinReturn, GoesOn, Exited, Inv, TypeOK
  <2> QED
    BY <2>2 DEF Places, JoinersWaitOrAreWoken, WaitListsAreApart
<1> QED
  BY <1>1, Invariance, PTL DEF Spec, JoinReturnsAfterTermination

=============================================================================
