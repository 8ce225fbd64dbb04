-------------------------- MODULE TaskFutureProofs --------------------------
(***************************************************************************)
(* Proofs about TaskFuture, for every number of runs, getters and threads: *)
(* the invariant TaskInv, what follows from it, and that a task and its    *)
(* futures implement OnceCell.                                             *)
(***************************************************************************)
EXTENDS TaskFuture, TLAPS

\* A task that nobody ran or read yet satisfies the invariant.
LEMMA InitTaskInv == Init => TaskInv
<1> SUFFICES ASSUME Init PROVE TaskInv
  OBVIOUS
<1> USE CallsAssumption DEF Init, Calls
<1>1. TypeOK
  BY DEF TypeOK, Answers, NoAnswer
<1>2. CallsDoTheirPart /\ OneRunSatisfies /\ ReadyBySatisfier
  BY DEF CallsDoTheirPart, OneRunSatisfies, ReadyBySatisfier, Satisfied
<1>3. OneResult /\ ReadersSeeAValue /\ AnsweredAtTheEnd /\ MovedByAReader
  BY DEF OneResult, ReadersSeeAValue, AnsweredAtTheEnd, MovedByAReader, NoAnswer
<1> QED
  BY <1>1, <1>2, <1>3 DEF TaskInv

\* Every step of a run or a getter keeps it.
LEMMA NextTaskInv == TaskInv /\ [Next]_vars => TaskInv'
<1> SUFFICES ASSUME TaskInv, [Next]_vars PROVE TaskInv'
  OBVIOUS
<1> USE CallsAssumption
<1>t. /\ TypeOK /\ CallsDoTheirPart /\ OneRunSatisfies /\ ReadyBySatisfier
      /\ OneResult /\ ReadersSeeAValue /\ AnsweredAtTheEnd /\ MovedByAReader
  BY DEF TaskInv
<1>1. ASSUME NEW r \in Runs, Start(r) PROVE TaskInv'
  <2> USE <1>1, <1>t DEF Start, Goto, Calls, state
  <2>1. TypeOK'
    BY DEF TypeOK
  <2>2. CallsDoTheirPart' /\ OneRunSatisfies' /\ ReadyBySatisfier'
    BY DEF TypeOK, CallsDoTheirPart, OneRunSatisfies, ReadyBySatisfier, Satisfied
  <2>3. OneResult' /\ ReadersSeeAValue' /\ AnsweredAtTheEnd' /\ MovedByAReader'
    BY DEF TypeOK, CallsDoTheirPart, OneResult, ReadersSeeAValue,
           AnsweredAtTheEnd, MovedByAReader
  <2> QED BY <2>1, <2>2, <2>3 DEF TaskInv
<1>2. ASSUME NEW r \in Runs, FunctionEnds(r) PROVE TaskInv'
  <2> USE <1>2, <1>t DEF FunctionEnds, Goto, Calls, state
  <2>1. TypeOK'
    BY DEF TypeOK
  <2>2. CallsDoTheirPart' /\ OneRunSatisfies' /\ ReadyBySatisfier'
    BY DEF TypeOK, CallsDoTheirPart, OneRunSatisfies, ReadyBySatisfier, Satisfied
  <2>3. OneResult' /\ ReadersSeeAValue' /\ AnsweredAtTheEnd' /\ MovedByAReader'
    BY DEF TypeOK, CallsDoTheirPart, OneResult, ReadersSeeAValue,
           AnsweredAtTheEnd, MovedByAReader
  <2> QED BY <2>1, <2>2, <2>3 DEF TaskInv
<1>3. ASSUME NEW r \in Runs, SetValue(r) PROVE TaskInv'
  <2> USE <1>3, <1>t DEF SetValue, Goto, Calls, state
  <2>1. TypeOK'
    BY DEF TypeOK
  <2>2. CallsDoTheirPart' /\ OneRunSatisfies' /\ ReadyBySatisfier'
    BY DEF TypeOK, CallsDoTheirPart, OneRunSatisfies, ReadyBySatisfier, Satisfied
  <2>3. OneResult' /\ ReadersSeeAValue' /\ AnsweredAtTheEnd' /\ MovedByAReader'
    BY DEF TypeOK, CallsDoTheirPart, OneResult, ReadersSeeAValue,
           AnsweredAtTheEnd, MovedByAReader
  <2> QED BY <2>1, <2>2, <2>3 DEF TaskInv
<1>4. ASSUME NEW r \in Runs, SetException(r) PROVE TaskInv'
  <2> USE <1>4, <1>t DEF SetException, Goto, Calls, state
  <2>1. TypeOK'
    BY DEF TypeOK
  <2>2. CallsDoTheirPart' /\ OneRunSatisfies' /\ ReadyBySatisfier'
    BY DEF TypeOK, CallsDoTheirPart, OneRunSatisfies, ReadyBySatisfier, Satisfied
  <2>3. OneResult' /\ ReadersSeeAValue' /\ AnsweredAtTheEnd' /\ MovedByAReader'
    BY DEF TypeOK, CallsDoTheirPart, OneResult, ReadersSeeAValue,
           AnsweredAtTheEnd, MovedByAReader
  <2> QED BY <2>1, <2>2, <2>3 DEF TaskInv
<1>5. ASSUME NEW r \in Runs, Notify(r) PROVE TaskInv'
  <2> USE <1>5, <1>t DEF Notify, Calls, state
  <2>1. TypeOK'
    BY DEF TypeOK
  <2>2. CallsDoTheirPart' /\ OneRunSatisfies' /\ ReadyBySatisfier'
    BY DEF TypeOK, CallsDoTheirPart, OneRunSatisfies, ReadyBySatisfier, Satisfied
  <2>3. OneResult' /\ ReadersSeeAValue' /\ AnsweredAtTheEnd' /\ MovedByAReader'
    BY DEF TypeOK, CallsDoTheirPart, OneResult, ReadersSeeAValue,
           AnsweredAtTheEnd, MovedByAReader
  <2> QED BY <2>1, <2>2, <2>3 DEF TaskInv
<1>6. ASSUME NEW g \in Getters, Get(g) PROVE TaskInv'
  <2> USE <1>6, <1>t DEF Get, GetOrWait, Goto, Calls, state
  <2>1. TypeOK'
    BY DEF TypeOK, Answers, Value, Error, MovedFrom, OneResult, ReadersSeeAValue
  <2>2. CallsDoTheirPart' /\ OneRunSatisfies' /\ ReadyBySatisfier'
    BY DEF TypeOK, CallsDoTheirPart, OneRunSatisfies, ReadyBySatisfier, Satisfied
  <2>3. OneResult' /\ ReadersSeeAValue' /\ AnsweredAtTheEnd' /\ MovedByAReader'
    BY DEF TypeOK, CallsDoTheirPart, OneResult, ReadersSeeAValue,
           AnsweredAtTheEnd, MovedByAReader, NoAnswer, Value, Error, MovedFrom
  <2> QED BY <2>1, <2>2, <2>3 DEF TaskInv
<1>7. ASSUME NEW g \in Getters, WakeSpuriously(g) PROVE TaskInv'
  <2> USE <1>7, <1>t DEF WakeSpuriously, Goto, Calls, state
  <2>1. TypeOK'
    BY DEF TypeOK, Answers, Value, Error, MovedFrom, OneResult, ReadersSeeAValue
  <2>2. CallsDoTheirPart' /\ OneRunSatisfies' /\ ReadyBySatisfier'
    BY DEF TypeOK, CallsDoTheirPart, OneRunSatisfies, ReadyBySatisfier, Satisfied
  <2>3. OneResult' /\ ReadersSeeAValue' /\ AnsweredAtTheEnd' /\ MovedByAReader'
    BY DEF TypeOK, CallsDoTheirPart, OneResult, ReadersSeeAValue,
           AnsweredAtTheEnd, MovedByAReader, NoAnswer, Value, Error, MovedFrom
  <2> QED BY <2>1, <2>2, <2>3 DEF TaskInv
<1>8. ASSUME NEW g \in Getters, Woken(g) PROVE TaskInv'
  <2> USE <1>8, <1>t DEF Woken, GetOrWait, Goto, Calls, state
  <2>1. TypeOK'
    BY DEF TypeOK, Answers, Value, Error, MovedFrom, OneResult, ReadersSeeAValue
  <2>2. CallsDoTheirPart' /\ OneRunSatisfies' /\ ReadyBySatisfier'
    BY DEF TypeOK, CallsDoTheirPart, OneRunSatisfies, ReadyBySatisfier, Satisfied
  <2>3. OneResult' /\ ReadersSeeAValue' /\ AnsweredAtTheEnd' /\ MovedByAReader'
    BY DEF TypeOK, CallsDoTheirPart, OneResult, ReadersSeeAValue,
           AnsweredAtTheEnd, MovedByAReader, NoAnswer, Value, Error, MovedFrom
  <2> QED BY <2>1, <2>2, <2>3 DEF TaskInv
<1>9. ASSUME NEW g \in Getters, Read(g) PROVE TaskInv'
  <2> USE <1>9, <1>t DEF Read, Goto, Calls, state
  <2>1. TypeOK'
    BY DEF TypeOK, Answers, Value, Error, MovedFrom, OneResult, ReadersSeeAValue
  <2>2. CallsDoTheirPart' /\ OneRunSatisfies' /\ ReadyBySatisfier'
    BY DEF TypeOK, CallsDoTheirPart, OneRunSatisfies, ReadyBySatisfier, Satisfied
  <2>3. OneResult' /\ ReadersSeeAValue' /\ AnsweredAtTheEnd' /\ MovedByAReader'
    BY DEF TypeOK, CallsDoTheirPart, OneResult, ReadersSeeAValue,
           AnsweredAtTheEnd, MovedByAReader, NoAnswer, Value, Error, MovedFrom
  <2> QED BY <2>1, <2>2, <2>3 DEF TaskInv
<1>10. ASSUME NEW g \in Getters, Clear(g) PROVE TaskInv'
  <2> USE <1>10, <1>t DEF Clear, Goto, Calls, state
  <2>1. TypeOK'
    BY DEF TypeOK, Answers, Value, Error, MovedFrom, OneResult, ReadersSeeAValue
  <2>2. CallsDoTheirPart' /\ OneRunSatisfies' /\ ReadyBySatisfier'
    BY DEF TypeOK, CallsDoTheirPart, OneRunSatisfies, ReadyBySatisfier, Satisfied
  <2>3. OneResult' /\ ReadersSeeAValue' /\ AnsweredAtTheEnd' /\ MovedByAReader'
    BY DEF TypeOK, CallsDoTheirPart, OneResult, ReadersSeeAValue,
           AnsweredAtTheEnd, MovedByAReader, NoAnswer, Value, Error, MovedFrom
  <2> QED BY <2>1, <2>2, <2>3 DEF TaskInv
<1>12. ASSUME NEW r \in Runs, Abandon(r) PROVE TaskInv'
  <2> USE <1>12, <1>t DEF Abandon, Goto, Calls, state
  <2>1. TypeOK'
    BY DEF TypeOK
  <2>2. CallsDoTheirPart' /\ OneRunSatisfies' /\ ReadyBySatisfier'
    BY DEF TypeOK, CallsDoTheirPart, OneRunSatisfies, ReadyBySatisfier, Satisfied
  <2>3. OneResult' /\ ReadersSeeAValue' /\ AnsweredAtTheEnd' /\ MovedByAReader'
    BY DEF TypeOK, CallsDoTheirPart, OneResult, ReadersSeeAValue,
           AnsweredAtTheEnd, MovedByAReader
  <2> QED BY <2>1, <2>2, <2>3 DEF TaskInv
<1>11. CASE UNCHANGED vars
  BY <1>t, <1>11 DEF TaskInv, vars, state, TypeOK, CallsDoTheirPart, OneRunSatisfies,
       ReadyBySatisfier, OneResult, ReadersSeeAValue, AnsweredAtTheEnd,
       MovedByAReader, Satisfied
<1> QED
  BY <1>1, <1>2, <1>3, <1>4, <1>5, <1>6, <1>7, <1>8, <1>9, <1>10, <1>11, <1>12
     DEF Next, RunStep, GetStep

(***************************************************************************)
(* The invariant holds in every reachable state: the shared state is ready *)
(* exactly when one run satisfied it, with one result, and the getters are *)
(* where that allows them to be (SharedState.h, TaskObject.h, Future.h).   *)
(***************************************************************************)
THEOREM TaskInvariance == Spec => []TaskInv
<1> QED
  BY InitTaskInv, NextTaskInv, PTL DEF Spec

(***************************************************************************)
(* However many runs race, one satisfies the task and the others leave Run *)
(* by TaskAlreadySatisfied (the tests of ready_ under mtx_).               *)
(***************************************************************************)
THEOREM OneWinner == Spec => []OneRunSatisfies
<1>1. TaskInv => OneRunSatisfies
  BY DEF TaskInv
<1> QED
  BY <1>1, TaskInvariance, PTL

\* The calls of a task are only ever in the places they have.
THEOREM TaskTypes == Spec => []TypeOK
<1>1. TaskInv => TypeOK
  BY DEF TaskInv
<1> QED
  BY <1>1, TaskInvariance, PTL

-----------------------------------------------------------------------------
\* A result that was put into the cell is not the empty one.
LEMMA AnswersDiffer ==
  \A r \in Runs : /\ Value(r) # NoAnswer /\ Error(r) # NoAnswer
                   /\ Value(r) # MovedFrom /\ Error(r) # MovedFrom
BY CallsAssumption DEF Value, Error, NoAnswer, MovedFrom

\* A step that leaves the shared state and the answers alone is a stutter.
LEMMA Stutter ==
  ASSUME UNCHANGED <<state, answer>>
  PROVE  UNCHANGED <<CellNow, answer>>
BY DEF state, CellNow

\* The step that satisfies the task puts its result into the cell.
LEMMA PutStep ==
  ASSUME NEW r \in Runs, TaskInv, SetValue(r) \/ SetException(r)
  PROVE  Cell!Next \/ UNCHANGED <<CellNow, answer>>
<1> USE CallsAssumption
<1>t. OneResult
  BY DEF TaskInv
<1>1. CASE ready' = ready
  <2>1. UNCHANGED state
    BY <1>1, <1>t DEF SetValue, SetException, state, OneResult
  <2> QED
    BY <2>1, Stutter DEF SetValue, SetException
<1>2. CASE ready' # ready
  <2>1. ~ready /\ ready' /\ UNCHANGED answer
    BY <1>2 DEF SetValue, SetException
  <2>2. CellNow' \in {Value(r), Error(r)}
    BY <1>2, <1>t, <2>1 DEF SetValue, SetException, OneResult, CellNow, Value, Error
  <2>3. CellNow = NoAnswer
    BY <2>1 DEF CellNow
  <2> QED
    BY <2>1, <2>2, <2>3 DEF Cell!Next, Cell!Put
<1> QED
  BY <1>1, <1>2

\* A getter that is answered reads the cell, or finds the value gone after
\* another getter has read it.
LEMMA SeeStep ==
  ASSUME NEW g \in Getters, TaskInv, GetStep(g)
  PROVE  Cell!Next \/ UNCHANGED <<CellNow, answer>>
<1> USE CallsAssumption
<1>t. /\ TypeOK /\ CallsDoTheirPart /\ OneResult
      /\ ReadersSeeAValue /\ AnsweredAtTheEnd /\ MovedByAReader
  BY DEF TaskInv
<1>1. ASSUME GetOrWait(g), pc[g] \in {"idle", "woken"}
      PROVE  Cell!Next \/ UNCHANGED <<CellNow, answer>>
  <2>1. CASE answer' = answer
    BY <1>1, <2>1, Stutter DEF GetOrWait
  <2>2. CASE answer' # answer
    <3>1. /\ ready /\ except # Nobody
          /\ answer' = [answer EXCEPT ![g] = CellNow]
          /\ UNCHANGED CellNow
      BY <1>1, <2>2 DEF GetOrWait, state, CellNow
    <3>2. CellNow # NoAnswer
      BY <3>1, <1>t, AnswersDiffer DEF CellNow, TypeOK
    <3>3. answer[g] = NoAnswer
      BY <1>1, <1>t DEF AnsweredAtTheEnd
    <3> QED
      BY <3>1, <3>2, <3>3 DEF Cell!Next, Cell!See
  <2> QED
    BY <2>1, <2>2
<1>2. CASE Get(g)
  BY <1>1, <1>2 DEF Get
<1>3. CASE Woken(g)
  BY <1>1, <1>3 DEF Woken
<1>4. CASE Read(g)
  <2>1. /\ ready /\ except = Nobody /\ storage \in Runs
        /\ CellNow = Value(storage) /\ UNCHANGED CellNow
    BY <1>4, <1>t DEF Read, ReadersSeeAValue, OneResult, TypeOK, CellNow, state
  <2>2. CellNow # NoAnswer /\ answer[g] = NoAnswer
    BY <1>4, <1>t, <2>1, AnswersDiffer DEF Read, AnsweredAtTheEnd
  <2>3. CASE ~moved
    BY <1>4, <2>1, <2>2, <2>3 DEF Read, Cell!Next, Cell!See
  <2>4. CASE moved
    <3>1. \E h \in Getters : answer[h] # NoAnswer
      BY <2>4, <1>t DEF MovedByAReader, AnsweredAtTheEnd
    <3> QED
      BY <1>4, <2>1, <2>2, <2>4, <3>1 DEF Read, Cell!Next, Cell!See
  <2> QED
    BY <2>3, <2>4
<1>5. CASE Clear(g)
  BY <1>5 DEF Clear, CellNow
<1> QED
  BY <1>2, <1>3, <1>4, <1>5 DEF GetStep

(***************************************************************************)
(* A task with its futures implements the cell that is written once and    *)
(* read by every future: however runs, getters, spurious wake-ups and the  *)
(* moves of Future::Get interleave, nobody sees another result than the    *)
(* first, and a value is gone only for those who read after another.       *)
(***************************************************************************)
THEOREM TaskIsOnceCell == Spec => ImplementsOnceCell
<1>1. Init => Cell!Init
  BY DEF Init, Cell!Init, CellNow
<1>2. TaskInv /\ [Next]_vars => [Cell!Next]_<<CellNow, answer>>
  <2> SUFFICES ASSUME TaskInv, [Next]_vars
               PROVE  Cell!Next \/ UNCHANGED <<CellNow, answer>>
    OBVIOUS
  <2>1. ASSUME NEW r \in Runs, Start(r) \/ Abandon(r) \/ FunctionEnds(r) \/ Notify(r)
        PROVE  UNCHANGED <<CellNow, answer>>
    BY <2>1, Stutter DEF Start, Abandon, FunctionEnds, Notify
  <2>2. ASSUME NEW g \in Getters, WakeSpuriously(g)
        PROVE  UNCHANGED <<CellNow, answer>>
    BY <2>2, Stutter DEF WakeSpuriously
  <2>3. CASE UNCHANGED vars
    BY <2>3, Stutter DEF vars
  <2> QED
    BY <2>1, <2>2, <2>3, PutStep, SeeStep DEF Next, RunStep
<1> QED
  BY <1>1, <1>2, TaskInvariance, PTL DEF Spec, ImplementsOnceCell, Cell!Spec

=============================================================================
