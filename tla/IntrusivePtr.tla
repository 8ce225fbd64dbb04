---------------------------- MODULE IntrusivePtr ----------------------------
(***************************************************************************)
(* The reference counts of contexts and shared states, and the objects of  *)
(* class intrusive_ptr that keep them: Fiber::impl_, dispatcherContext_,   *)
(* PackagedTask::task_, FutureBase::state_.  Several threads work on the   *)
(* counts at once; a pointer itself belongs to one thread at a time, as    *)
(* the fiber or task that it is a part of does.                            *)
(*                                                                         *)
(* A step is one atomic operation on a count, with the assignments to the  *)
(* thread's own pointers around it; only GetFuture makes its two           *)
(* increments at once, which no other step can tell apart, since the       *)
(* pointer they start from keeps the count above zero.  What a call still  *)
(* has to release is in its temporaries.                                   *)
(***************************************************************************)
EXTENDS Integers, FiniteSets

CONSTANTS
  Objects,  (* the contexts and shared states                              *)
  Ptrs,     (* the intrusive_ptr objects of the program                    *)
  Threads,
  Extra,    (* [Objects -> Nat], the count an object is constructed with:
               1 for worker and main contexts, 0 for the rest              *)
  Frees,    (* the objects whose last release destroys them: the contexts  *)
  Null

ASSUME ObjectsAssumption ==
  /\ IsFiniteSet(Ptrs) /\ IsFiniteSet(Threads)
  /\ Extra \in [Objects -> Nat]
  /\ Frees \subseteq Objects
  /\ Null \notin Objects

Ptr(p)    == <<p, "ptr">>
First(t)  == <<t, "first">>
Second(t) == <<t, "second">>

Slots == (Ptrs \X {"ptr"}) \cup (Threads \X {"first", "second"})

VARIABLES
  px,        (* [Slots -> Objects or Null]                                   *)
  owner,     (* [Ptrs -> Threads], the thread that may use a pointer         *)
  useCount,  (* [Objects -> Nat], useCount_                                  *)
  last,      (* [Threads -> Objects or Null], whose count it brought to zero *)
  life       (* [Objects -> {"unmade", "made", "dead"}]                      *)

vars == <<px, owner, useCount, last, life>>

Init ==
  /\ px = [x \in Slots |-> Null]
  /\ owner \in [Ptrs -> Threads]
  /\ useCount = [o \in Objects |-> 0]
  /\ last = [t \in Threads |-> Null]
  /\ life = [o \in Objects |-> "unmade"]

Holders(o) == {x \in Slots : px[x] = o}

\* The thread t has finished its call and may make another one, with p.
MayUse(t, p) ==
  /\ owner[p] = t
  /\ px[First(t)] = Null /\ px[Second(t)] = Null /\ last[t] = Null

-----------------------------------------------------------------------------
\* Fiber's and PackagedTask's constructors: a new object, and p = Ptr(object).
Make(t, p, o) ==
  /\ MayUse(t, p) /\ life[o] = "unmade"
  /\ life' = [life EXCEPT ![o] = "made"]
  /\ useCount' = [useCount EXCEPT ![o] = Extra[o] + 1]
  /\ px' = [px EXCEPT ![First(t)] = px[Ptr(p)], ![Ptr(p)] = o]
  /\ UNCHANGED <<owner, last>>

\* Mutant of Copy: the count is not raised.
CopyUncounted(t, p, q) ==
  /\ MayUse(t, p) /\ MayUse(t, q) /\ px[Ptr(q)] # Null
  /\ px' = [px EXCEPT ![First(t)] = px[Ptr(p)], ![Ptr(p)] = px[Ptr(q)]]
  /\ UNCHANGED <<useCount, owner, last, life>>

\* p = q
Copy(t, p, q) ==
  /\ MayUse(t, p) /\ MayUse(t, q) /\ px[Ptr(q)] # Null
  /\ useCount' = [useCount EXCEPT ![px[Ptr(q)]] = @ + 1]
  /\ px' = [px EXCEPT ![First(t)] = px[Ptr(p)], ![Ptr(p)] = px[Ptr(q)]]
  /\ UNCHANGED <<owner, last, life>>

\* PackagedTask::GetFuture: static_pointer_cast makes a counted temporary, from
\* which the new future's state_ is copied.
GetFuture(t, p, q) ==
  /\ MayUse(t, p) /\ MayUse(t, q) /\ px[Ptr(q)] # Null /\ px[Ptr(p)] = Null
  /\ useCount' = [useCount EXCEPT ![px[Ptr(q)]] = @ + 2]
  /\ px' = [px EXCEPT ![First(t)] = px[Ptr(q)], ![Ptr(p)] = px[Ptr(q)]]
  /\ UNCHANGED <<owner, last, life>>

\* p = std::move(q): a temporary takes over q and is swapped with p.
Move(t, p, q) ==
  /\ MayUse(t, p) /\ MayUse(t, q) /\ p # q
  /\ px' = [px EXCEPT ![First(t)] = px[Ptr(p)], ![Ptr(p)] = px[Ptr(q)],
                      ![Ptr(q)] = Null]
  /\ UNCHANGED <<owner, useCount, last, life>>

\* Mutant of MoveByCopy: the pointer moved from is emptied without a release.
MoveByCopyUnreleased(t, p, q) ==
  /\ MayUse(t, p) /\ MayUse(t, q) /\ p # q /\ px[Ptr(q)] # Null
  /\ useCount' = [useCount EXCEPT ![px[Ptr(q)]] = @ + 1]
  /\ px' = [px EXCEPT ![First(t)] = px[Ptr(p)], ![Ptr(p)] = px[Ptr(q)],
                      ![Ptr(q)] = Null]
  /\ UNCHANGED <<owner, last, life>>

\* FutureBase's move constructor and move assignment: a copy, then reset.
MoveByCopy(t, p, q) ==
  /\ MayUse(t, p) /\ MayUse(t, q) /\ p # q /\ px[Ptr(q)] # Null
  /\ useCount' = [useCount EXCEPT ![px[Ptr(q)]] = @ + 1]
  /\ px' = [px EXCEPT ![First(t)] = px[Ptr(p)], ![Ptr(p)] = px[Ptr(q)],
                      ![Second(t)] = px[Ptr(q)], ![Ptr(q)] = Null]
  /\ UNCHANGED <<owner, last, life>>

\* Fiber's moves, and Future::Get, which swaps its state with a temporary.
Swap(t, p, q) ==
  /\ MayUse(t, p) /\ MayUse(t, q)
  /\ px' = [px EXCEPT ![Ptr(p)] = px[Ptr(q)], ![Ptr(q)] = px[Ptr(p)]]
  /\ UNCHANGED <<owner, useCount, last, life>>

\* reset() in Fiber::Join and Detach, and every destructor of a pointer.
Reset(t, p) ==
  /\ MayUse(t, p) /\ px[Ptr(p)] # Null
  /\ px' = [px EXCEPT ![First(t)] = px[Ptr(p)], ![Ptr(p)] = Null]
  /\ UNCHANGED <<owner, useCount, last, life>>

\* What holds the pointer goes to another thread.
Pass(t, p, u) ==
  /\ MayUse(t, p)
  /\ owner' = [owner EXCEPT ![p] = u]
  /\ UNCHANGED <<px, useCount, last, life>>

-----------------------------------------------------------------------------
\* The temporaries of a call die one after the other.
ToRelease(t) == IF px[First(t)] # Null THEN First(t) ELSE Second(t)

\* Mutant of Release: the count that fetch_sub leaves is taken for the one it
\* returns.
ReleaseEarly(t) ==
  /\ last[t] = Null /\ px[ToRelease(t)] # Null
  /\ LET o == px[ToRelease(t)] IN
     /\ useCount' = [useCount EXCEPT ![o] = @ - 1]
     /\ last' = [last EXCEPT ![t] = IF useCount[o] - 1 = 1 THEN o ELSE Null]
  /\ px' = [px EXCEPT ![ToRelease(t)] = Null]
  /\ UNCHANGED <<owner, life>>

\* intrusive_ptr_release up to its test.
Release(t) ==
  /\ last[t] = Null /\ px[ToRelease(t)] # Null
  /\ LET o == px[ToRelease(t)] IN
     /\ useCount' = [useCount EXCEPT ![o] = @ - 1]
     /\ last' = [last EXCEPT ![t] = IF useCount[o] = 1 THEN o ELSE Null]
  /\ px' = [px EXCEPT ![ToRelease(t)] = Null]
  /\ UNCHANGED <<owner, life>>

\* The rest of intrusive_ptr_release: a context is destroyed, a shared state
\* is left as it is.
Destroy(t) ==
  /\ last[t] # Null
  /\ life' = [life EXCEPT ![last[t]] = IF last[t] \in Frees THEN "dead" ELSE @]
  /\ last' = [last EXCEPT ![t] = Null]
  /\ UNCHANGED <<px, owner, useCount>>

Next ==
  \E t \in Threads :
    \/ \E p \in Ptrs :
         \/ \E o \in Objects : Make(t, p, o)
         \/ \E q \in Ptrs :
              \/ Copy(t, p, q)
              \/ GetFuture(t, p, q)
              \/ Move(t, p, q)
              \/ MoveByCopy(t, p, q)
              \/ Swap(t, p, q)
         \/ Reset(t, p)
         \/ \E u \in Threads : Pass(t, p, u)
    \/ Release(t)
    \/ Destroy(t)

Spec == Init /\ [][Next]_vars

\* A call that has begun is carried on.
FairSpec == Spec /\ \A t \in Threads : WF_vars(Release(t) \/ Destroy(t))

-----------------------------------------------------------------------------
\* The values of every variable; no count is released below zero.
TypeOK ==
  /\ px \in [Slots -> Objects \cup {Null}]
  /\ owner \in [Ptrs -> Threads]
  /\ useCount \in [Objects -> Nat]
  /\ last \in [Threads -> Objects \cup {Null}]
  /\ life \in [Objects -> {"unmade", "made", "dead"}]

(***************************************************************************)
(* The count of an object is what it was constructed with and one for each *)
(* pointer to it, temporaries included, whatever other threads do between  *)
(* the steps of a call.                                                    *)
(***************************************************************************)
CountIsHolders ==
  \A o \in Objects :
    useCount[o] = Cardinality(Holders(o)) + IF life[o] = "unmade" THEN 0 ELSE Extra[o]

(***************************************************************************)
(* Whoever destroys an object is alone with it: no pointer is left to it,  *)
(* no other thread is about to destroy it, and none has.                   *)
(***************************************************************************)
DestroyedAlone ==
  /\ \A x \in Slots : px[x] # Null => life[px[x]] = "made"
  /\ \A t \in Threads : last[t] # Null =>
       /\ life[last[t]] = "made"
       /\ Holders(last[t]) = {}
       /\ \A u \in Threads : last[u] = last[t] => u = t

(***************************************************************************)
(* A context to which no pointer is left is destroyed, if it was           *)
(* constructed with a count of zero, as the dispatcher's is.               *)
(***************************************************************************)
UnheldIsDestroyed ==
  \A o \in Frees : Extra[o] = 0 =>
    (life[o] = "made" /\ Holders(o) = {}) ~> life[o] = "dead"

=============================================================================
