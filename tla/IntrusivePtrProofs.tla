------------------------- MODULE IntrusivePtrProofs -------------------------
(***************************************************************************)
(* Proofs about IntrusivePtr, for any number of objects, pointers and      *)
(* threads: a count is what the pointers make it, and an object dies alone.*)
(***************************************************************************)
EXTENDS IntrusivePtr, FiniteSetTheorems, TLAPS

\* What the proofs carry from step to step.
CountInv == TypeOK /\ CountIsHolders /\ DestroyedAlone

\* How many of the slots f hold o.
Held(f, o) == Cardinality({x \in Slots : f[x] = o})

One(v, o) == IF v = o THEN 1 ELSE 0

LEMMA SlotsFinite == IsFiniteSet(Slots)
<1>1. IsFiniteSet(Ptrs) /\ IsFiniteSet(Threads)
  BY ObjectsAssumption
<1>2. IsFiniteSet({"ptr"}) /\ IsFiniteSet({"first", "second"})
  <2>1. IsFiniteSet({"ptr"}) /\ IsFiniteSet({"first"})
    BY FS_Singleton
  <2>2. {"first", "second"} = {"first"} \cup {"second"}
    OBVIOUS
  <2>3. IsFiniteSet({"first"} \cup {"second"})
    BY <2>1, FS_AddElement
  <2> QED
    BY <2>1, <2>2, <2>3
<1>3. IsFiniteSet(Ptrs \X {"ptr"}) /\ IsFiniteSet(Threads \X {"first", "second"})
  BY <1>1, <1>2, FS_Product
<1> QED
  BY <1>3, FS_Union DEF Slots

\* Slots of different pointers or threads, or of different kinds, are different.
LEMMA SlotsDiffer ==
  ASSUME NEW t \in Threads
  PROVE  /\ First(t) \in Slots /\ Second(t) \in Slots /\ First(t) # Second(t)
         /\ \A p \in Ptrs : Ptr(p) \in Slots /\ Ptr(p) # First(t) /\ Ptr(p) # Second(t)
         /\ \A p, q \in Ptrs : p # q => Ptr(p) # Ptr(q)
BY DEF Slots, Ptr, First, Second

\* The slots f once x has v.
Put(f, x, v) == [f EXCEPT ![x] = v]

\* A slot that takes v for what it held changes two numbers by one.
LEMMA SetSlot ==
  ASSUME NEW f \in [Slots -> Objects \cup {Null}], NEW x \in Slots,
         NEW v \in Objects \cup {Null}, NEW o \in Objects
  PROVE  /\ Held(f, o) \in Nat
         /\ Put(f, x, v) \in [Slots -> Objects \cup {Null}]
         /\ Put(f, x, v)[x] = v /\ \A y \in Slots : y # x => Put(f, x, v)[y] = f[y]
         /\ Held(Put(f, x, v), o) = Held(f, o) - One(f[x], o) + One(v, o)
<1> DEFINE g == [f EXCEPT ![x] = v]
           F == {y \in Slots : f[y] = o}
           G == {y \in Slots : g[y] = o}
<1>1. IsFiniteSet(F) /\ IsFiniteSet(G)
  BY SlotsFinite, FS_Subset
<1>2. g[x] = v /\ \A y \in Slots : y # x => g[y] = f[y]
  OBVIOUS
<1>3. Cardinality(F) \in Nat /\ Cardinality(G) \in Nat
  BY <1>1, FS_CardinalityType
<1>4. (x \in F <=> f[x] = o) /\ (x \in G <=> v = o) /\ F \ {x} = G \ {x}
  BY <1>2
<1> HIDE DEF F, G
<1>5. /\ Cardinality(F \ {x}) = Cardinality(F) - One(f[x], o)
      /\ Cardinality(F \ {x}) = Cardinality(G) - One(v, o)
  <2>1. /\ Cardinality(F \ {x}) = IF x \in F THEN Cardinality(F) - 1 ELSE Cardinality(F)
        /\ Cardinality(G \ {x}) = IF x \in G THEN Cardinality(G) - 1 ELSE Cardinality(G)
    BY <1>1, FS_RemoveElement
  <2> QED
    BY <1>3, <1>4, <2>1 DEF One
<1>6. Cardinality(G) = Cardinality(F) - One(f[x], o) + One(v, o)
  BY <1>3, <1>5 DEF One
<1> QED
  BY <1>2, <1>3, <1>6 DEF Held, F, G, g, Put

\* An object that a pointer holds is counted.
LEMMA HeldPositive ==
  ASSUME NEW f \in [Slots -> Objects \cup {Null}], NEW x \in Slots, f[x] \in Objects
  PROVE  Held(f, f[x]) \in Nat /\ Held(f, f[x]) >= 1
<1> DEFINE F == {y \in Slots : f[y] = f[x]}
<1>1. IsFiniteSet(F) /\ x \in F
  BY SlotsFinite, FS_Subset
<1>2. Cardinality(F) \in Nat /\ Cardinality(F \ {x}) \in Nat
      /\ Cardinality(F \ {x}) = Cardinality(F) - 1
  BY <1>1, FS_RemoveElement, FS_CardinalityType
<1> QED
  BY <1>2 DEF Held

\* Nothing is held iff the number is zero.
LEMMA HeldZero ==
  ASSUME NEW f \in [Slots -> Objects \cup {Null}], NEW o \in Objects, Held(f, o) = 0
  PROVE  \A x \in Slots : f[x] # o
BY HeldPositive

LEMMA InitCountInv == Init => CountInv
<1> SUFFICES ASSUME Init PROVE CountInv
  OBVIOUS
<1> USE ObjectsAssumption DEF Init
<1>1. TypeOK
  BY DEF TypeOK
<1>2. CountIsHolders
  <2>1. \A o \in Objects : Holders(o) = {}
    BY DEF Holders
  <2> QED
    BY <2>1, FS_EmptySet DEF CountIsHolders
<1>3. DestroyedAlone
  BY DEF DestroyedAlone
<1> QED
  BY <1>1, <1>2, <1>3 DEF CountInv

-----------------------------------------------------------------------------
\* What the count of o is to be over the slots f and the lives l.
Due(f, l, o) == Held(f, o) + IF l[o] = "unmade" THEN 0 ELSE Extra[o]

\* The invariant in terms of the numbers above.
LEMMA CountsAreDue ==
  ASSUME CountInv
  PROVE  /\ px \in [Slots -> Objects \cup {Null}] /\ useCount \in [Objects -> Nat]
         /\ \A o \in Objects : useCount[o] = Due(px, life, o) /\ Held(px, o) \in Nat
                                /\ Extra[o] \in Nat
<1>1. px \in [Slots -> Objects \cup {Null}] /\ useCount \in [Objects -> Nat]
  BY DEF CountInv, TypeOK
<1>2. \A o \in Objects : useCount[o] = Due(px, life, o)
  BY DEF CountInv, CountIsHolders, Holders, Due, Held
<1>3. \A o \in Objects : Held(px, o) \in Nat
  <2> TAKE o \in Objects
  <2>1. IsFiniteSet({x \in Slots : px[x] = o})
    BY SlotsFinite, FS_Subset
  <2> QED
    BY <2>1, FS_CardinalityType DEF Held
<1> QED
  BY <1>1, <1>2, <1>3, ObjectsAssumption

(***************************************************************************)
(* A step of a call that destroys nothing and gives the counts c to the    *)
(* slots f.                                                                *)
(***************************************************************************)
LEMMA CallKeeps ==
  ASSUME CountInv, NEW f \in [Slots -> Objects \cup {Null}], NEW c \in [Objects -> Nat],
         px' = f, useCount' = c, life' = life, last' = last, owner' \in [Ptrs -> Threads],
         \A o \in Objects : c[o] = Due(f, life, o),
         \A x \in Slots : f[x] # Null => \E y \in Slots : px[y] = f[x]
  PROVE  CountInv'
<1>1. TypeOK'
  BY DEF CountInv, TypeOK
<1>2. CountIsHolders'
  BY DEF CountIsHolders, Holders, Due, Held
<1>3. DestroyedAlone'
  <2>1. \A x \in Slots : f[x] # Null => life[f[x]] = "made"
    BY DEF CountInv, DestroyedAlone
  <2>2. ASSUME NEW t \in Threads, last[t] # Null
        PROVE  /\ life[last[t]] = "made" /\ \A x \in Slots : f[x] # last[t]
               /\ \A u \in Threads : last[u] = last[t] => u = t
    BY <2>2 DEF CountInv, DestroyedAlone, Holders
  <2> QED
    BY <2>1, <2>2 DEF DestroyedAlone, Holders
<1> QED
  BY <1>1, <1>2, <1>3 DEF CountInv

LEMMA CopyKeeps ==
  ASSUME CountInv, NEW t \in Threads, NEW p \in Ptrs, NEW q \in Ptrs, Copy(t, p, q)
  PROVE  CountInv'
<1> DEFINE a == px[Ptr(p)]
           b == px[Ptr(q)]
           g == Put(px, First(t), a)
           f == Put(g, Ptr(p), b)
           c == [useCount EXCEPT ![b] = @ + 1]
<1>1. /\ First(t) \in Slots /\ Ptr(p) \in Slots /\ Ptr(q) \in Slots
      /\ First(t) # Ptr(p) /\ First(t) # Ptr(q)
  BY SlotsDiffer
<1>2. /\ px[First(t)] = Null /\ a \in Objects \cup {Null} /\ b \in Objects /\ Null \notin Objects
      /\ px' = f /\ useCount' = c /\ life' = life /\ last' = last /\ owner' \in [Ptrs -> Threads]
  BY <1>1, CountsAreDue, ObjectsAssumption DEF Copy, MayUse, CountInv, TypeOK, Put
<1> HIDE DEF a, b, c
<1>3. /\ g \in [Slots -> Objects \cup {Null}] /\ g[Ptr(p)] = a
  BY <1>1, <1>2, CountsAreDue DEF a, Put
<1>4. \A o \in Objects : Held(g, o) = Held(px, o) - One(px[First(t)], o) + One(a, o)
  BY <1>1, <1>2, CountsAreDue, SetSlot
<1> HIDE DEF g
<1>5. f \in [Slots -> Objects \cup {Null}]
  BY <1>2, <1>3 DEF Put
<1>6. \A o \in Objects : Held(f, o) = Held(g, o) - One(g[Ptr(p)], o) + One(b, o)
  BY <1>1, <1>2, <1>3, SetSlot
<1>7. \A x \in Slots : f[x] # Null => \E y \in Slots : px[y] = f[x]
  <2> TAKE x \in Slots
  <2>1. f[x] \in {px[x], a, b}
    BY <1>1, <1>3, CountsAreDue DEF g, Put
  <2> QED
    BY <1>1, <2>1 DEF a, b
<1> HIDE DEF f
<1>8. c \in [Objects -> Nat] /\ \A o \in Objects : c[o] = useCount[o] + One(b, o)
  BY <1>2, CountsAreDue DEF c, One
<1>9. \A o \in Objects : c[o] = Due(f, life, o)
  <2> TAKE o \in Objects
  <2>1. /\ Held(f, o) = Held(px, o) - One(px[First(t)], o) + One(a, o) - One(g[Ptr(p)], o) + One(b, o)
        /\ useCount[o] = Due(px, life, o)
    BY <1>4, <1>6, CountsAreDue DEF One
  <2>2. One(px[First(t)], o) = 0 /\ g[Ptr(p)] = a
    BY <1>2, <1>3 DEF One
  <2> QED
    BY <1>8, <2>1, <2>2, CountsAreDue DEF Due, One
<1> QED
  BY <1>2, <1>5, <1>7, <1>8, <1>9, CallKeeps

LEMMA GetFutureKeeps ==
  ASSUME CountInv, NEW t \in Threads, NEW p \in Ptrs, NEW q \in Ptrs, GetFuture(t, p, q)
  PROVE  CountInv'
<1> DEFINE a == px[Ptr(p)]
           b == px[Ptr(q)]
           g1 == Put(px, First(t), b)
           f == Put(g1, Ptr(p), b)
           c == [useCount EXCEPT ![b] = @ + 2]
<1>1. /\ First(t) \in Slots /\ Second(t) \in Slots /\ Ptr(p) \in Slots /\ Ptr(q) \in Slots
      /\ First(t) # Second(t) /\ Ptr(p) # First(t) /\ Ptr(p) # Second(t)
      /\ Ptr(q) # First(t) /\ Ptr(q) # Second(t)
  BY SlotsDiffer
<1>2. /\ px[First(t)] = Null /\ px[Second(t)] = Null /\ Null \notin Objects
      /\ a \in Objects \cup {Null} /\ b \in Objects /\ a = Null
      /\ px' = f /\ useCount' = c /\ life' = life /\ last' = last /\ owner' \in [Ptrs -> Threads]
  BY <1>1, CountsAreDue, ObjectsAssumption DEF GetFuture, MayUse, CountInv, TypeOK, Put
<1> HIDE DEF c, a, b
<1>3. px[First(t)] = Null /\ px \in [Slots -> Objects \cup {Null}]
  BY <1>1, <1>2, CountsAreDue DEF a, b, Put
<1>4. \A o \in Objects : Held(g1, o) = Held(px, o) - One(px[First(t)], o) + One(b, o)
  BY <1>1, <1>2, <1>3, SetSlot
<1> HIDE DEF g1
<1>5. g1[Ptr(p)] = Null /\ g1 \in [Slots -> Objects \cup {Null}]
  BY <1>1, <1>2, CountsAreDue, <1>3 DEF a, b, g1, Put
<1>6. \A o \in Objects : Held(f, o) = Held(g1, o) - One(g1[Ptr(p)], o) + One(b, o)
  BY <1>1, <1>2, <1>5, SetSlot
<1>7. f \in [Slots -> Objects \cup {Null}]
  BY <1>1, <1>2, <1>5 DEF Put
<1>8. \A x \in Slots : f[x] # Null => \E y \in Slots : px[y] = f[x]
  <2> TAKE x \in Slots
  <2>1. f[x] \in {px[x], b}
    BY <1>1, CountsAreDue, <1>3, <1>5 DEF g1, Put
  <2> QED
    BY <1>1, <1>2, <2>1 DEF a, b
<1> HIDE DEF f
<1>9. c \in [Objects -> Nat] /\ \A o \in Objects : c[o] = useCount[o] + One(b, o) + One(b, o)
  BY <1>2, CountsAreDue DEF c, One
<1>10. \A o \in Objects : c[o] = Due(f, life, o)
  <2> TAKE o \in Objects
  <2>1. Held(f, o) = Held(px, o) - One(Null, o) + One(b, o) - One(Null, o) + One(b, o)
    BY <1>2, <1>3, <1>5, <1>4, <1>6, CountsAreDue DEF One
  <2> QED
    BY <1>2, <1>9, <2>1, CountsAreDue DEF Due, One
<1> QED
  BY <1>2, <1>7, <1>8, <1>9, <1>10, CallKeeps

LEMMA MoveKeeps ==
  ASSUME CountInv, NEW t \in Threads, NEW p \in Ptrs, NEW q \in Ptrs, Move(t, p, q)
  PROVE  CountInv'
<1> DEFINE a == px[Ptr(p)]
           b == px[Ptr(q)]
           g1 == Put(px, First(t), a)
           g2 == Put(g1, Ptr(p), b)
           f == Put(g2, Ptr(q), Null)
           c == useCount
<1>1. /\ First(t) \in Slots /\ Second(t) \in Slots /\ Ptr(p) \in Slots /\ Ptr(q) \in Slots
      /\ First(t) # Second(t) /\ Ptr(p) # First(t) /\ Ptr(p) # Second(t)
      /\ Ptr(q) # First(t) /\ Ptr(q) # Second(t) /\ Ptr(p) # Ptr(q)
  BY SlotsDiffer DEF Move
<1>2. /\ px[First(t)] = Null /\ px[Second(t)] = Null /\ Null \notin Objects
      /\ a \in Objects \cup {Null} /\ b \in Objects \cup {Null}
      /\ px' = f /\ useCount' = c /\ life' = life /\ last' = last /\ owner' \in [Ptrs -> Threads]
  BY <1>1, CountsAreDue, ObjectsAssumption DEF Move, MayUse, CountInv, TypeOK, Put
<1> HIDE DEF c, a, b
<1>3. px[First(t)] = Null /\ px \in [Slots -> Objects \cup {Null}]
  BY <1>1, <1>2, CountsAreDue DEF a, b, Put
<1>4. \A o \in Objects : Held(g1, o) = Held(px, o) - One(px[First(t)], o) + One(a, o)
  BY <1>1, <1>2, <1>3, SetSlot
<1> HIDE DEF g1
<1>5. g1[Ptr(p)] = a /\ g1 \in [Slots -> Objects \cup {Null}]
  BY <1>1, <1>2, CountsAreDue, <1>3 DEF a, b, g1, Put
<1>6. \A o \in Objects : Held(g2, o) = Held(g1, o) - One(g1[Ptr(p)], o) + One(b, o)
  BY <1>1, <1>2, <1>5, SetSlot
<1> HIDE DEF g2
<1>7. g2[Ptr(q)] = b /\ g2 \in [Slots -> Objects \cup {Null}]
  BY <1>1, <1>2, CountsAreDue, <1>3, <1>5 DEF a, b, g1, g2, Put
<1>8. \A o \in Objects : Held(f, o) = Held(g2, o) - One(g2[Ptr(q)], o) + One(Null, o)
  BY <1>1, <1>2, <1>7, SetSlot
<1>9. f \in [Slots -> Objects \cup {Null}]
  BY <1>1, <1>2, <1>7 DEF Put
<1>10. \A x \in Slots : f[x] # Null => \E y \in Slots : px[y] = f[x]
  <2> TAKE x \in Slots
  <2>1. f[x] \in {px[x], a, b, Null}
    BY <1>1, CountsAreDue, <1>3, <1>5, <1>7 DEF g1, g2, Put
  <2> QED
    BY <1>1, <1>2, <2>1 DEF a, b
<1> HIDE DEF f
<1>11. c \in [Objects -> Nat] /\ \A o \in Objects : c[o] = useCount[o]
  BY <1>2, CountsAreDue DEF c, One
<1>12. \A o \in Objects : c[o] = Due(f, life, o)
  <2> TAKE o \in Objects
  <2>1. Held(f, o) = Held(px, o) - One(Null, o) + One(a, o) - One(a, o) + One(b, o) - One(b, o) + One(Null, o)
    BY <1>2, <1>3, <1>5, <1>7, <1>4, <1>6, <1>8, CountsAreDue DEF One
  <2> QED
    BY <1>2, <1>11, <2>1, CountsAreDue DEF Due, One
<1> QED
  BY <1>2, <1>9, <1>10, <1>11, <1>12, CallKeeps

LEMMA MoveByCopyKeeps ==
  ASSUME CountInv, NEW t \in Threads, NEW p \in Ptrs, NEW q \in Ptrs, MoveByCopy(t, p, q)
  PROVE  CountInv'
<1> DEFINE a == px[Ptr(p)]
           b == px[Ptr(q)]
           g1 == Put(px, First(t), a)
           g2 == Put(g1, Ptr(p), b)
           g3 == Put(g2, Second(t), b)
           f == Put(g3, Ptr(q), Null)
           c == [useCount EXCEPT ![b] = @ + 1]
<1>1. /\ First(t) \in Slots /\ Second(t) \in Slots /\ Ptr(p) \in Slots /\ Ptr(q) \in Slots
      /\ First(t) # Second(t) /\ Ptr(p) # First(t) /\ Ptr(p) # Second(t)
      /\ Ptr(q) # First(t) /\ Ptr(q) # Second(t) /\ Ptr(p) # Ptr(q)
  BY SlotsDiffer DEF MoveByCopy
<1>2. /\ px[First(t)] = Null /\ px[Second(t)] = Null /\ Null \notin Objects
      /\ a \in Objects \cup {Null} /\ b \in Objects
      /\ px' = f /\ useCount' = c /\ life' = life /\ last' = last /\ owner' \in [Ptrs -> Threads]
  BY <1>1, CountsAreDue, ObjectsAssumption DEF MoveByCopy, MayUse, CountInv, TypeOK, Put
<1> HIDE DEF c, a, b
<1>3. px[First(t)] = Null /\ px \in [Slots -> Objects \cup {Null}]
  BY <1>1, <1>2, CountsAreDue DEF a, b, Put
<1>4. \A o \in Objects : Held(g1, o) = Held(px, o) - One(px[First(t)], o) + One(a, o)
  BY <1>1, <1>2, <1>3, SetSlot
<1> HIDE DEF g1
<1>5. g1[Ptr(p)] = a /\ g1 \in [Slots -> Objects \cup {Null}]
  BY <1>1, <1>2, CountsAreDue, <1>3 DEF a, b, g1, Put
<1>6. \A o \in Objects : Held(g2, o) = Held(g1, o) - One(g1[Ptr(p)], o) + One(b, o)
  BY <1>1, <1>2, <1>5, SetSlot
<1> HIDE DEF g2
<1>7. g2[Second(t)] = Null /\ g2 \in [Slots -> Objects \cup {Null}]
  BY <1>1, <1>2, CountsAreDue, <1>3, <1>5 DEF a, b, g1, g2, Put
<1>8. \A o \in Objects : Held(g3, o) = Held(g2, o) - One(g2[Second(t)], o) + One(b, o)
  BY <1>1, <1>2, <1>7, SetSlot
<1> HIDE DEF g3
<1>9. g3[Ptr(q)] = b /\ g3 \in [Slots -> Objects \cup {Null}]
  BY <1>1, <1>2, CountsAreDue, <1>3, <1>5, <1>7 DEF a, b, g1, g2, g3, Put
<1>10. \A o \in Objects : Held(f, o) = Held(g3, o) - One(g3[Ptr(q)], o) + One(Null, o)
  BY <1>1, <1>2, <1>9, SetSlot
<1>11. f \in [Slots -> Objects \cup {Null}]
  BY <1>1, <1>2, <1>9 DEF Put
<1>12. \A x \in Slots : f[x] # Null => \E y \in Slots : px[y] = f[x]
  <2> TAKE x \in Slots
  <2>1. f[x] \in {px[x], a, b, Null}
    BY <1>1, CountsAreDue, <1>3, <1>5, <1>7, <1>9 DEF g1, g2, g3, Put
  <2> QED
    BY <1>1, <1>2, <2>1 DEF a, b
<1> HIDE DEF f
<1>13. c \in [Objects -> Nat] /\ \A o \in Objects : c[o] = useCount[o] + One(b, o)
  BY <1>2, CountsAreDue DEF c, One
<1>14. \A o \in Objects : c[o] = Due(f, life, o)
  <2> TAKE o \in Objects
  <2>1. Held(f, o) = Held(px, o) - One(Null, o) + One(a, o) - One(a, o) + One(b, o) - One(Null, o) + One(b, o) - One(b, o) + One(Null, o)
    BY <1>2, <1>3, <1>5, <1>7, <1>9, <1>4, <1>6, <1>8, <1>10, CountsAreDue DEF One
  <2> QED
    BY <1>2, <1>13, <2>1, CountsAreDue DEF Due, One
<1> QED
  BY <1>2, <1>11, <1>12, <1>13, <1>14, CallKeeps

LEMMA SwapKeeps ==
  ASSUME CountInv, NEW t \in Threads, NEW p \in Ptrs, NEW q \in Ptrs, Swap(t, p, q)
  PROVE  CountInv'
<1> DEFINE a == px[Ptr(p)]
           b == px[Ptr(q)]
           g1 == Put(px, Ptr(p), b)
           f == Put(g1, Ptr(q), a)
           c == useCount
<1>1. /\ First(t) \in Slots /\ Second(t) \in Slots /\ Ptr(p) \in Slots /\ Ptr(q) \in Slots
      /\ First(t) # Second(t) /\ Ptr(p) # First(t) /\ Ptr(p) # Second(t)
      /\ Ptr(q) # First(t) /\ Ptr(q) # Second(t)
  BY SlotsDiffer
<1>2. /\ px[First(t)] = Null /\ px[Second(t)] = Null /\ Null \notin Objects
      /\ a \in Objects \cup {Null} /\ b \in Objects \cup {Null}
      /\ px' = f /\ useCount' = c /\ life' = life /\ last' = last /\ owner' \in [Ptrs -> Threads]
  BY <1>1, CountsAreDue, ObjectsAssumption DEF Swap, MayUse, CountInv, TypeOK, Put
<1> HIDE DEF c, a, b
<1>3. px[Ptr(p)] = a /\ px \in [Slots -> Objects \cup {Null}]
  BY <1>1, <1>2, CountsAreDue DEF a, b, Put
<1>4. \A o \in Objects : Held(g1, o) = Held(px, o) - One(px[Ptr(p)], o) + One(b, o)
  BY <1>1, <1>2, <1>3, SetSlot
<1> HIDE DEF g1
<1>5. g1[Ptr(q)] = b /\ g1 \in [Slots -> Objects \cup {Null}]
  BY <1>1, <1>2, CountsAreDue, <1>3 DEF a, b, g1, Put
<1>6. \A o \in Objects : Held(f, o) = Held(g1, o) - One(g1[Ptr(q)], o) + One(a, o)
  BY <1>1, <1>2, <1>5, SetSlot
<1>7. f \in [Slots -> Objects \cup {Null}]
  BY <1>1, <1>2, <1>5 DEF Put
<1>8. \A x \in Slots : f[x] # Null => \E y \in Slots : px[y] = f[x]
  <2> TAKE x \in Slots
  <2>1. f[x] \in {px[x], b, a}
    BY <1>1, CountsAreDue, <1>3, <1>5 DEF g1, Put
  <2> QED
    BY <1>1, <1>2, <2>1 DEF a, b
<1> HIDE DEF f
<1>9. c \in [Objects -> Nat] /\ \A o \in Objects : c[o] = useCount[o]
  BY <1>2, CountsAreDue DEF c, One
<1>10. \A o \in Objects : c[o] = Due(f, life, o)
  <2> TAKE o \in Objects
  <2>1. Held(f, o) = Held(px, o) - One(a, o) + One(b, o) - One(b, o) + One(a, o)
    BY <1>2, <1>3, <1>5, <1>4, <1>6, CountsAreDue DEF One
  <2> QED
    BY <1>2, <1>9, <2>1, CountsAreDue DEF Due, One
<1> QED
  BY <1>2, <1>7, <1>8, <1>9, <1>10, CallKeeps

LEMMA ResetKeeps ==
  ASSUME CountInv, NEW t \in Threads, NEW p \in Ptrs, Reset(t, p)
  PROVE  CountInv'
<1> DEFINE a == px[Ptr(p)]
           g1 == Put(px, First(t), a)
           f == Put(g1, Ptr(p), Null)
           c == useCount
<1>1. /\ First(t) \in Slots /\ Second(t) \in Slots /\ Ptr(p) \in Slots
      /\ First(t) # Second(t) /\ Ptr(p) # First(t) /\ Ptr(p) # Second(t)
  BY SlotsDiffer
<1>2. /\ px[First(t)] = Null /\ px[Second(t)] = Null /\ Null \notin Objects
      /\ a \in Objects \cup {Null}
      /\ px' = f /\ useCount' = c /\ life' = life /\ last' = last /\ owner' \in [Ptrs -> Threads]
  BY <1>1, CountsAreDue, ObjectsAssumption DEF Reset, MayUse, CountInv, TypeOK, Put
<1> HIDE DEF c, a
<1>3. px[First(t)] = Null /\ px \in [Slots -> Objects \cup {Null}]
  BY <1>1, <1>2, CountsAreDue DEF a, Put
<1>4. \A o \in Objects : Held(g1, o) = Held(px, o) - One(px[First(t)], o) + One(a, o)
  BY <1>1, <1>2, <1>3, SetSlot
<1> HIDE DEF g1
<1>5. g1[Ptr(p)] = a /\ g1 \in [Slots -> Objects \cup {Null}]
  BY <1>1, <1>2, CountsAreDue, <1>3 DEF a, g1, Put
<1>6. \A o \in Objects : Held(f, o) = Held(g1, o) - One(g1[Ptr(p)], o) + One(Null, o)
  BY <1>1, <1>2, <1>5, SetSlot
<1>7. f \in [Slots -> Objects \cup {Null}]
  BY <1>1, <1>2, <1>5 DEF Put
<1>8. \A x \in Slots : f[x] # Null => \E y \in Slots : px[y] = f[x]
  <2> TAKE x \in Slots
  <2>1. f[x] \in {px[x], a, Null}
    BY <1>1, CountsAreDue, <1>3, <1>5 DEF g1, Put
  <2> QED
    BY <1>1, <1>2, <2>1 DEF a
<1> HIDE DEF f
<1>9. c \in [Objects -> Nat] /\ \A o \in Objects : c[o] = useCount[o]
  BY <1>2, CountsAreDue DEF c, One
<1>10. \A o \in Objects : c[o] = Due(f, life, o)
  <2> TAKE o \in Objects
  <2>1. Held(f, o) = Held(px, o) - One(Null, o) + One(a, o) - One(a, o) + One(Null, o)
    BY <1>2, <1>3, <1>5, <1>4, <1>6, CountsAreDue DEF One
  <2> QED
    BY <1>2, <1>9, <2>1, CountsAreDue DEF Due, One
<1> QED
  BY <1>2, <1>7, <1>8, <1>9, <1>10, CallKeeps

LEMMA PassKeeps ==
  ASSUME CountInv, NEW t \in Threads, NEW p \in Ptrs, NEW u \in Threads, Pass(t, p, u)
  PROVE  CountInv'
<1>1. /\ px' = px /\ useCount' = useCount /\ life' = life /\ last' = last
      /\ owner' \in [Ptrs -> Threads]
  BY DEF Pass, CountInv, TypeOK
<1> QED
  BY <1>1, CountsAreDue, CallKeeps

\* A new object is held by the pointer made from it, and by nothing before.
LEMMA MakeKeeps ==
  ASSUME CountInv, NEW t \in Threads, NEW p \in Ptrs, NEW o \in Objects, Make(t, p, o)
  PROVE  CountInv'
<1> DEFINE a == px[Ptr(p)]
           g == Put(px, First(t), a)
           f == Put(g, Ptr(p), o)
           c == [useCount EXCEPT ![o] = Extra[o] + 1]
           l == [life EXCEPT ![o] = "made"]
<1>1. First(t) \in Slots /\ Ptr(p) \in Slots /\ Ptr(p) # First(t)
  BY SlotsDiffer
<1>2. /\ px[First(t)] = Null /\ Null \notin Objects /\ a \in Objects \cup {Null}
      /\ life[o] = "unmade" /\ life \in [Objects -> {"unmade", "made", "dead"}]
      /\ px' = f /\ useCount' = c /\ life' = l /\ last' = last /\ owner' \in [Ptrs -> Threads]
  BY <1>1, CountsAreDue, ObjectsAssumption DEF Make, MayUse, CountInv, TypeOK, Put
<1>3. \A x \in Slots : px[x] # o
  BY <1>2 DEF CountInv, DestroyedAlone
<1>4. Held(px, o) = 0
  <2>1. {x \in Slots : px[x] = o} = {}
    BY <1>3
  <2> QED
    BY <2>1, FS_EmptySet DEF Held
<1>5. l \in [Objects -> {"unmade", "made", "dead"}]
      /\ l[o] = "made" /\ \A q \in Objects : q # o => l[q] = life[q]
  BY <1>2
<1>6. c \in [Objects -> Nat] /\ c[o] = Extra[o] + 1
      /\ \A q \in Objects : q # o => c[q] = useCount[q]
  BY CountsAreDue
<1> HIDE DEF a, c, l
<1>7. g[Ptr(p)] = a /\ g \in [Slots -> Objects \cup {Null}]
  BY <1>1, <1>2, CountsAreDue DEF a, Put
<1>8. \A q \in Objects : Held(g, q) = Held(px, q) - One(px[First(t)], q) + One(a, q)
  BY <1>1, <1>2, CountsAreDue, SetSlot
<1> HIDE DEF g
<1>9. \A q \in Objects : Held(f, q) = Held(g, q) - One(g[Ptr(p)], q) + One(o, q)
  BY <1>1, <1>7, SetSlot
<1>10. f \in [Slots -> Objects \cup {Null}]
  BY <1>7 DEF Put
<1>11. \A x \in Slots : f[x] = o \/ f[x] = px[x] \/ f[x] = px[Ptr(p)]
  BY <1>1, <1>2, <1>7, CountsAreDue DEF g, a, Put
<1> HIDE DEF f
<1>12. \A q \in Objects : Held(f, q) = Held(px, q) + One(o, q)
  BY <1>2, <1>7, <1>8, <1>9, CountsAreDue DEF One
<1>13. \A q \in Objects : c[q] = Due(f, l, q)
  <2> TAKE q \in Objects
  <2>1. CASE q = o
    BY <1>4, <1>5, <1>6, <1>12, <2>1, CountsAreDue DEF Due, One
  <2>2. CASE q # o
    BY <1>5, <1>6, <1>12, <2>2, CountsAreDue DEF Due, One
  <2> QED
    BY <2>1, <2>2
<1>14. TypeOK'
  BY <1>2, <1>5, <1>6, <1>10 DEF CountInv, TypeOK
<1>15. CountIsHolders'
  BY <1>2, <1>13 DEF CountIsHolders, Holders, Due, Held
<1>16. DestroyedAlone'
  <2>1. \A x \in Slots : f[x] # Null => l[f[x]] = "made"
    <3> TAKE x \in Slots
    <3>1. \A y \in Slots : px[y] # Null => px[y] \in Objects /\ life[px[y]] = "made"
      BY CountsAreDue DEF CountInv, DestroyedAlone
    <3> QED
      BY <1>1, <1>5, <1>11, <3>1
  <2>2. ASSUME NEW u \in Threads, last[u] # Null
        PROVE  /\ l[last[u]] = "made" /\ \A x \in Slots : f[x] # last[u]
               /\ \A v \in Threads : last[v] = last[u] => v = u
    <3>1. /\ last[u] \in Objects /\ life[last[u]] = "made"
          /\ \A x \in Slots : px[x] # last[u]
          /\ \A v \in Threads : last[v] = last[u] => v = u
      BY <2>2 DEF CountInv, TypeOK, DestroyedAlone, Holders
    <3>2. last[u] # o
      BY <1>2, <3>1
    <3> QED
      BY <1>1, <1>5, <1>11, <3>1, <3>2
  <2> QED
    BY <1>2, <2>1, <2>2 DEF DestroyedAlone, Holders
<1> QED
  BY <1>14, <1>15, <1>16 DEF CountInv

\* Who brings a count to zero has taken the last pointer away.
LEMMA ReleaseKeeps ==
  ASSUME CountInv, NEW t \in Threads, Release(t)
  PROVE  CountInv'
<1> DEFINE y == ToRelease(t)
           o == px[y]
           f == Put(px, y, Null)
           c == [useCount EXCEPT ![o] = @ - 1]
           k == [last EXCEPT ![t] = IF useCount[o] = 1 THEN o ELSE Null]
<1>1. y \in Slots
  BY SlotsDiffer DEF ToRelease
<1>2. /\ last[t] = Null /\ o \in Objects /\ Null \notin Objects /\ life[o] = "made"
      /\ last \in [Threads -> Objects \cup {Null}]
      /\ px' = f /\ useCount' = c /\ last' = k /\ life' = life /\ owner' = owner
  BY <1>1, CountsAreDue, ObjectsAssumption DEF Release, CountInv, TypeOK, DestroyedAlone, Put
<1>3. Held(px, o) >= 1
  BY <1>1, <1>2, CountsAreDue, HeldPositive
<1>4. useCount[o] = Held(px, o) + Extra[o] /\ Extra[o] \in Nat /\ Held(px, o) \in Nat
      /\ useCount[o] \in Nat
  BY <1>2, CountsAreDue DEF Due
<1>5. /\ c \in [Objects -> Nat] /\ c[o] = useCount[o] - 1
      /\ \A q \in Objects : q # o => c[q] = useCount[q]
  BY <1>2, <1>3, <1>4, CountsAreDue
<1>6. /\ k \in [Threads -> Objects \cup {Null}]
      /\ k[t] = IF useCount[o] = 1 THEN o ELSE Null
      /\ \A u \in Threads : u # t => k[u] = last[u]
  BY <1>2
<1>7. \A u \in Threads : last[u] # o
  BY <1>1, <1>2 DEF CountInv, DestroyedAlone, Holders
<1>8. f[y] = Null /\ \A x \in Slots : x # y => f[x] = px[x]
  BY <1>1, CountsAreDue DEF Put
<1> HIDE DEF y, o, c, k
<1>9. \A q \in Objects : Held(f, q) = Held(px, q) - One(px[y], q) + One(Null, q)
  BY <1>1, CountsAreDue, SetSlot
<1>10. f \in [Slots -> Objects \cup {Null}]
  BY CountsAreDue DEF Put
<1> HIDE DEF f
<1>11. \A q \in Objects : Held(f, q) = Held(px, q) - One(o, q)
  BY <1>2, <1>9, CountsAreDue DEF One, o
<1>12. \A q \in Objects : c[q] = Due(f, life, q)
  <2> TAKE q \in Objects
  <2>1. CASE q = o
    BY <1>2, <1>4, <1>5, <1>11, <2>1 DEF Due, One
  <2>2. CASE q # o
    BY <1>5, <1>11, <2>2, CountsAreDue DEF Due, One
  <2> QED
    BY <2>1, <2>2
<1>13. TypeOK'
  BY <1>2, <1>5, <1>6, <1>10 DEF CountInv, TypeOK
<1>14. CountIsHolders'
  BY <1>2, <1>12 DEF CountIsHolders, Holders, Due, Held
<1>15. useCount[o] = 1 => \A x \in Slots : f[x] # o
  <2> SUFFICES ASSUME useCount[o] = 1 PROVE \A x \in Slots : f[x] # o
    OBVIOUS
  <2>1. Held(f, o) = 0
    BY <1>2, <1>3, <1>4, <1>11 DEF One
  <2> QED
    BY <1>2, <1>10, <2>1, HeldZero
<1>16. DestroyedAlone'
  <2>1. \A x \in Slots : f[x] # Null => life[f[x]] = "made"
    BY <1>8 DEF CountInv, DestroyedAlone
  <2>2. ASSUME NEW u \in Threads, k[u] # Null
        PROVE  /\ life[k[u]] = "made" /\ \A x \in Slots : f[x] # k[u]
               /\ \A v \in Threads : k[v] = k[u] => v = u
    <3>1. CASE u = t
      <4>1. k[u] = o /\ useCount[o] = 1
        BY <1>6, <2>2, <3>1
      <4> QED
        BY <1>2, <1>6, <1>7, <1>15, <3>1, <4>1
    <3>2. CASE u # t
      <4>1. /\ k[u] = last[u] /\ life[last[u]] = "made" /\ \A x \in Slots : px[x] # last[u]
            /\ \A v \in Threads : last[v] = last[u] => v = u
        BY <1>6, <2>2, <3>2 DEF CountInv, DestroyedAlone, Holders
      <4>2. k[t] # last[u]
        BY <1>6, <1>7, <2>2, <4>1
      <4> QED
        BY <1>6, <1>8, <2>2, <4>1, <4>2
    <3> QED
      BY <3>1, <3>2
  <2> QED
    BY <1>2, <2>1, <2>2 DEF DestroyedAlone, Holders
<1> QED
  BY <1>13, <1>14, <1>16 DEF CountInv

LEMMA DestroyKeeps ==
  ASSUME CountInv, NEW t \in Threads, Destroy(t)
  PROVE  CountInv'
<1> DEFINE o == last[t]
           l == [life EXCEPT ![o] = IF o \in Frees THEN "dead" ELSE @]
           k == [last EXCEPT ![t] = Null]
<1>1. /\ o \in Objects /\ life[o] = "made" /\ \A x \in Slots : px[x] # o
      /\ \A u \in Threads : last[u] = o => u = t
      /\ last \in [Threads -> Objects \cup {Null}]
      /\ life \in [Objects -> {"unmade", "made", "dead"}]
      /\ px' = px /\ useCount' = useCount /\ owner' = owner /\ last' = k /\ life' = l
  BY DEF Destroy, CountInv, TypeOK, DestroyedAlone, Holders
<1>2. /\ l \in [Objects -> {"unmade", "made", "dead"}] /\ l[o] \in {"made", "dead"}
      /\ \A q \in Objects : q # o => l[q] = life[q]
  BY <1>1
<1>3. /\ k \in [Threads -> Objects \cup {Null}] /\ k[t] = Null
      /\ \A u \in Threads : u # t => k[u] = last[u]
  BY <1>1
<1> HIDE DEF o, l, k
<1>4. TypeOK'
  BY <1>1, <1>2, <1>3 DEF CountInv, TypeOK
<1>5. CountIsHolders'
  <2>1. \A q \in Objects : (l[q] = "unmade") <=> (life[q] = "unmade")
    BY <1>1, <1>2
  <2> QED
    BY <1>1, <2>1 DEF CountInv, CountIsHolders, Holders
<1>6. DestroyedAlone'
  <2>1. \A x \in Slots : px[x] # Null => l[px[x]] = "made"
    <3> TAKE x \in Slots
    <3>1. px[x] # Null => px[x] \in Objects /\ life[px[x]] = "made" /\ px[x] # o
      BY <1>1, CountsAreDue DEF CountInv, DestroyedAlone
    <3> QED
      BY <1>2, <3>1
  <2>2. ASSUME NEW u \in Threads, k[u] # Null
        PROVE  /\ l[k[u]] = "made" /\ \A x \in Slots : px[x] # k[u]
               /\ \A v \in Threads : k[v] = k[u] => v = u
    <3>1. u # t /\ k[u] = last[u] /\ last[u] \in Objects /\ last[u] # o
      BY <1>1, <1>3, <2>2
    <3>2. /\ life[last[u]] = "made" /\ \A x \in Slots : px[x] # last[u]
          /\ \A v \in Threads : last[v] = last[u] => v = u
      BY <2>2, <3>1 DEF CountInv, DestroyedAlone, Holders
    <3> QED
      BY <1>2, <1>3, <2>2, <3>1, <3>2
  <2> QED
    BY <1>1, <2>1, <2>2 DEF DestroyedAlone, Holders
<1> QED
  BY <1>4, <1>5, <1>6 DEF CountInv

-----------------------------------------------------------------------------
LEMMA NextCountInv == CountInv /\ [Next]_vars => CountInv'
<1> SUFFICES ASSUME CountInv, [Next]_vars PROVE CountInv'
  OBVIOUS
<1>1. CASE UNCHANGED vars
  BY <1>1 DEF vars, CountInv, TypeOK, CountIsHolders, DestroyedAlone, Holders
<1>2. CASE Next
  BY <1>2, MakeKeeps, CopyKeeps, GetFutureKeeps, MoveKeeps, MoveByCopyKeeps, SwapKeeps,
     ResetKeeps, PassKeeps, ReleaseKeeps, DestroyKeeps DEF Next
<1> QED
  BY <1>1, <1>2

\* The three invariants together, each of which needs the others.
LEMMA CountInvariance == Spec => []CountInv
<1>1. Init => CountInv
  BY InitCountInv
<1>2. CountInv /\ [Next]_vars => CountInv'
  BY NextCountInv
<1> QED
  BY <1>1, <1>2, PTL DEF Spec

\* The variables keep their types: no count is released below zero.
THEOREM CountTypes == Spec => []TypeOK
<1>1. CountInv => TypeOK
  BY DEF CountInv
<1> QED
  BY <1>1, CountInvariance, PTL

\* The count of an object (Context.h:107-125, SharedState.h:64-76) is the
\* number of pointers to it, whatever several threads do between the steps of
\* each other's calls.
THEOREM CountsAreHolders == Spec => []CountIsHolders
<1>1. CountInv => CountIsHolders
  BY DEF CountInv
<1> QED
  BY <1>1, CountInvariance, PTL

\* Whoever destroys an object (Context.h:116-123) is alone with it.
THEOREM DiesAlone == Spec => []DestroyedAlone
<1>1. CountInv => DestroyedAlone
  BY DEF CountInv
<1> QED
  BY <1>1, CountInvariance, PTL

=============================================================================
