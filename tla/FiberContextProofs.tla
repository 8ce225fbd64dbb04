------------------------- MODULE FiberContextProofs -------------------------
(***************************************************************************)
(* Proofs about FiberContext, for any number of stacks and handles: the    *)
(* invariant StacksInv, and what follows from it.                          *)
(***************************************************************************)
EXTENDS FiberContext, TLAPS

\* Slots of different stacks or of different kinds are different.
LEMMA SlotsDiffer ==
  ASSUME NEW s \in Stacks, NEW u \in Stacks
  PROVE  /\ Param(s) \in Slots /\ Dying(s) \in Slots /\ Entry(s) \in Slots
         /\ Param(s) # Dying(u) /\ Param(s) # Entry(u) /\ Dying(s) # Entry(u)
         /\ s # u => /\ Param(s) # Param(u) /\ Dying(s) # Dying(u)
                     /\ Entry(s) # Entry(u)
BY DEF Slots, Param, Dying, Entry

\* A handle is neither a temporary nor a t.fctx, and a parameter only of the
\* stack that can use it.
LEMMA HandlesAreSlots ==
  ASSUME NEW s \in Stacks, NEW h \in Handles(s)
  PROVE  /\ h \in Slots
         /\ \A u \in Stacks : h # Dying(u) /\ h # Entry(u) /\ (h = Param(u) => u = s)
BY DEF Handles, Slots, Param, Dying, Entry, Stacks

\* A variable of the program is a handle of every stack.
LEMMA VarsAreHandles ==
  ASSUME NEW s \in Stacks, NEW v \in Names
  PROVE  Var(v) \in Handles(s) /\ \A u \in Stacks : Var(v) # Param(u)
BY DEF Handles, Var, Param

\* Before any jump the program's stack runs, and nothing is parked.
LEMMA InitStacksInv == Init => StacksInv
<1> SUFFICES ASSUME Init PROVE StacksInv
  OBVIOUS
<1> USE StacksAssumption DEF Init
<1>1. TypeOK
  BY DEF TypeOK, Modes, Stacks
<1>2. \A s \in Stacks : fctx[Param(s)] = Null /\ fctx[Dying(s)] = Null /\ fctx[Entry(s)] = Null
  BY SlotsDiffer
<1>3. EachParkedOnce
  BY DEF EachParkedOnce, Holds, Live, Stacks
<1>4. OnlyRunningDrops /\ OnlyEndingExits /\ OnlyEnteredHasParam /\ RunningIsCalled
  BY <1>2 DEF OnlyRunningDrops, OnlyEndingExits, OnlyEnteredHasParam, RunningIsCalled, Stacks
<1>5. EndingIsAwaited
  BY DEF EndingIsAwaited, Holds, Stacks
<1> QED
  BY <1>1, <1>3, <1>4, <1>5 DEF StacksInv

-----------------------------------------------------------------------------
(***************************************************************************)
(* What a jump to the stack s that takes c along has to leave in the slots *)
(* f and the modes m for Deliver to find them in order.                    *)
(***************************************************************************)
InOrder(s, c, f, m) ==
  /\ f \in [Slots -> Stacks \cup {Null}] /\ m \in [Stacks -> Modes]
  /\ m[Root] = "code"
  /\ \A q \in Stacks : (\E x \in Slots : f[x] = q) <=>
                       (m[q] \in {"entry", "code", "ending"} /\ q # s /\ q # c)
  /\ \A x, y \in Slots : f[x] # Null /\ f[x] = f[y] => x = y
  /\ \A q \in Stacks : f[Dying(q)] = Null
  /\ \A q \in Stacks : f[Entry(q)] # Null => m[q] = "ending"
  /\ \A q \in Stacks : f[Param(q)] # Null => m[q] \in {"code", "ending"}
  /\ \A x \in Slots, q \in Stacks :
       f[x] = q /\ m[q] = "ending" => \E u \in Stacks : x = Entry(u)
  /\ s \in Stacks /\ m[s] \in {"entry", "code", "ending"} /\ c # s
  /\ c # Null => c \in Stacks /\ m[c] \in {"entry", "code"}

\* The jump then keeps the invariant.
LEMMA DeliverKeeps ==
  ASSUME TypeOK, NEW s, NEW c \in Stacks \cup {Null}, NEW f, NEW m,
         InOrder(s, c, f, m), Deliver(s, c, f, m),
         \A q \in Stacks : dest'[q] \in Handles(q) \cup {Dying(q)},
         DOMAIN dest' = Stacks, halted' = halted
  PROVE  StacksInv'
<1> USE StacksAssumption
<1>s. s \in Stacks
  BY DEF InOrder
<1>n. Null \notin Stacks /\ c # s
  BY DEF InOrder, Stacks
<1>1. CASE m[s] = "entry"
  <2>1. /\ running' = s /\ fctx' = [f EXCEPT ![Param(s)] = c]
        /\ mode' = [m EXCEPT ![s] = "code"]
    BY <1>1 DEF Deliver
  <2>2. f[Param(s)] = Null
    BY <1>1, <1>s DEF InOrder
  <2>3. TypeOK'
    <3>1. /\ mode' \in [Stacks -> Modes] /\ mode'[Root] = "code"
          /\ fctx' \in [Slots -> Stacks \cup {Null}]
      BY <1>s, <2>1 DEF InOrder, Modes, Stacks
    <3> QED
      BY <1>s, <2>1, <3>1 DEF TypeOK
  <2>4. /\ fctx'[Param(s)] = c
        /\ \A x \in Slots : x # Param(s) => fctx'[x] = f[x]
    BY <2>1, <1>s, SlotsDiffer DEF InOrder
  <2>5. /\ mode'[s] = "code"
        /\ \A q \in Stacks : q # s => mode'[q] = m[q]
    BY <2>1, <1>s DEF InOrder
  <2>6. EachParkedOnce'
    <3>1. \A q \in Stacks : (\E x \in Slots : fctx'[x] = q) <=> (Live(q)' /\ q # s)
      <4> SUFFICES ASSUME NEW q \in Stacks
                   PROVE  (\E x \in Slots : fctx'[x] = q) <=> (Live(q)' /\ q # s)
        OBVIOUS
      <4>1. CASE q = c
        <5>1. Live(q)' /\ q # s
          BY <1>n, <2>5, <4>1 DEF InOrder, Live
        <5> QED
          BY <1>s, <2>4, <4>1, <5>1, SlotsDiffer
      <4>2. CASE q # c
        <5>1. \A x \in Slots : fctx'[x] = q <=> f[x] = q
          BY <1>n, <2>2, <2>4, <4>2
        <5>2. q # s => mode'[q] = m[q]
          BY <2>5
        <5> QED
          BY <4>2, <5>1, <5>2 DEF InOrder, Live
      <4> QED
        BY <4>1, <4>2
    <3>2. \A x, y \in Slots : fctx'[x] # Null /\ fctx'[x] = fctx'[y] => x = y
      BY <1>s, <2>2, <2>4 DEF InOrder
    <3> QED
      BY <2>1, <3>1, <3>2 DEF EachParkedOnce, Holds
  <2>7. OnlyRunningDrops' /\ OnlyEndingExits' /\ OnlyEnteredHasParam' /\ RunningIsCalled'
    BY <1>1, <1>s, <2>1, <2>4, <2>5, SlotsDiffer
       DEF InOrder, OnlyRunningDrops, OnlyEndingExits, OnlyEnteredHasParam, RunningIsCalled
  <2>8. EndingIsAwaited'
    BY <1>1, <1>s, <2>2, <2>4, <2>5 DEF InOrder, EndingIsAwaited, Holds
  <2> QED
    BY <2>3, <2>6, <2>7, <2>8 DEF StacksInv
<1>2. CASE m[s] # "entry"
  <2> DEFINE d == dest[s]
  <2>1. /\ running' = s /\ mode' = m
        /\ fctx' = [f EXCEPT ![Dying(s)] = f[d], ![d] = c]
    BY <1>2 DEF Deliver
  <2>2. /\ d \in Slots /\ \A u \in Stacks : d # Entry(u) /\ (d = Param(u) => u = s)
        /\ \A u \in Stacks : d = Dying(u) => u = s
    <3>1. d \in Handles(s) \cup {Dying(s)}
      BY <1>s DEF TypeOK
    <3> QED
      BY <1>s, <3>1, SlotsDiffer, HandlesAreSlots
  <2>3. TypeOK'
    BY <1>s, <2>1, <2>2 DEF TypeOK, InOrder
  <2>4. m[s] \in {"code", "ending"}
    BY <1>2 DEF InOrder
  <2>5. Dying(s) \in Slots /\ f[Dying(s)] = Null
    BY <1>s, SlotsDiffer DEF InOrder
  <2>6. /\ fctx'[d] = c
        /\ d # Dying(s) => fctx'[Dying(s)] = f[d]
        /\ \A x \in Slots : x # d /\ x # Dying(s) => fctx'[x] = f[x]
    BY <2>1, <2>2, <2>5 DEF InOrder
  <2> HIDE DEF d
  <2>7. EachParkedOnce'
    <3>1. \A q \in Stacks : (\E x \in Slots : fctx'[x] = q) <=> (Live(q)' /\ q # s)
      <4> SUFFICES ASSUME NEW q \in Stacks
                   PROVE  (\E x \in Slots : fctx'[x] = q) <=> (Live(q)' /\ q # s)
        OBVIOUS
      <4>1. CASE q = c
        <5>1. Live(q)' /\ q # s
          BY <1>n, <2>1, <4>1 DEF InOrder, Live
        <5> QED
          BY <2>2, <2>6, <4>1, <5>1
      <4>2. CASE q # c
        <5>1. ASSUME NEW x \in Slots, f[x] = q PROVE \E y \in Slots : fctx'[y] = q
          BY <1>n, <5>1, <2>2, <2>5, <2>6
        <5>2. ASSUME NEW x \in Slots, fctx'[x] = q PROVE \E y \in Slots : f[y] = q
          BY <1>n, <5>2, <4>2, <2>2, <2>5, <2>6
        <5> QED
          BY <5>1, <5>2, <4>2, <2>1 DEF InOrder, Live
      <4> QED
        BY <4>1, <4>2
    <3>2. \A x, y \in Slots : fctx'[x] # Null /\ fctx'[x] = fctx'[y] => x = y
      <4>1. \A x \in Slots : c # Null => f[x] # c
        BY DEF InOrder
      <4> QED
        BY <4>1, <2>2, <2>5, <2>6 DEF InOrder
    <3> QED
      BY <2>1, <3>1, <3>2 DEF EachParkedOnce, Holds
  <2>8. OnlyRunningDrops'
    BY <1>s, <2>1, <2>2, <2>6, SlotsDiffer DEF InOrder, OnlyRunningDrops
  <2>9. OnlyEndingExits'
    BY <1>s, <2>1, <2>2, <2>6, SlotsDiffer DEF InOrder, OnlyEndingExits
  <2>10. OnlyEnteredHasParam' /\ RunningIsCalled'
    BY <1>s, <2>1, <2>2, <2>4, <2>6, SlotsDiffer
       DEF InOrder, OnlyEnteredHasParam, RunningIsCalled
  <2>11. EndingIsAwaited'
    <3> SUFFICES ASSUME NEW x \in Slots, NEW q \in Stacks, fctx'[x] = q, m[q] = "ending"
                 PROVE  \E u \in Stacks : x = Entry(u)
      BY <2>1 DEF EndingIsAwaited, Holds
    <3>1. f[d] # q
      BY <2>2 DEF InOrder
    <3>2. c # q
      BY <1>n DEF InOrder
    <3>3. x # d
      BY <2>6, <3>2
    <3>4. x # Dying(s)
      BY <2>6, <3>1, <3>3
    <3> QED
      BY <2>6, <3>3, <3>4 DEF InOrder
  <2> QED
    BY <2>3, <2>7, <2>8, <2>9, <2>10, <2>11 DEF StacksInv
<1> QED
  BY <1>1, <1>2

-----------------------------------------------------------------------------
(***************************************************************************)
(* The stacks that the slots f name, and that no two slots name the same.  *)
(***************************************************************************)
Named(f) == {f[x] : x \in Slots} \ {Null}

Unique(f) == \A x, y \in Slots : f[x] # Null /\ f[x] = f[y] => x = y

\* The stacks named are those of L iff each of those, and no other, is in a slot.
LEMMA NamedAre ==
  ASSUME NEW f \in [Slots -> Stacks \cup {Null}], NEW L \in SUBSET Stacks
  PROVE  Named(f) = L <=> \A q \in Stacks : (\E x \in Slots : f[x] = q) <=> q \in L
<1> USE StacksAssumption
<1>1. \A q \in Stacks : q \in Named(f) <=> \E x \in Slots : f[x] = q
  BY DEF Named, Stacks
<1>2. Named(f) \subseteq Stacks
  BY DEF Named
<1> QED
  BY <1>1, <1>2

\* A continuation goes from one slot to an empty one.
LEMMA MovedSlot ==
  ASSUME NEW f \in [Slots -> Stacks \cup {Null}], Unique(f),
         NEW a \in Slots, NEW b \in Slots, a # b, f[b] = Null,
         NEW g, g = [f EXCEPT ![b] = f[a], ![a] = Null]
  PROVE  /\ g \in [Slots -> Stacks \cup {Null}] /\ Unique(g) /\ Named(g) = Named(f)
         /\ g[b] = f[a] /\ g[a] = Null
         /\ \A x \in Slots : x # a /\ x # b => g[x] = f[x]
<1>1. /\ g \in [Slots -> Stacks \cup {Null}]
      /\ g[b] = f[a] /\ g[a] = Null
      /\ \A x \in Slots : x # a /\ x # b => g[x] = f[x]
  OBVIOUS
<1>2. Unique(g)
  BY <1>1 DEF Unique
<1>3. \A q : q # Null => ((\E x \in Slots : g[x] = q) <=> \E x \in Slots : f[x] = q)
  <2> SUFFICES ASSUME NEW q, q # Null
               PROVE  (\E x \in Slots : g[x] = q) <=> \E x \in Slots : f[x] = q
    OBVIOUS
  <2>1. ASSUME NEW x \in Slots, g[x] = q PROVE \E y \in Slots : f[y] = q
    BY <1>1, <2>1
  <2>2. ASSUME NEW x \in Slots, f[x] = q PROVE \E y \in Slots : g[y] = q
    BY <1>1, <2>2
  <2> QED
    BY <2>1, <2>2
<1>4. Named(g) = Named(f)
  BY <1>3 DEF Named
<1> QED
  BY <1>1, <1>2, <1>4

\* A continuation that no slot names comes into an empty one.
LEMMA FilledSlot ==
  ASSUME NEW f \in [Slots -> Stacks \cup {Null}], Unique(f),
         NEW b \in Slots, f[b] = Null, NEW w \in Stacks, w \notin Named(f),
         NEW g, g = [f EXCEPT ![b] = w]
  PROVE  /\ g \in [Slots -> Stacks \cup {Null}] /\ Unique(g)
         /\ Named(g) = Named(f) \cup {w}
         /\ g[b] = w
         /\ \A x \in Slots : x # b => g[x] = f[x]
<1> USE StacksAssumption
<1>1. /\ g \in [Slots -> Stacks \cup {Null}]
      /\ g[b] = w
      /\ \A x \in Slots : x # b => g[x] = f[x]
  OBVIOUS
<1>2. w # Null /\ \A x \in Slots : f[x] # w
  BY DEF Named, Stacks
<1>3. Unique(g)
  BY <1>1, <1>2 DEF Unique
<1>4. \A q : q # Null => ((\E x \in Slots : g[x] = q) <=> q = w \/ \E x \in Slots : f[x] = q)
  BY <1>1
<1>5. Named(g) = Named(f) \cup {w}
  BY <1>2, <1>4 DEF Named
<1> QED
  BY <1>1, <1>3, <1>5

\* A jump takes the continuation out of a slot.
LEMMA EmptiedSlot ==
  ASSUME NEW f \in [Slots -> Stacks \cup {Null}], Unique(f),
         NEW a \in Slots, f[a] # Null,
         NEW g, g = [f EXCEPT ![a] = Null]
  PROVE  /\ g \in [Slots -> Stacks \cup {Null}] /\ Unique(g)
         /\ Named(g) = Named(f) \ {f[a]}
         /\ g[a] = Null
         /\ \A x \in Slots : x # a => g[x] = f[x]
<1>1. /\ g \in [Slots -> Stacks \cup {Null}]
      /\ g[a] = Null
      /\ \A x \in Slots : x # a => g[x] = f[x]
  OBVIOUS
<1>2. Unique(g)
  BY <1>1 DEF Unique
<1>3. \A q : q # Null => ((\E x \in Slots : g[x] = q)
                             <=> q # f[a] /\ \E x \in Slots : f[x] = q)
  BY <1>1 DEF Unique
<1>4. Named(g) = Named(f) \ {f[a]}
  BY <1>3 DEF Named
<1> QED
  BY <1>1, <1>2, <1>4

-----------------------------------------------------------------------------
\* What the invariant says of the stack s that runs code of the program.
LEMMA CodeRuns ==
  ASSUME StacksInv, NEW s \in Stacks, InCode(s)
  PROVE  /\ fctx \in [Slots -> Stacks \cup {Null}] /\ mode \in [Stacks -> Modes]
         /\ Unique(fctx) /\ Named(fctx) = {q \in Stacks : Live(q) /\ q # s}
         /\ running = s /\ mode[s] = "code" /\ Null \notin Stacks
         /\ \A q \in Stacks : fctx[Dying(q)] = Null
         /\ fctx[Entry(s)] = Null
<1> USE StacksAssumption
<1>1. fctx \in [Slots -> Stacks \cup {Null}] /\ mode \in [Stacks -> Modes]
  BY DEF StacksInv, TypeOK
<1>2. running = s /\ mode[s] = "code" /\ fctx[Dying(s)] = Null
  BY DEF InCode
<1>3. Unique(fctx) /\ Named(fctx) = {q \in Stacks : Live(q) /\ q # s}
  <2>1. \A q \in Stacks : (\E x \in Slots : fctx[x] = q)
                            <=> q \in {r \in Stacks : Live(r) /\ r # s}
    BY <1>2 DEF StacksInv, EachParkedOnce, Holds
  <2>2. Named(fctx) = {q \in Stacks : Live(q) /\ q # s}
    BY <1>1, <2>1, NamedAre
  <2> QED
    BY <2>2 DEF StacksInv, EachParkedOnce, Unique
<1>4. \A q \in Stacks : fctx[Dying(q)] = Null
  BY <1>2 DEF StacksInv, OnlyRunningDrops
<1>5. fctx[Entry(s)] = Null
  BY <1>2 DEF StacksInv, OnlyEndingExits
<1> QED
  BY <1>1, <1>2, <1>3, <1>4, <1>5 DEF Stacks

\* A handle that is not empty names a stack that can be resumed.
LEMMA HandleParks ==
  ASSUME StacksInv, NEW s \in Stacks, InCode(s), NEW h \in Handles(s), fctx[h] # Null
  PROVE  fctx[h] \in Stacks /\ fctx[h] # s /\ mode[fctx[h]] \in {"entry", "code"}
<1>1. h \in Slots /\ \A u \in Stacks : h # Entry(u)
  BY HandlesAreSlots
<1>2. fctx[h] \in Stacks /\ fctx[h] # s /\ Live(fctx[h])
  BY <1>1, CodeRuns DEF StacksInv, EachParkedOnce, Holds
<1>3. mode[fctx[h]] # "ending"
  BY <1>1, <1>2 DEF StacksInv, EndingIsAwaited, Holds
<1> QED
  BY <1>2, <1>3 DEF Live

\* What has to be shown of the slots after a step.
LEMMA NextParked ==
  ASSUME NEW f \in [Slots -> Stacks \cup {Null}], NEW m, NEW r,
         fctx' = f, mode' = m, running' = r, Unique(f),
         Named(f) = {q \in Stacks : m[q] \in {"entry", "code", "ending"} /\ q # r}
  PROVE  EachParkedOnce'
<1> DEFINE L == {q \in Stacks : m[q] \in {"entry", "code", "ending"} /\ q # r}
<1>1. L \in SUBSET Stacks /\ Named(f) = L
  OBVIOUS
<1> HIDE DEF L
<1>2. \A q \in Stacks : (\E x \in Slots : f[x] = q) <=> q \in L
  BY <1>1, NamedAre
<1> QED
  BY <1>2 DEF EachParkedOnce, Unique, Holds, Live, L

LEMMA CreateKeeps ==
  ASSUME StacksInv, NEW s \in Stacks, NEW h \in Handles(s), NEW w \in Fibers, Create(s, h, w)
  PROVE  StacksInv'
<1> USE StacksAssumption
<1> DEFINE g == [fctx EXCEPT ![Dying(s)] = fctx[h], ![h] = Null]
           f == [g EXCEPT ![h] = w]
           m == [mode EXCEPT ![w] = "entry"]
<1>1. /\ InCode(s) /\ mode[w] = "unborn" /\ w \in Stacks /\ w # s
      /\ mode' = m
      /\ fctx' = [fctx EXCEPT ![Dying(s)] = fctx[h], ![h] = w]
      /\ running' = s /\ dest' = dest /\ halted' = halted
  BY DEF Create, Stacks, InCode
<1>2. h \in Slots /\ Dying(s) \in Slots /\ \A u \in Stacks : h # Dying(u) /\ h # Entry(u)
  BY HandlesAreSlots, SlotsDiffer
<1>3. /\ m \in [Stacks -> Modes] /\ m[Root] = "code" /\ m[w] = "entry"
      /\ \A q \in Stacks : q # w => m[q] = mode[q]
  BY <1>1, CodeRuns DEF Modes, StacksInv, TypeOK, Stacks
<1>4. /\ g \in [Slots -> Stacks \cup {Null}] /\ Unique(g) /\ Named(g) = Named(fctx)
      /\ g[Dying(s)] = fctx[h] /\ g[h] = Null
      /\ \A x \in Slots : x # h /\ x # Dying(s) => g[x] = fctx[x]
  BY <1>1, <1>2, CodeRuns, MovedSlot
<1>5. fctx' = f
  BY <1>1, <1>2, CodeRuns
<1>6. w \notin Named(g)
  BY <1>1, <1>4, CodeRuns DEF Live
<1> HIDE DEF g
<1>7. /\ f \in [Slots -> Stacks \cup {Null}] /\ Unique(f)
      /\ Named(f) = Named(fctx) \cup {w}
      /\ f[h] = w
      /\ \A x \in Slots : x # h => f[x] = g[x]
  <2>1. w \in Stacks /\ h \in Slots
    BY <1>1, <1>2
  <2>2. g \in [Slots -> Stacks \cup {Null}] /\ Unique(g) /\ g[h] = Null
    BY <1>4
  <2> QED
    BY <1>4, <1>6, <2>1, <2>2, FilledSlot DEF Named, Unique
<1> HIDE DEF f, m
<1>8. TypeOK'
  BY <1>1, <1>3, <1>5, <1>7 DEF StacksInv, TypeOK
<1>9. EachParkedOnce'
  <2>1. Named(f) = {q \in Stacks : m[q] \in {"entry", "code", "ending"} /\ q # s}
    BY <1>1, <1>3, <1>7, CodeRuns DEF Live
  <2> QED
    BY <1>1, <1>5, <1>7, <2>1, NextParked
<1>10. \A x \in Slots : x # h /\ x # Dying(s) => fctx'[x] = fctx[x]
  BY <1>4, <1>5, <1>7
<1>11. OnlyRunningDrops' /\ OnlyEndingExits' /\ OnlyEnteredHasParam' /\ RunningIsCalled'
  <2>1. \A q \in Stacks : fctx'[Dying(q)] # Null => q = s
    <3> TAKE q \in Stacks
    <3>1. Dying(q) \in Slots /\ Dying(q) # h /\ (q # s => Dying(q) # Dying(s))
      BY <1>2, SlotsDiffer
    <3> QED
      BY <1>1, <1>10, <3>1, CodeRuns
  <2>2. \A q \in Stacks : fctx'[Entry(q)] = fctx[Entry(q)]
    <3> TAKE q \in Stacks
    <3>1. Entry(q) \in Slots /\ Entry(q) # Dying(s) /\ Entry(q) # h
      BY <1>2, SlotsDiffer
    <3> QED
      BY <1>10, <3>1
  <2>3. \A q \in Stacks : fctx'[Param(q)] # Null => q = s \/ fctx[Param(q)] # Null
    BY <1>2, <1>10, HandlesAreSlots, SlotsDiffer
  <2>4. fctx[Param(w)] = Null /\ fctx[Entry(w)] = Null
    BY <1>1 DEF StacksInv, OnlyEnteredHasParam, OnlyEndingExits
  <2>5. mode[s] = "code"
    BY <1>1, CodeRuns
  <2> QED
    BY <1>1, <1>3, <2>1, <2>2, <2>3, <2>4, <2>5
       DEF StacksInv, OnlyRunningDrops, OnlyEndingExits, OnlyEnteredHasParam, RunningIsCalled
<1>12. EndingIsAwaited'
  <2> SUFFICES ASSUME NEW x \in Slots, NEW q \in Stacks, fctx'[x] = q, m[q] = "ending"
               PROVE  \E u \in Stacks : x = Entry(u)
    BY <1>1 DEF EndingIsAwaited, Holds
  <2>1. q # w /\ mode[q] = "ending"
    BY <1>3
  <2>2. fctx[h] # q
    BY <1>2, <2>1 DEF StacksInv, EndingIsAwaited, Holds
  <2>3. x # h /\ x # Dying(s)
    BY <1>2, <1>4, <1>5, <1>7, <2>1, <2>2
  <2> QED
    BY <1>10, <2>1, <2>3 DEF StacksInv, EndingIsAwaited, Holds
<1> QED
  BY <1>8, <1>9, <1>11, <1>12 DEF StacksInv

\* What the running stack s does to its handles without a jump.
LEMMA HandlesMoved ==
  ASSUME StacksInv, NEW s \in Stacks, running = s,
         NEW f \in [Slots -> Stacks \cup {Null}], Unique(f), Named(f) = Named(fctx),
         fctx' = f, running' = s, mode' = mode, dest' = dest, halted' = halted,
         \A q \in Stacks : f[Dying(q)] # Null => q = s,
         \A q \in Stacks : f[Entry(q)] = fctx[Entry(q)],
         \A q \in Stacks : f[Param(q)] # Null => q = s \/ fctx[Param(q)] # Null,
         \A x \in Slots : f[x] # Null /\ f[x] # fctx[x] =>
            \E y \in Slots : f[x] = fctx[y] /\ \A u \in Stacks : y # Entry(u)
  PROVE  StacksInv'
<1> USE StacksAssumption
<1>1. TypeOK'
  BY DEF StacksInv, TypeOK
<1>2. EachParkedOnce'
  <2>1. \A q \in Stacks : (\E x \in Slots : fctx[x] = q)
           <=> q \in {r \in Stacks : mode[r] \in {"entry", "code", "ending"} /\ r # s}
    BY DEF StacksInv, EachParkedOnce, Holds, Live
  <2>2. Named(fctx) = {r \in Stacks : mode[r] \in {"entry", "code", "ending"} /\ r # s}
    <3>1. fctx \in [Slots -> Stacks \cup {Null}]
      BY DEF StacksInv, TypeOK
    <3> QED
      BY <2>1, <3>1, NamedAre
  <2> QED
    BY <2>2, NextParked
<1>3. RunningIsCalled' /\ OnlyRunningDrops' /\ OnlyEndingExits' /\ OnlyEnteredHasParam'
  BY DEF StacksInv, RunningIsCalled, OnlyRunningDrops, OnlyEndingExits, OnlyEnteredHasParam
<1>4. EndingIsAwaited'
  <2> SUFFICES ASSUME NEW x \in Slots, NEW q \in Stacks, f[x] = q, mode[q] = "ending"
               PROVE  \E u \in Stacks : x = Entry(u)
    BY DEF EndingIsAwaited, Holds
  <2>1. CASE fctx[x] = q
    BY <2>1 DEF StacksInv, EndingIsAwaited, Holds
  <2>2. CASE fctx[x] # q
    <3>1. PICK y \in Slots : fctx[y] = q /\ \A u \in Stacks : y # Entry(u)
      BY <2>2 DEF Stacks
    <3> QED
      BY <3>1 DEF StacksInv, EndingIsAwaited, Holds
  <2> QED
    BY <2>1, <2>2
<1> QED
  BY <1>1, <1>2, <1>3, <1>4 DEF StacksInv

LEMMA DropKeeps ==
  ASSUME StacksInv, NEW s \in Stacks, NEW h \in Handles(s), Drop(s, h)
  PROVE  StacksInv'
<1> USE StacksAssumption
<1> DEFINE f == [fctx EXCEPT ![Dying(s)] = fctx[h], ![h] = Null]
<1>1. /\ InCode(s) /\ running = s /\ fctx' = f
      /\ running' = s /\ mode' = mode /\ dest' = dest /\ halted' = halted
  BY DEF Drop, InCode
<1>2. /\ h \in Slots /\ Dying(s) \in Slots
      /\ \A u \in Stacks : h # Dying(u) /\ h # Entry(u) /\ Dying(s) # Entry(u)
  BY HandlesAreSlots, SlotsDiffer
<1>3. /\ f \in [Slots -> Stacks \cup {Null}] /\ Unique(f) /\ Named(f) = Named(fctx)
      /\ f[Dying(s)] = fctx[h] /\ f[h] = Null
      /\ \A x \in Slots : x # h /\ x # Dying(s) => f[x] = fctx[x]
  BY <1>1, <1>2, CodeRuns, MovedSlot
<1> HIDE DEF f
<1>4. \A q \in Stacks : f[Dying(q)] # Null => q = s
  <2> TAKE q \in Stacks
  <2>1. Dying(q) \in Slots /\ Dying(q) # h /\ (q # s => Dying(q) # Dying(s))
    BY <1>2, SlotsDiffer
  <2> QED
    BY <1>1, <1>3, <2>1, CodeRuns
<1>5. \A q \in Stacks : f[Entry(q)] = fctx[Entry(q)]
  BY <1>2, <1>3, SlotsDiffer
<1>6. \A q \in Stacks : f[Param(q)] # Null => q = s \/ fctx[Param(q)] # Null
  <2> TAKE q \in Stacks
  <2>1. Param(q) \in Slots /\ Param(q) # Dying(s)
    BY SlotsDiffer
  <2> QED
    BY <1>3, <2>1
<1>7. \A x \in Slots : f[x] # Null /\ f[x] # fctx[x] =>
        \E y \in Slots : f[x] = fctx[y] /\ \A u \in Stacks : y # Entry(u)
  BY <1>2, <1>3
<1> QED
  BY <1>1, <1>3, <1>4, <1>5, <1>6, <1>7, HandlesMoved DEF Unique, Named

LEMMA MoveKeeps ==
  ASSUME StacksInv, NEW s \in Stacks, NEW h \in Handles(s), NEW x \in Handles(s), Move(s, h, x)
  PROVE  StacksInv'
<1> USE StacksAssumption
<1> DEFINE g == [fctx EXCEPT ![Dying(s)] = fctx[x], ![x] = Null]
           f == [g EXCEPT ![x] = g[h], ![h] = Null]
<1>1. /\ InCode(s) /\ running = s /\ h # x
      /\ fctx' = [fctx EXCEPT ![Dying(s)] = fctx[x], ![x] = fctx[h], ![h] = Null]
      /\ running' = s /\ mode' = mode /\ dest' = dest /\ halted' = halted
  BY DEF Move, InCode
<1>2. /\ h \in Slots /\ x \in Slots /\ Dying(s) \in Slots
      /\ \A u \in Stacks : /\ h # Dying(u) /\ h # Entry(u) /\ Dying(s) # Entry(u)
                          /\ x # Dying(u) /\ x # Entry(u) /\ (x = Param(u) => u = s)
  BY HandlesAreSlots, SlotsDiffer
<1>3. fctx' = f
  BY <1>1, <1>2, CodeRuns
<1>4. /\ g \in [Slots -> Stacks \cup {Null}] /\ Unique(g) /\ Named(g) = Named(fctx)
      /\ g[Dying(s)] = fctx[x] /\ g[x] = Null
      /\ \A y \in Slots : y # x /\ y # Dying(s) => g[y] = fctx[y]
  BY <1>1, <1>2, CodeRuns, MovedSlot
<1> HIDE DEF g
<1>5. /\ f \in [Slots -> Stacks \cup {Null}] /\ Unique(f) /\ Named(f) = Named(g)
      /\ f[x] = g[h] /\ f[h] = Null
      /\ \A y \in Slots : y # x /\ y # h => f[y] = g[y]
  BY <1>1, <1>2, <1>4, MovedSlot DEF Unique, Named
<1> HIDE DEF f
<1>6. /\ f[x] = fctx[h] /\ f[h] = Null /\ f[Dying(s)] = fctx[x]
      /\ \A y \in Slots : y # x /\ y # h /\ y # Dying(s) => f[y] = fctx[y]
  BY <1>1, <1>2, <1>4, <1>5
<1>7. \A q \in Stacks : f[Dying(q)] # Null => q = s
  <2> TAKE q \in Stacks
  <2>1. /\ Dying(q) \in Slots /\ Dying(q) # h /\ Dying(q) # x
        /\ (q # s => Dying(q) # Dying(s))
    BY <1>2, SlotsDiffer
  <2> QED
    BY <1>1, <1>6, <2>1, CodeRuns
<1>8. \A q \in Stacks : f[Entry(q)] = fctx[Entry(q)]
  BY <1>2, <1>6, SlotsDiffer
<1>9. \A q \in Stacks : f[Param(q)] # Null => q = s \/ fctx[Param(q)] # Null
  <2> TAKE q \in Stacks
  <2>1. Param(q) \in Slots /\ Param(q) # Dying(s)
    BY SlotsDiffer
  <2> QED
    BY <1>2, <1>6, <2>1
<1>10. \A y \in Slots : f[y] # Null /\ f[y] # fctx[y] =>
         \E z \in Slots : f[y] = fctx[z] /\ \A u \in Stacks : z # Entry(u)
  BY <1>2, <1>6
<1>11. Named(f) = Named(fctx)
  BY <1>4, <1>5 DEF Named
<1> QED
  BY <1>1, <1>3, <1>5, <1>7, <1>8, <1>9, <1>10, <1>11, HandlesMoved DEF Unique, Named

LEMMA DestroyParamKeeps ==
  ASSUME StacksInv, NEW s \in Stacks, DestroyParam(s)
  PROVE  StacksInv'
<1> USE StacksAssumption
<1> DEFINE f == [fctx EXCEPT ![Dying(s)] = fctx[Param(s)], ![Param(s)] = Null]
<1>1. /\ running = s /\ fctx[Dying(s)] = Null /\ fctx' = f
      /\ running' = s /\ mode' = mode /\ dest' = dest /\ halted' = halted
  BY DEF DestroyParam
<1>2. fctx \in [Slots -> Stacks \cup {Null}] /\ Unique(fctx)
  BY DEF StacksInv, TypeOK, EachParkedOnce, Unique
<1>3. /\ Param(s) \in Slots /\ Dying(s) \in Slots
      /\ \A u \in Stacks : Param(s) # Dying(u) /\ Param(s) # Entry(u) /\ Dying(s) # Entry(u)
  BY SlotsDiffer
<1>4. /\ f \in [Slots -> Stacks \cup {Null}] /\ Unique(f) /\ Named(f) = Named(fctx)
      /\ f[Dying(s)] = fctx[Param(s)] /\ f[Param(s)] = Null
      /\ \A x \in Slots : x # Param(s) /\ x # Dying(s) => f[x] = fctx[x]
  BY <1>1, <1>2, <1>3, MovedSlot
<1> HIDE DEF f
<1>5. \A q \in Stacks : f[Dying(q)] # Null => q = s
  <2> TAKE q \in Stacks
  <2>1. Dying(q) \in Slots /\ Dying(q) # Param(s) /\ (q # s => Dying(q) # Dying(s))
    BY SlotsDiffer
  <2>2. fctx[Dying(q)] # Null => q = s
    BY <1>1 DEF StacksInv, OnlyRunningDrops
  <2> QED
    BY <1>4, <2>1, <2>2
<1>6. \A q \in Stacks : f[Entry(q)] = fctx[Entry(q)]
  BY <1>3, <1>4, SlotsDiffer
<1>7. \A q \in Stacks : f[Param(q)] # Null => q = s \/ fctx[Param(q)] # Null
  <2> TAKE q \in Stacks
  <2>1. Param(q) \in Slots /\ Param(q) # Dying(s)
    BY SlotsDiffer
  <2> QED
    BY <1>4, <2>1
<1>8. \A x \in Slots : f[x] # Null /\ f[x] # fctx[x] =>
        \E y \in Slots : f[x] = fctx[y] /\ \A u \in Stacks : y # Entry(u)
  BY <1>3, <1>4
<1> QED
  BY <1>1, <1>4, <1>5, <1>6, <1>7, <1>8, HandlesMoved DEF Unique, Named

LEMMA ReturnKeeps ==
  ASSUME StacksInv, NEW s \in Stacks, NEW h \in Handles(s), Return(s, h)
  PROVE  StacksInv'
<1> USE StacksAssumption
<1> DEFINE f == [fctx EXCEPT ![Entry(s)] = fctx[h], ![h] = Null]
           m == [mode EXCEPT ![s] = "ending"]
<1>1. /\ InCode(s) /\ running = s /\ s # Root /\ fctx' = f
      /\ running' = s /\ mode' = m /\ dest' = dest /\ halted' = halted
  BY DEF Return, InCode
<1>2. /\ h \in Slots /\ Entry(s) \in Slots
      /\ \A u \in Stacks : h # Dying(u) /\ h # Entry(u) /\ Dying(u) # Entry(s)
  BY HandlesAreSlots, SlotsDiffer
<1>3. /\ f \in [Slots -> Stacks \cup {Null}] /\ Unique(f) /\ Named(f) = Named(fctx)
      /\ f[Entry(s)] = fctx[h] /\ f[h] = Null
      /\ \A x \in Slots : x # h /\ x # Entry(s) => f[x] = fctx[x]
  BY <1>1, <1>2, CodeRuns, MovedSlot
<1>4. /\ m \in [Stacks -> Modes] /\ m[Root] = "code" /\ m[s] = "ending" /\ mode[s] = "code"
      /\ \A q \in Stacks : q # s => m[q] = mode[q]
  BY <1>1, CodeRuns DEF Modes, StacksInv, TypeOK, Stacks
<1> HIDE DEF f, m
<1>5. TypeOK'
  BY <1>1, <1>3, <1>4 DEF StacksInv, TypeOK
<1>6. EachParkedOnce'
  <2>1. Named(f) = {q \in Stacks : m[q] \in {"entry", "code", "ending"} /\ q # s}
    BY <1>1, <1>3, <1>4, CodeRuns DEF Live
  <2> QED
    BY <1>1, <1>3, <2>1, NextParked DEF Unique, Named
<1>7. \A q \in Stacks : f[Dying(q)] = Null
  BY <1>1, <1>2, <1>3, SlotsDiffer, CodeRuns
<1>8. \A q \in Stacks : f[Entry(q)] # Null => m[q] = "ending"
  <2> TAKE q \in Stacks
  <2>1. Entry(q) \in Slots /\ Entry(q) # h /\ (q # s => Entry(q) # Entry(s))
    BY <1>2, SlotsDiffer
  <2>2. fctx[Entry(q)] # Null => mode[q] = "ending"
    BY DEF StacksInv, OnlyEndingExits
  <2> QED
    BY <1>3, <1>4, <2>1, <2>2
<1>9. \A q \in Stacks : f[Param(q)] # Null => m[q] \in {"code", "ending"}
  <2> TAKE q \in Stacks
  <2>1. Param(q) \in Slots /\ Param(q) # Entry(s)
    BY SlotsDiffer
  <2>2. fctx[Param(q)] # Null => mode[q] \in {"code", "ending"}
    BY DEF StacksInv, OnlyEnteredHasParam
  <2> QED
    BY <1>3, <1>4, <2>1, <2>2
<1>10. EndingIsAwaited'
  <2> SUFFICES ASSUME NEW x \in Slots, NEW q \in Stacks, f[x] = q, m[q] = "ending"
               PROVE  \E u \in Stacks : x = Entry(u)
    BY <1>1 DEF EndingIsAwaited, Holds
  <2>1. q # s
    BY <1>1, <1>3, CodeRuns DEF Named
  <2>2. CASE x = Entry(s)
    BY <2>2
  <2>3. CASE x # Entry(s)
    <3>1. fctx[x] = q /\ mode[q] = "ending"
      BY <1>1, <1>3, <1>4, <2>1, <2>3, CodeRuns
    <3> QED
      BY <3>1 DEF StacksInv, EndingIsAwaited, Holds
  <2> QED
    BY <2>2, <2>3
<1> QED
  BY <1>1, <1>4, <1>5, <1>6, <1>7, <1>8, <1>9, <1>10
     DEF StacksInv, RunningIsCalled, OnlyRunningDrops, OnlyEndingExits, OnlyEnteredHasParam

\* A step that ends the program leaves everything as it is.
LEMMA HaltKeeps ==
  ASSUME StacksInv, NEW why \in {"uncaught", "null"}, Halt(why)
  PROVE  StacksInv'
<1>1. running' = running /\ mode' = mode /\ fctx' = fctx /\ dest' = dest /\ halted' = why
  BY DEF Halt
<1> QED
  BY <1>1 DEF StacksInv, TypeOK, EachParkedOnce, OnlyRunningDrops, OnlyEndingExits,
     OnlyEnteredHasParam, EndingIsAwaited, RunningIsCalled, Live, Holds

\* What is named by a dying temporary is not being unwound already.
LEMMA DyingParks ==
  ASSUME StacksInv, NEW s \in Stacks, fctx[Dying(s)] # Null
  PROVE  /\ fctx[Dying(s)] \in Stacks /\ fctx[Dying(s)] # running
         /\ mode[fctx[Dying(s)]] \in {"entry", "code"}
<1>1. Dying(s) \in Slots /\ \A u \in Stacks : Dying(s) # Entry(u)
  BY SlotsDiffer
<1>2. fctx[Dying(s)] \in Stacks
  BY <1>1 DEF StacksInv, TypeOK
<1>3. Live(fctx[Dying(s)]) /\ fctx[Dying(s)] # running
  BY <1>1, <1>2 DEF StacksInv, EachParkedOnce, Holds
<1>4. mode[fctx[Dying(s)]] # "ending"
  BY <1>1, <1>2 DEF StacksInv, EndingIsAwaited, Holds
<1> QED
  BY <1>2, <1>3, <1>4 DEF Live

LEMMA UnwindKeeps ==
  ASSUME StacksInv, NEW s \in Stacks, Unwind(s)
  PROVE  StacksInv'
<1> USE StacksAssumption
<1> DEFINE u == fctx[Dying(s)]
           g == [fctx EXCEPT ![Dying(s)] = Null]
           f == [g EXCEPT ![Entry(u)] = s]
           m == [mode EXCEPT ![u] = "ending"]
<1>1. CASE u = Root
  BY <1>1, HaltKeeps DEF Unwind
<1>2. CASE u # Root
  <2>1. /\ running = s /\ u # Null
        /\ running' = u /\ mode' = m /\ halted' = halted
        /\ fctx' = [fctx EXCEPT ![Dying(s)] = Null, ![Entry(u)] = s]
        /\ dest' = [dest EXCEPT ![s] = Dying(s)]
    BY <1>2 DEF Unwind
  <2>2. u \in Stacks /\ u # s /\ mode[u] \in {"entry", "code"}
    BY <2>1, DyingParks
  <2>3. /\ Dying(s) \in Slots /\ Entry(u) \in Slots
        /\ \A q \in Stacks : Dying(q) # Entry(u) /\ Param(q) # Entry(u)
    BY <2>2, SlotsDiffer
  <2>4. fctx \in [Slots -> Stacks \cup {Null}] /\ mode \in [Stacks -> Modes] /\ Unique(fctx)
    BY DEF StacksInv, TypeOK, EachParkedOnce, Unique
  <2>5. Named(fctx) = {q \in Stacks : mode[q] \in {"entry", "code", "ending"} /\ q # s}
    <3>1. \A q \in Stacks : (\E x \in Slots : fctx[x] = q)
             <=> q \in {r \in Stacks : mode[r] \in {"entry", "code", "ending"} /\ r # s}
      BY <2>1 DEF StacksInv, EachParkedOnce, Holds, Live
    <3> QED
      BY <2>4, <3>1, NamedAre
  <2>6. /\ g \in [Slots -> Stacks \cup {Null}] /\ Unique(g)
        /\ Named(g) = Named(fctx) \ {u}
        /\ g[Dying(s)] = Null
        /\ \A x \in Slots : x # Dying(s) => g[x] = fctx[x]
    BY <2>1, <2>3, <2>4, EmptiedSlot
  <2>7. fctx' = f
    BY <2>1
  <2>8. fctx[Entry(u)] = Null
    BY <2>2 DEF StacksInv, OnlyEndingExits
  <2>9. g[Entry(u)] = Null /\ s \notin Named(g)
    BY <2>3, <2>5, <2>6, <2>8
  <2>10. /\ m \in [Stacks -> Modes] /\ m[Root] = "code" /\ m[u] = "ending"
         /\ \A q \in Stacks : q # u => m[q] = mode[q]
    BY <1>2, <2>2, <2>4 DEF Modes, StacksInv, TypeOK, Stacks
  <2> HIDE DEF g, m, u
  <2>11. /\ f \in [Slots -> Stacks \cup {Null}] /\ Unique(f)
         /\ Named(f) = Named(g) \cup {s}
         /\ f[Entry(u)] = s
         /\ \A x \in Slots : x # Entry(u) => f[x] = g[x]
    BY <2>3, <2>6, <2>9, FilledSlot DEF Named, Unique
  <2> HIDE DEF f
  <2>12. \A x \in Slots : x # Entry(u) /\ f[x] # Null => f[x] = fctx[x]
    BY <2>6, <2>11
  <2>13. f[Dying(s)] = Null
    BY <2>3, <2>6, <2>11
  <2>14. TypeOK'
    BY <2>1, <2>2, <2>7, <2>10, <2>11 DEF StacksInv, TypeOK
  <2>15. EachParkedOnce'
    <3>1. mode[s] \in {"code", "ending"}
      BY <2>1 DEF StacksInv, RunningIsCalled
    <3>2. Named(f) = {q \in Stacks : m[q] \in {"entry", "code", "ending"} /\ q # u}
      BY <2>2, <2>5, <2>6, <2>10, <2>11, <3>1
    <3> QED
      BY <2>1, <2>7, <2>11, <3>2, NextParked DEF Unique, Named
  <2>16. \A q \in Stacks : f[Dying(q)] = Null
    <3> TAKE q \in Stacks
    <3>1. Dying(q) \in Slots /\ Dying(q) # Entry(u)
      BY <2>3, SlotsDiffer
    <3>2. fctx[Dying(q)] # Null => q = s
      BY <2>1 DEF StacksInv, OnlyRunningDrops
    <3> QED
      BY <2>12, <2>13, <3>1, <3>2
  <2>17. \A q \in Stacks : f[Entry(q)] # Null => m[q] = "ending"
    <3> TAKE q \in Stacks
    <3>1. Entry(q) \in Slots /\ (q # u => Entry(q) # Entry(u))
      BY <2>2, SlotsDiffer
    <3>2. fctx[Entry(q)] # Null => mode[q] = "ending"
      BY DEF StacksInv, OnlyEndingExits
    <3> QED
      BY <2>10, <2>12, <3>1, <3>2
  <2>18. \A q \in Stacks : f[Param(q)] # Null => m[q] \in {"code", "ending"}
    <3> TAKE q \in Stacks
    <3>1. Param(q) \in Slots /\ Param(q) # Entry(u)
      BY <2>3, SlotsDiffer
    <3>2. fctx[Param(q)] # Null => mode[q] \in {"code", "ending"}
      BY DEF StacksInv, OnlyEnteredHasParam
    <3> QED
      BY <2>10, <2>12, <3>1, <3>2
  <2>19. EndingIsAwaited'
    <3> SUFFICES ASSUME NEW x \in Slots, NEW q \in Stacks, f[x] = q, m[q] = "ending"
                 PROVE  \E r \in Stacks : x = Entry(r)
      BY <2>1, <2>7 DEF EndingIsAwaited, Holds
    <3>1. CASE x = Entry(u)
      BY <2>2, <3>1
    <3>2. CASE x # Entry(u)
      <4>1. fctx[x] = q
        BY <2>12, <3>2 DEF Stacks
      <4>2. q # u
        BY <2>3, <2>4, <2>13, <4>1 DEF u, Unique, Stacks
      <4> QED
        BY <2>10, <4>1, <4>2 DEF StacksInv, EndingIsAwaited, Holds
    <3> QED
      BY <3>1, <3>2
  <2> QED
    BY <2>1, <2>7, <2>10, <2>14, <2>15, <2>16, <2>17, <2>18, <2>19
       DEF StacksInv, RunningIsCalled, OnlyRunningDrops, OnlyEndingExits, OnlyEnteredHasParam
<1> QED
  BY <1>1, <1>2

-----------------------------------------------------------------------------
(***************************************************************************)
(* The jumps: what is left once the continuation in the slot h is taken.   *)
(***************************************************************************)
\* The slots without what is in h.
Without(h) == [fctx EXCEPT ![h] = Null]

LEMMA JumpTakes ==
  ASSUME StacksInv, NEW s \in Stacks, running = s, fctx[Dying(s)] = Null,
         NEW h \in Slots, fctx[h] # Null
  PROVE  /\ Without(h) \in [Slots -> Stacks \cup {Null}] 
         /\ \A x, y \in Slots :
              Without(h)[x] # Null /\ Without(h)[x] = Without(h)[y] => x = y
         /\ \A q \in Stacks : (\E x \in Slots : Without(h)[x] = q)
              <=> mode[q] \in {"entry", "code", "ending"} /\ q # s /\ q # fctx[h]
         /\ Without(h)[h] = Null /\ \A x \in Slots : x # h => Without(h)[x] = fctx[x]
         /\ \A q \in Stacks : Without(h)[Dying(q)] = Null
         /\ \A q \in Stacks : Without(h)[Entry(q)] # Null => mode[q] = "ending"
         /\ \A q \in Stacks : Without(h)[Param(q)] # Null => mode[q] \in {"code", "ending"}
         /\ \A x \in Slots, q \in Stacks :
              Without(h)[x] = q /\ mode[q] = "ending" => \E u \in Stacks : x = Entry(u)
         /\ fctx[h] \in Stacks /\ fctx[h] # s /\ Null \notin Stacks
         /\ mode[fctx[h]] \in {"entry", "code", "ending"}
         /\ mode \in [Stacks -> Modes] /\ mode[Root] = "code"
<1> USE StacksAssumption
<1>1. fctx \in [Slots -> Stacks \cup {Null}] /\ mode \in [Stacks -> Modes] /\ Unique(fctx)
      /\ mode[Root] = "code" /\ Null \notin Stacks
  BY DEF StacksInv, TypeOK, EachParkedOnce, Unique, Stacks
<1>2. Named(fctx) = {q \in Stacks : mode[q] \in {"entry", "code", "ending"} /\ q # s}
  <2>1. \A q \in Stacks : (\E x \in Slots : fctx[x] = q)
           <=> q \in {r \in Stacks : mode[r] \in {"entry", "code", "ending"} /\ r # s}
    BY DEF StacksInv, EachParkedOnce, Holds, Live
  <2> QED
    BY <1>1, <2>1, NamedAre
<1>3. /\ Without(h) \in [Slots -> Stacks \cup {Null}] /\ Unique(Without(h))
      /\ Named(Without(h)) = Named(fctx) \ {fctx[h]}
      /\ Without(h)[h] = Null
      /\ \A x \in Slots : x # h => Without(h)[x] = fctx[x]
  BY <1>1, EmptiedSlot DEF Named, Unique, Without
<1>4. \A q \in Stacks : (\E x \in Slots : Without(h)[x] = q)
        <=> mode[q] \in {"entry", "code", "ending"} /\ q # s /\ q # fctx[h]
  BY <1>1, <1>2, <1>3 DEF Named
<1>5. \A x \in Slots : Without(h)[x] # Null => Without(h)[x] = fctx[x]
  BY <1>3
<1>6. \A q \in Stacks : Without(h)[Dying(q)] = Null
  <2> TAKE q \in Stacks
  <2>1. Dying(q) \in Slots
    BY SlotsDiffer
  <2>2. fctx[Dying(q)] # Null => q = s
    BY DEF StacksInv, OnlyRunningDrops
  <2> QED
    BY <1>5, <2>1, <2>2
<1>7. \A q \in Stacks : Without(h)[Entry(q)] # Null => mode[q] = "ending"
  <2> TAKE q \in Stacks
  <2>1. Entry(q) \in Slots
    BY SlotsDiffer
  <2> QED
    BY <1>5, <2>1 DEF StacksInv, OnlyEndingExits
<1>8. \A q \in Stacks : Without(h)[Param(q)] # Null => mode[q] \in {"code", "ending"}
  <2> TAKE q \in Stacks
  <2>1. Param(q) \in Slots
    BY SlotsDiffer
  <2> QED
    BY <1>5, <2>1 DEF StacksInv, OnlyEnteredHasParam
<1>9. \A x \in Slots, q \in Stacks :
        Without(h)[x] = q /\ mode[q] = "ending" => \E u \in Stacks : x = Entry(u)
  BY <1>1, <1>5 DEF StacksInv, EndingIsAwaited, Holds
<1>10. fctx[h] \in Stacks /\ fctx[h] # s /\ mode[fctx[h]] \in {"entry", "code", "ending"}
  BY <1>1 DEF StacksInv, EachParkedOnce, Holds, Live
<1> QED
  BY <1>1, <1>3, <1>4, <1>6, <1>7, <1>8, <1>9, <1>10 DEF Unique

LEMMA ResumeKeeps ==
  ASSUME StacksInv, NEW s \in Stacks, NEW h \in Handles(s),
         NEW d \in Handles(s) \cup {Dying(s)}, Resume(s, h, d)
  PROVE  StacksInv'
<1> USE StacksAssumption
<1> DEFINE g == Without(h)
           t == fctx[h]
<1>1. /\ InCode(s) /\ running = s /\ mode[s] = "code" /\ fctx[Dying(s)] = Null /\ t # Null
      /\ Deliver(t, s, g, mode) /\ dest' = [dest EXCEPT ![s] = d] /\ halted' = halted
  BY DEF Resume, InCode, Without
<1>2. h \in Slots
  BY HandlesAreSlots
<1>3. TypeOK
  BY DEF StacksInv
<1>4. \A q \in Stacks : dest'[q] \in Handles(q) \cup {Dying(q)}
  BY <1>1, <1>3 DEF TypeOK
<1>5. DOMAIN dest' = Stacks
  BY <1>1, <1>3 DEF TypeOK
<1>6. InOrder(t, s, g, mode)
  BY <1>1, <1>2, JumpTakes DEF InOrder
<1> QED
  BY <1>1, <1>3, <1>4, <1>5, <1>6, DeliverKeeps

LEMMA ExitKeeps ==
  ASSUME StacksInv, NEW s \in Stacks, Exit(s)
  PROVE  StacksInv'
<1> USE StacksAssumption
<1> DEFINE h == Entry(s)
           g == Without(h)
           t == fctx[h]
           m == [mode EXCEPT ![s] = "freed"]
<1>1. CASE t = Null
  BY <1>1, HaltKeeps DEF Exit
<1>2. CASE t # Null
  <2>1. /\ running = s /\ mode[s] = "ending"
        /\ fctx[Dying(s)] = Null /\ fctx[Param(s)] = Null
        /\ Deliver(t, Null, g, m) /\ dest' = dest /\ halted' = halted
    BY <1>2 DEF Exit, Without
  <2>2. h \in Slots /\ Param(s) \in Slots /\ Param(s) # h
    BY SlotsDiffer
  <2>3. TypeOK
    BY DEF StacksInv
  <2>4. /\ \A q \in Stacks : dest'[q] \in Handles(q) \cup {Dying(q)}
        /\ DOMAIN dest' = Stacks
    BY <2>1, <2>3 DEF TypeOK
  <2>5. /\ m \in [Stacks -> Modes] /\ m[Root] = "code" /\ m[s] = "freed"
        /\ \A q \in Stacks : q # s => m[q] = mode[q]
    BY <2>1, <2>3 DEF TypeOK, Modes, Stacks
  <2>6. /\ g \in [Slots -> Stacks \cup {Null}]
        /\ \A x, y \in Slots : g[x] # Null /\ g[x] = g[y] => x = y
    BY <1>2, <2>1, <2>2, JumpTakes
  <2>7. \A q \in Stacks : (\E x \in Slots : g[x] = q)
          <=> m[q] \in {"entry", "code", "ending"} /\ q # t /\ q # Null
    <3>1. /\ \A q \in Stacks : (\E x \in Slots : g[x] = q)
               <=> mode[q] \in {"entry", "code", "ending"} /\ q # s /\ q # t
          /\ Null \notin Stacks
      BY <1>2, <2>1, <2>2, JumpTakes
    <3> HIDE DEF g, m
    <3> QED
      BY <2>5, <3>1
  <2>8. /\ \A q \in Stacks : g[Dying(q)] = Null
        /\ t \in Stacks /\ t # s /\ Null \notin Stacks
        /\ mode[t] \in {"entry", "code", "ending"}
    BY <1>2, <2>1, <2>2, JumpTakes
  <2>9. \A q \in Stacks : g[Entry(q)] # Null => m[q] = "ending"
    BY <1>2, <2>1, <2>2, <2>5, JumpTakes
  <2>10. \A q \in Stacks : g[Param(q)] # Null => m[q] \in {"code", "ending"}
    BY <1>2, <2>1, <2>2, <2>5, JumpTakes
  <2>11. \A x \in Slots, q \in Stacks :
           g[x] = q /\ m[q] = "ending" => \E u \in Stacks : x = Entry(u)
    BY <1>2, <2>1, <2>2, <2>5, JumpTakes
  <2> HIDE DEF g, m, t
  <2>12. InOrder(t, Null, g, m)
    BY <2>5, <2>6, <2>7, <2>8, <2>9, <2>10, <2>11 DEF InOrder
  <2> QED
    BY <2>1, <2>3, <2>4, <2>12, DeliverKeeps
<1> QED
  BY <1>1, <1>2

LEMMA ResumeWithKeeps ==
  ASSUME StacksInv, NEW s \in Stacks, NEW h \in Handles(s), NEW v \in Names,
         ResumeWith(s, h, Var(v))
  PROVE  StacksInv'
<1> USE StacksAssumption
<1> DEFINE x == Var(v)
           g == Without(h)
           f == [g EXCEPT ![x] = s]
           t == fctx[h]
<1>1. /\ InCode(s) /\ running = s /\ mode[s] = "code" /\ fctx[Dying(s)] = Null /\ t # Null
      /\ x = h \/ fctx[x] = Null
      /\ Deliver(t, Null, f, mode) /\ dest' = [dest EXCEPT ![s] = Dying(s)]
      /\ halted' = halted
  BY DEF ResumeWith, InCode, Without
<1>2. /\ h \in Slots /\ x \in Slots
      /\ \A q \in Stacks : x # Dying(q) /\ x # Entry(q) /\ x # Param(q)
  BY HandlesAreSlots, VarsAreHandles
<1>3. TypeOK
  BY DEF StacksInv
<1>4. \A q \in Stacks : dest'[q] \in Handles(q) \cup {Dying(q)}
  BY <1>1, <1>3 DEF TypeOK
<1>5. DOMAIN dest' = Stacks
  BY <1>1, <1>3 DEF TypeOK
<1>6. InOrder(t, Null, f, mode)
  <2>1. /\ g \in [Slots -> Stacks \cup {Null}]
        /\ \A y, z \in Slots : g[y] # Null /\ g[y] = g[z] => y = z
        /\ \A q \in Stacks : (\E y \in Slots : g[y] = q)
             <=> mode[q] \in {"entry", "code", "ending"} /\ q # s /\ q # t
        /\ g[h] = Null /\ \A y \in Slots : y # h => g[y] = fctx[y]
        /\ mode \in [Stacks -> Modes] /\ mode[Root] = "code"
        /\ t \in Stacks /\ t # s /\ Null \notin Stacks
        /\ mode[t] \in {"entry", "code", "ending"}
    BY <1>1, <1>2, JumpTakes
  <2>2. /\ \A q \in Stacks : g[Dying(q)] = Null
        /\ \A q \in Stacks : g[Entry(q)] # Null => mode[q] = "ending"
        /\ \A q \in Stacks : g[Param(q)] # Null => mode[q] \in {"code", "ending"}
        /\ \A y \in Slots, q \in Stacks :
             g[y] = q /\ mode[q] = "ending" => \E u \in Stacks : y = Entry(u)
    BY <1>1, <1>2, JumpTakes
  <2>3. g[x] = Null /\ s \notin Named(g) /\ Unique(g)
    BY <1>1, <1>2, <2>1 DEF Named, Unique
  <2> HIDE DEF g, t, x
  <2>4. /\ f \in [Slots -> Stacks \cup {Null}] /\ Unique(f)
        /\ Named(f) = Named(g) \cup {s}
        /\ f[x] = s /\ \A y \in Slots : y # x => f[y] = g[y]
    BY <1>2, <2>1, <2>3, FilledSlot DEF Named, Unique
  <2> HIDE DEF f
  <2>5. \A q \in Stacks : (\E y \in Slots : f[y] = q)
          <=> mode[q] \in {"entry", "code", "ending"} /\ q # t /\ q # Null
    BY <1>1, <2>1, <2>4 DEF Named
  <2>6. /\ \A q \in Stacks : f[Dying(q)] = Null
        /\ \A q \in Stacks : f[Entry(q)] # Null => mode[q] = "ending"
        /\ \A q \in Stacks : f[Param(q)] # Null => mode[q] \in {"code", "ending"}
    BY <1>2, <2>2, <2>4, SlotsDiffer
  <2>7. \A y \in Slots, q \in Stacks :
          f[y] = q /\ mode[q] = "ending" => \E u \in Stacks : y = Entry(u)
    BY <1>1, <2>2, <2>4
  <2> QED
    BY <2>1, <2>4, <2>5, <2>6, <2>7 DEF InOrder, Unique
<1> QED
  BY <1>1, <1>3, <1>4, <1>5, <1>6, DeliverKeeps

\* No step breaks the invariant.
LEMMA NextStacksInv == StacksInv /\ [Next]_vars => StacksInv'
<1> SUFFICES ASSUME StacksInv, [Next]_vars PROVE StacksInv'
  OBVIOUS
<1>1. CASE UNCHANGED vars
  BY <1>1 DEF vars, StacksInv, TypeOK, EachParkedOnce, OnlyRunningDrops, OnlyEndingExits,
     OnlyEnteredHasParam, EndingIsAwaited, RunningIsCalled, Live, Holds
<1>2. CASE Next
  <2>1. PICK s \in Stacks :
          \/ \E h \in Handles(s) :
               \/ \E w \in Fibers : Create(s, h, w)
               \/ \E d \in Handles(s) \cup {Dying(s)} : Resume(s, h, d)
               \/ \E v \in Names : ResumeWith(s, h, Var(v))
               \/ \E x \in Handles(s) : Move(s, h, x)
               \/ Drop(s, h)
               \/ Return(s, h)
          \/ EndingStep(s)
    BY <1>2 DEF Next
  <2>2. CASE EndingStep(s)
    BY <2>2, UnwindKeeps, DestroyParamKeeps, ExitKeeps DEF EndingStep
  <2>3. ASSUME NEW h \in Handles(s), NEW w \in Fibers, Create(s, h, w) PROVE StacksInv'
    BY <2>3, CreateKeeps
  <2>4. ASSUME NEW h \in Handles(s), NEW d \in Handles(s) \cup {Dying(s)}, Resume(s, h, d)
        PROVE  StacksInv'
    BY <2>4, ResumeKeeps
  <2>5. ASSUME NEW h \in Handles(s), NEW v \in Names, ResumeWith(s, h, Var(v)) PROVE StacksInv'
    BY <2>5, ResumeWithKeeps
  <2>6. ASSUME NEW h \in Handles(s), NEW x \in Handles(s), Move(s, h, x) PROVE StacksInv'
    BY <2>6, MoveKeeps
  <2>7. ASSUME NEW h \in Handles(s), Drop(s, h) PROVE StacksInv'
    BY <2>7, DropKeeps
  <2>8. ASSUME NEW h \in Handles(s), Return(s, h) PROVE StacksInv'
    BY <2>8, ReturnKeeps
  <2> QED
    BY <2>1, <2>2, <2>3, <2>4, <2>5, <2>6, <2>7, <2>8
<1> QED
  BY <1>1, <1>2

(***************************************************************************)
(* StacksInv holds for any number of stacks and handles: each parked stack *)
(* is named by one slot, whatever the order of moves, jumps, destructors   *)
(* and exits (FiberContext.h:236-297).                                     *)
(***************************************************************************)
THEOREM StacksInvariance == Spec => []StacksInv
<1>1. Init => StacksInv
  BY InitStacksInv
<1>2. StacksInv /\ [Next]_vars => StacksInv'
  BY NextStacksInv
<1> QED
  BY <1>1, <1>2, PTL DEF Spec

\* The variables keep their types.
THEOREM StackTypes == Spec => []TypeOK
<1>1. StacksInv => TypeOK
  BY DEF StacksInv
<1> QED
  BY <1>1, StacksInvariance, PTL

\* A continuation is good for one jump: exactly one slot names each parked
\* stack, and none a stack that runs or is gone.
THEOREM OneJumpEach == Spec => []EachParkedOnce
<1>1. StacksInv => EachParkedOnce
  BY DEF StacksInv
<1> QED
  BY <1>1, StacksInvariance, PTL

\* The jump that a stack makes is the only one that goes where it goes.
LEMMA OnlyExitReturns ==
  ASSUME StacksInv, NEW s \in Stacks, NEW u \in Fibers, fctx[Entry(u)] = s,
         [Next]_vars, running # s, running' = s
  PROVE  Exit(u)
<1>1. /\ Entry(u) \in Slots /\ s # Null
      /\ \A x \in Slots : fctx[x] = s => x = Entry(u)
  <2>1. s # Null /\ u \in Stacks
    BY StacksAssumption DEF Stacks
  <2>2. Entry(u) \in Slots
    BY <2>1, SlotsDiffer
  <2> QED
    BY <2>1, <2>2 DEF StacksInv, EachParkedOnce
<1>2. Next
  BY DEF vars
<1>3. PICK r \in Stacks :
        \/ \E h \in Handles(r) :
             \/ \E w \in Fibers : Create(r, h, w)
             \/ \E d \in Handles(r) \cup {Dying(r)} : Resume(r, h, d)
             \/ \E v \in Names : ResumeWith(r, h, Var(v))
             \/ \E x \in Handles(r) : Move(r, h, x)
             \/ Drop(r, h)
             \/ Return(r, h)
        \/ EndingStep(r)
  BY <1>2 DEF Next
<1>4. \A h \in Handles(r) : fctx[h] # s
  BY <1>1, HandlesAreSlots DEF Stacks
<1>5. ASSUME NEW h \in Handles(r), NEW w \in Fibers, Create(r, h, w) PROVE FALSE
  BY <1>5 DEF Create
<1>6. ASSUME NEW h \in Handles(r), NEW d \in Handles(r) \cup {Dying(r)}, Resume(r, h, d)
      PROVE  FALSE
  BY <1>4, <1>6 DEF Resume, Deliver
<1>7. ASSUME NEW h \in Handles(r), NEW v \in Names, ResumeWith(r, h, Var(v)) PROVE FALSE
  BY <1>4, <1>7 DEF ResumeWith, Deliver
<1>8. ASSUME NEW h \in Handles(r), NEW x \in Handles(r), Move(r, h, x) PROVE FALSE
  BY <1>8 DEF Move
<1>9. ASSUME NEW h \in Handles(r), Drop(r, h) \/ Return(r, h) PROVE FALSE
  BY <1>9 DEF Drop, Return
<1>10. EndingStep(r)
  BY <1>3, <1>5, <1>6, <1>7, <1>8, <1>9
<1>11. ASSUME Unwind(r) PROVE FALSE
  <2>1. Dying(r) \in Slots /\ Dying(r) # Entry(u)
    BY SlotsDiffer DEF Stacks
  <2>2. running' = running \/ running' = fctx[Dying(r)]
    BY <1>11 DEF Unwind, Halt
  <2> QED
    BY <1>1, <2>1, <2>2
<1>12. ~DestroyParam(r)
  BY DEF DestroyParam
<1>13. ASSUME Exit(r) PROVE r = u
  <2>1. running' = running \/ running' = fctx[Entry(r)]
    BY <1>13 DEF Exit, Halt, Deliver
  <2> QED
    BY <1>1, <2>1, SlotsDiffer DEF Stacks
<1> QED
  BY <1>10, <1>11, <1>12, <1>13 DEF EndingStep

(***************************************************************************)
(* Destroying a handle is a call that returns (FiberContext.h:244-250):    *)
(* the destroying stack goes on only when the destroyed one is freed.      *)
(***************************************************************************)
THEOREM DestructorsDoReturn == Spec => DestructorsReturn
<1>1. ASSUME StacksInv, [Next]_vars, NEW s \in Stacks, NEW u \in Fibers,
             fctx[Entry(u)] = s, running # s, running' = s
      PROVE  mode'[u] = "freed"
  <2>1. Exit(u)
    BY <1>1, OnlyExitReturns
  <2>2. s # Null /\ u \in Stacks /\ running = u /\ mode \in [Stacks -> Modes]
    BY <1>1, <2>1, StacksAssumption DEF Exit, StacksInv, TypeOK, Stacks
  <2> DEFINE m == [mode EXCEPT ![u] = "freed"]
  <2>3. Deliver(s, Null, [fctx EXCEPT ![Entry(u)] = Null], m)
    BY <1>1, <2>1, <2>2 DEF Exit
  <2>4. mode' = m \/ mode' = [m EXCEPT ![s] = "code"]
    BY <2>3 DEF Deliver
  <2> QED
    BY <1>1, <2>2, <2>4
<1>2. StacksInv /\ [Next]_vars =>
        [\A s \in Stacks, u \in Fibers :
           fctx[Entry(u)] = s /\ running # s /\ running' = s => mode'[u] = "freed"]_vars
  BY <1>1
<1> QED
  BY <1>2, StacksInvariance, PTL DEF Spec, DestructorsReturn

-----------------------------------------------------------------------------
(***************************************************************************)
(* No stack gets out of reach.                                             *)
(***************************************************************************)
\* The slots that the stack s can use while it runs.
Grip(s) == (Names \X {"var"}) \cup SlotsOf(s)

LEMMA GripHolds ==
  ASSUME NEW s \in Stacks
  PROVE  /\ Handles(s) \subseteq Grip(s) /\ Grip(s) \subseteq Slots
         /\ Dying(s) \in Grip(s) /\ Entry(s) \in Grip(s) /\ Param(s) \in Grip(s)
         /\ \A v \in Names : Var(v) \in Grip(s)
         /\ \A u \in Stacks : u # s => \A x \in SlotsOf(u) : x \notin Grip(s)
BY DEF Grip, Handles, Slots, SlotsOf, Param, Dying, Entry, Var, Stacks

\* Each stack that is parked after a step was parked before and is named
\* where it was, or the stack that runs now can use a slot that names it.
LEMMA ReachKept ==
  ASSUME NothingOutOfReach, NEW r \in Stacks, running' = r,
         \A q \in Stacks : Live(q)' /\ q # r =>
            \/ \E y \in Grip(r) : fctx'[y] = q
            \/ Live(q) /\ q # running /\ \A x \in Slots : fctx[x] = q => fctx'[x] = q
  PROVE  NothingOutOfReach'
<1> SUFFICES ASSUME NEW C \in SUBSET {s \in Stacks : Live(s)' /\ s # r}, C # {}
             PROVE  \E x \in Slots : fctx'[x] \in C /\ \A s \in C : x \notin SlotsOf(s)
  BY DEF NothingOutOfReach
<1>1. CASE \E q \in C : \E y \in Grip(r) : fctx'[y] = q
  BY <1>1, GripHolds
<1>2. CASE \A q \in C : ~\E y \in Grip(r) : fctx'[y] = q
  <2>1. \A q \in C : Live(q) /\ q # running /\ \A x \in Slots : fctx[x] = q => fctx'[x] = q
    BY <1>2
  <2>2. C \in SUBSET {s \in Stacks : Live(s) /\ s # running}
    BY <2>1
  <2>3. PICK x \in Slots : fctx[x] \in C /\ \A s \in C : x \notin SlotsOf(s)
    BY <2>2 DEF NothingOutOfReach
  <2> QED
    BY <2>1, <2>3
<1> QED
  BY <1>1, <1>2

\* A jump to t: what it takes along, and what its slots named before.
LEMMA JumpReaches ==
  ASSUME StacksInv, NothingOutOfReach, NEW t \in Stacks, NEW c,
         NEW f \in [Slots -> Stacks \cup {Null}], NEW m \in [Stacks -> Modes], Deliver(t, c, f, m),
         m[t] = "entry" => f[Param(t)] = Null, f[Dying(t)] = Null,
         \A q \in Stacks : q # t /\ m[q] \in {"entry", "code", "ending"} =>
           \/ q = c
           \/ \E v \in Names : f[Var(v)] = q
           \/ Live(q) /\ q # running /\ \A x \in Slots : fctx[x] = q => f[x] = q
  PROVE  NothingOutOfReach'
<1>n. Null \notin Stacks
  BY StacksAssumption DEF Stacks
<1>d. dest[t] \in Grip(t) /\ Param(t) \in Grip(t) /\ Dying(t) \in Grip(t) /\ Grip(t) \subseteq Slots
  BY GripHolds DEF StacksInv, TypeOK
<1>1. running' = t
  BY DEF Deliver
<1>2. \A q \in Stacks : q # t => mode'[q] = m[q]
  BY DEF Deliver
\* What f named stays where it was, or is about to die.
<1>3. ASSUME NEW q \in Stacks, NEW x \in Slots, f[x] = q
      PROVE  fctx'[x] = q \/ fctx'[Dying(t)] = q
  <2>1. CASE m[t] = "entry"
    BY <1>3, <1>d, <1>n, <2>1 DEF Deliver
  <2>2. CASE m[t] # "entry"
    <3>1. fctx' = [f EXCEPT ![Dying(t)] = f[dest[t]], ![dest[t]] = c]
      BY <2>2 DEF Deliver
    <3>2. x # Dying(t)
      BY <1>3, <1>n
    <3> QED
      BY <1>3, <1>d, <1>n, <3>1, <3>2
  <2> QED
    BY <2>1, <2>2
<1>4. \E y \in Grip(t) : fctx'[y] = c
  BY <1>d DEF Deliver
<1>5. ASSUME NEW q \in Stacks, Live(q)', q # t
      PROVE  \/ \E y \in Grip(t) : fctx'[y] = q
             \/ Live(q) /\ q # running /\ \A x \in Slots : fctx[x] = q => fctx'[x] = q
  <2>1. m[q] \in {"entry", "code", "ending"}
    BY <1>2, <1>5 DEF Live
  <2>2. CASE \E v \in Names : f[Var(v)] = q
    BY <1>3, <1>d, <2>2, GripHolds
  <2>3. CASE Live(q) /\ q # running /\ \A x \in Slots : fctx[x] = q => f[x] = q
    BY <1>3, <1>d, <2>3
  <2> QED
    BY <1>4, <1>5, <2>1, <2>2, <2>3
<1> QED
  BY <1>1, <1>5, ReachKept

\* Handles that are made, moved, or destroyed by the stack that runs.
LEMMA HandlingReaches ==
  ASSUME StacksInv, NothingOutOfReach, NEW s \in Stacks, NEW h \in Handles(s),
         \/ \E w \in Fibers : Create(s, h, w)
         \/ \E x \in Handles(s) : Move(s, h, x)
         \/ Drop(s, h) \/ Return(s, h)
  PROVE  NothingOutOfReach'
<1>1. /\ running = s /\ running' = s /\ mode[s] = "code" /\ fctx[Dying(s)] = Null
      /\ fctx \in [Slots -> Stacks \cup {Null}] /\ mode \in [Stacks -> Modes]
      /\ Null \notin Stacks
  BY StacksAssumption DEF Create, Move, Drop, Return, InCode, StacksInv, TypeOK, Stacks
<1>2. fctx[Entry(s)] = Null
  BY <1>1 DEF StacksInv, OnlyEndingExits
<1>3. /\ Handles(s) \subseteq Grip(s) /\ Grip(s) \subseteq Slots
      /\ Dying(s) \in Grip(s) /\ Entry(s) \in Grip(s)
  BY GripHolds
<1>h. /\ h # Dying(s) /\ h # Entry(s)
      /\ \A x \in Handles(s) : x # Dying(s) /\ x # Entry(s)
      /\ Dying(s) # Entry(s)
  BY HandlesAreSlots, SlotsDiffer
<1>4. ASSUME NEW w \in Fibers, Create(s, h, w)  PROVE NothingOutOfReach'
  <2>1. /\ w \in Stacks /\ fctx'[h] = w /\ fctx'[Dying(s)] = fctx[h]
        /\ \A x \in Slots : x # h /\ x # Dying(s) => fctx'[x] = fctx[x]
        /\ \A q \in Stacks : q # w => mode'[q] = mode[q]
    BY <1>1, <1>3, <1>4, <1>h DEF Create, Stacks
  <2> QED
    BY <1>1, <1>3, <2>1, ReachKept DEF Live
<1>5. ASSUME NEW x \in Handles(s), Move(s, h, x)  PROVE NothingOutOfReach'
  <2>1. /\ h # x /\ fctx'[x] = fctx[h] /\ fctx'[Dying(s)] = fctx[x]
        /\ \A y \in Slots : y # h /\ y # x /\ y # Dying(s) => fctx'[y] = fctx[y]
        /\ mode' = mode
    BY <1>1, <1>3, <1>5, <1>h DEF Move
  <2> QED
    BY <1>1, <1>3, <2>1, ReachKept DEF Live
<1>6. ASSUME Drop(s, h)  PROVE NothingOutOfReach'
  <2>1. /\ fctx'[Dying(s)] = fctx[h] /\ mode' = mode
        /\ \A y \in Slots : y # h /\ y # Dying(s) => fctx'[y] = fctx[y]
    BY <1>1, <1>3, <1>6, <1>h DEF Drop
  <2> QED
    BY <1>1, <1>3, <2>1, ReachKept DEF Live
<1>7. ASSUME Return(s, h)  PROVE NothingOutOfReach'
  <2>1. /\ fctx'[Entry(s)] = fctx[h]
        /\ \A y \in Slots : y # h /\ y # Entry(s) => fctx'[y] = fctx[y]
        /\ \A q \in Stacks : q # s => mode'[q] = mode[q]
    BY <1>1, <1>3, <1>7, <1>h DEF Return
  <2> QED
    BY <1>1, <1>2, <1>3, <2>1, ReachKept DEF Live
<1> QED
  BY <1>4, <1>5, <1>6, <1>7

LEMMA DestroyParamReaches ==
  ASSUME StacksInv, NothingOutOfReach, NEW s \in Stacks, DestroyParam(s)
  PROVE  NothingOutOfReach'
<1>1. /\ running = s /\ running' = s /\ fctx[Dying(s)] = Null /\ Null \notin Stacks
      /\ Dying(s) \in Grip(s) /\ Dying(s) # Param(s) /\ Param(s) \in Slots /\ Dying(s) \in Slots
      /\ fctx \in [Slots -> Stacks \cup {Null}] /\ mode' = mode
  BY StacksAssumption, GripHolds, SlotsDiffer DEF DestroyParam, StacksInv, TypeOK, Stacks
<1>2. /\ fctx'[Dying(s)] = fctx[Param(s)]
      /\ \A y \in Slots : y # Param(s) /\ y # Dying(s) => fctx'[y] = fctx[y]
  BY <1>1 DEF DestroyParam
<1> QED
  BY <1>1, <1>2, ReachKept DEF Live

LEMMA UnwindReaches ==
  ASSUME StacksInv, NothingOutOfReach, NEW s \in Stacks, Unwind(s)
  PROVE  NothingOutOfReach'
<1> DEFINE u == fctx[Dying(s)]
<1>1. u \in Stacks /\ u # s /\ running = s /\ Null \notin Stacks
  BY DyingParks, StacksAssumption DEF Unwind, Stacks
<1>2. fctx[Entry(u)] = Null /\ Entry(u) \in Grip(u) /\ Entry(u) \in Slots /\ Dying(s) \in Slots
      /\ Entry(u) # Dying(s)
  <2>1. mode[u] # "ending"
    BY DyingParks DEF Unwind
  <2> QED
    BY <1>1, <2>1, GripHolds, SlotsDiffer DEF StacksInv, OnlyEndingExits
<1>3. CASE u = Root
  <2>1. fctx' = fctx /\ mode' = mode /\ running' = s
    BY <1>1, <1>3 DEF Unwind, Halt
  <2> QED
    BY <1>1, <2>1, ReachKept DEF Live
<1>4. CASE u # Root
  <2>1. /\ running' = u /\ mode' = [mode EXCEPT ![u] = "ending"]
        /\ fctx' = [fctx EXCEPT ![Dying(s)] = Null, ![Entry(u)] = s]
    BY <1>4 DEF Unwind
  <2>2. /\ fctx'[Entry(u)] = s
        /\ \A y \in Slots : y # Entry(u) /\ y # Dying(s) => fctx'[y] = fctx[y]
        /\ \A q \in Stacks : q # u => mode'[q] = mode[q]
    BY <1>1, <1>2, <2>1 DEF StacksInv, TypeOK
  <2>3. u = fctx[Dying(s)]
    OBVIOUS
  <2> HIDE DEF u
  <2>4. ASSUME NEW q \in Stacks, Live(q)', q # u
        PROVE  \/ \E y \in Grip(u) : fctx'[y] = q
               \/ Live(q) /\ q # running /\ \A x \in Slots : fctx[x] = q => fctx'[x] = q
    <3>1. CASE q = s
      BY <1>2, <2>2, <3>1
    <3>2. CASE q # s
      <4>1. Live(q)
        BY <2>2, <2>4 DEF Live
      <4>2. \A x \in Slots : fctx[x] = q => fctx'[x] = q
        BY <1>1, <1>2, <2>2, <2>3, <2>4
      <4> QED
        BY <1>1, <3>2, <4>1, <4>2
    <3> QED
      BY <3>1, <3>2
  <2> QED
    BY <1>1, <2>1, <2>4, ReachKept
<1> QED
  BY <1>3, <1>4

LEMMA ResumeReaches ==
  ASSUME StacksInv, NothingOutOfReach, NEW s \in Stacks, NEW h \in Handles(s),
         NEW d \in Handles(s) \cup {Dying(s)}, Resume(s, h, d)
  PROVE  NothingOutOfReach'
<1> DEFINE t == fctx[h]
           f == Without(h)
<1>1. /\ running = s /\ fctx[Dying(s)] = Null /\ Deliver(t, s, f, mode) /\ t # Null
      /\ fctx \in [Slots -> Stacks \cup {Null}] /\ mode \in [Stacks -> Modes]
  BY DEF Resume, InCode, Without, StacksInv, TypeOK
<1>2. h \in Slots /\ t \in Stacks /\ t # s
  BY <1>1, HandlesAreSlots, HandleParks DEF Resume
<1>3. /\ f \in [Slots -> Stacks \cup {Null}] /\ \A x \in Slots : x # h => f[x] = fctx[x]
      /\ f[h] = Null
  BY <1>1, <1>2 DEF Without
<1>4. f[Dying(t)] = Null /\ (mode[t] = "entry" => f[Param(t)] = Null)
  <2>1. fctx[Dying(t)] = Null /\ (mode[t] = "entry" => fctx[Param(t)] = Null)
    BY <1>1, <1>2 DEF StacksInv, OnlyRunningDrops, OnlyEnteredHasParam
  <2>2. Dying(t) \in Slots /\ Param(t) \in Slots
    BY <1>2, SlotsDiffer
  <2> HIDE DEF f, t
  <2> QED
    BY <1>3, <2>1, <2>2
<1>5. \A q \in Stacks : q # t /\ mode[q] \in {"entry", "code", "ending"} =>
         \/ q = s
         \/ Live(q) /\ q # running /\ \A x \in Slots : fctx[x] = q => f[x] = q
  <2>1. t = fctx[h]
    OBVIOUS
  <2> HIDE DEF f, t
  <2> QED
    BY <1>1, <1>3, <2>1 DEF Live
<1> HIDE DEF f, t
<1> QED
  BY <1>1, <1>2, <1>3, <1>4, <1>5, JumpReaches

LEMMA ResumeWithReaches ==
  ASSUME StacksInv, NothingOutOfReach, NEW s \in Stacks, NEW h \in Handles(s), NEW v \in Names,
         ResumeWith(s, h, Var(v))
  PROVE  NothingOutOfReach'
<1> DEFINE t == fctx[h]
           x == Var(v)
           f == [Without(h) EXCEPT ![x] = s]
<1>1. /\ running = s /\ fctx[Dying(s)] = Null /\ Deliver(t, Null, f, mode) /\ t # Null
      /\ x = h \/ fctx[x] = Null
      /\ fctx \in [Slots -> Stacks \cup {Null}] /\ mode \in [Stacks -> Modes]
      /\ Null \notin Stacks
  BY StacksAssumption DEF ResumeWith, InCode, Without, StacksInv, TypeOK, Stacks
<1>2. /\ h \in Slots /\ t \in Stacks /\ t # s
      /\ x \in Slots /\ x # Dying(t) /\ x # Param(t)
  BY <1>1, HandlesAreSlots, VarsAreHandles, HandleParks DEF ResumeWith
<1>3. /\ f \in [Slots -> Stacks \cup {Null}] /\ f[x] = s
      /\ \A y \in Slots : y # h /\ y # x => f[y] = fctx[y]
      /\ h # x => f[h] = Null
  BY <1>1, <1>2 DEF Without
<1>d. t = fctx[h]
  OBVIOUS
<1>x. x = Var(v)
  OBVIOUS
<1> HIDE DEF f, t, x
<1>4. f[Dying(t)] = Null /\ (mode[t] = "entry" => f[Param(t)] = Null)
  <2>1. fctx[Dying(t)] = Null /\ (mode[t] = "entry" => fctx[Param(t)] = Null)
    BY <1>1, <1>2 DEF StacksInv, OnlyRunningDrops, OnlyEnteredHasParam
  <2>2. Dying(t) \in Slots /\ Param(t) \in Slots
    BY <1>2, SlotsDiffer
  <2> QED
    BY <1>2, <1>3, <2>1, <2>2
<1>5. \A q \in Stacks : q # t /\ mode[q] \in {"entry", "code", "ending"} =>
         \/ \E w \in Names : f[Var(w)] = q
         \/ Live(q) /\ q # running /\ \A y \in Slots : fctx[y] = q => f[y] = q
  BY <1>1, <1>3, <1>d, <1>x DEF Live
<1> QED
  BY <1>1, <1>2, <1>3, <1>4, <1>5, JumpReaches

LEMMA ExitReaches ==
  ASSUME StacksInv, NothingOutOfReach, NEW s \in Stacks, Exit(s)
  PROVE  NothingOutOfReach'
<1> DEFINE h == Entry(s)
           t == fctx[h]
           f == Without(h)
           m == [mode EXCEPT ![s] = "freed"]
<1>1. /\ running = s /\ fctx[Dying(s)] = Null /\ mode[s] = "ending" /\ h \in Slots
      /\ fctx \in [Slots -> Stacks \cup {Null}] /\ mode \in [Stacks -> Modes]
      /\ Null \notin Stacks
  BY StacksAssumption, SlotsDiffer DEF Exit, StacksInv, TypeOK, Stacks
<1>2. CASE t = Null
  <2>1. fctx' = fctx /\ mode' = mode /\ running' = s
    BY <1>1, <1>2 DEF Exit, Halt
  <2> QED
    BY <1>1, <2>1, ReachKept DEF Live
<1>3. CASE t # Null
  <2>1. Deliver(t, Null, f, m) /\ t \in Stacks /\ m \in [Stacks -> Modes]
    BY <1>1, <1>3 DEF Exit, Without, Modes
  <2>2. t # s
    BY <1>1, <2>1 DEF StacksInv, EachParkedOnce, Holds
  <2>3. /\ f \in [Slots -> Stacks \cup {Null}] /\ \A x \in Slots : x # h => f[x] = fctx[x]
        /\ f[h] = Null
    BY <1>1 DEF Without
  <2>4. m[s] = "freed" /\ \A q \in Stacks : q # s => m[q] = mode[q]
    BY <1>1
  <2>d. t = fctx[h]
    OBVIOUS
  <2> HIDE DEF f, t, h, m
  <2>5. f[Dying(t)] = Null /\ (m[t] = "entry" => f[Param(t)] = Null)
    <3>1. fctx[Dying(t)] = Null /\ (mode[t] = "entry" => fctx[Param(t)] = Null)
      BY <1>1, <2>1, <2>2 DEF StacksInv, OnlyRunningDrops, OnlyEnteredHasParam
    <3>2. Dying(t) \in Slots /\ Param(t) \in Slots
      BY <2>1, SlotsDiffer
    <3> QED
      BY <2>1, <2>2, <2>3, <2>4, <3>1, <3>2
  <2>6. \A q \in Stacks : q # t /\ m[q] \in {"entry", "code", "ending"} =>
           Live(q) /\ q # running /\ \A x \in Slots : fctx[x] = q => f[x] = q
    BY <1>1, <2>3, <2>4, <2>d DEF Live
  <2> QED
    BY <2>1, <2>3, <2>5, <2>6, JumpReaches
<1> QED
  BY <1>2, <1>3

(***************************************************************************)
(* Through moves, jumps, nested unwinding and exits no stack gets out of   *)
(* reach (FiberContext.h:236-297): no stacks end up owning each other.     *)
(***************************************************************************)
THEOREM NoneOutOfReach == Spec => []NothingOutOfReach
<1>1. Init => NothingOutOfReach
  BY DEF Init, NothingOutOfReach, Live
<1>2. ASSUME StacksInv, NothingOutOfReach, [Next]_vars  PROVE NothingOutOfReach'
  <2>1. CASE UNCHANGED vars
    BY <1>2, <2>1 DEF vars, NothingOutOfReach, Live
  <2>2. CASE Next
    <3>1. PICK s \in Stacks :
            \/ \E h \in Handles(s) :
                 \/ \E w \in Fibers : Create(s, h, w)
                 \/ \E d \in Handles(s) \cup {Dying(s)} : Resume(s, h, d)
                 \/ \E v \in Names : ResumeWith(s, h, Var(v))
                 \/ \E x \in Handles(s) : Move(s, h, x)
                 \/ Drop(s, h)
                 \/ Return(s, h)
            \/ EndingStep(s)
      BY <2>2 DEF Next
    <3>2. CASE EndingStep(s)
      BY <1>2, <3>2, UnwindReaches, DestroyParamReaches, ExitReaches DEF EndingStep
    <3>3. ASSUME NEW h \in Handles(s), NEW d \in Handles(s) \cup {Dying(s)}, Resume(s, h, d)
          PROVE  NothingOutOfReach'
      BY <1>2, <3>3, ResumeReaches
    <3>4. ASSUME NEW h \in Handles(s), NEW v \in Names, ResumeWith(s, h, Var(v))
          PROVE  NothingOutOfReach'
      BY <1>2, <3>4, ResumeWithReaches
    <3>5. ASSUME NEW h \in Handles(s),
                 \/ \E w \in Fibers : Create(s, h, w)
                 \/ \E x \in Handles(s) : Move(s, h, x)
                 \/ Drop(s, h) \/ Return(s, h)
          PROVE  NothingOutOfReach'
      BY <1>2, <3>5, HandlingReaches
    <3> QED
      BY <3>1, <3>2, <3>3, <3>4, <3>5
  <2> QED
    BY <1>2, <2>1, <2>2
<1> QED
  BY <1>1, <1>2, StacksInvariance, PTL DEF Spec

=============================================================================
