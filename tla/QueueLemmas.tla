---------------------------- MODULE QueueLemmas ----------------------------
(***************************************************************************)
(* Queues: what appending, taking the head and concatenating do to the     *)
(* elements of a sequence without repetitions.                             *)
(***************************************************************************)
EXTENDS Integers, Sequences, Functions, SequenceTheorems, TLAPS

LEMMA EmptyQueue ==
  Range(<<>>) = {} /\ IsInjective(<<>>)
BY DEF Range, IsInjective

LEMMA AppendApart ==
  ASSUME NEW S, NEW q \in Seq(S), NEW e \in S
  PROVE  /\ Append(q, e) \in Seq(S)
         /\ Range(Append(q, e)) = Range(q) \cup {e}
         /\ IsInjective(q) /\ e \notin Range(q) => IsInjective(Append(q, e))
<1> DEFINE p == Append(q, e)
<1>1. /\ p \in Seq(S) /\ Len(p) = Len(q) + 1 /\ DOMAIN p = 1 .. Len(q) + 1
      /\ DOMAIN q = 1 .. Len(q) /\ Len(q) \in Nat
      /\ \A i \in 1 .. Len(q) : p[i] = q[i]
      /\ p[Len(q) + 1] = e
  BY AppendProperties
<1>2. Range(p) = Range(q) \cup {e}
  BY <1>1 DEF Range
<1>3. ASSUME IsInjective(q), e \notin Range(q)  PROVE IsInjective(p)
  BY <1>1, <1>3 DEF Range, IsInjective
<1> QED
  BY <1>1, <1>2, <1>3

LEMMA TailApart ==
  ASSUME NEW S, NEW q \in Seq(S), q # <<>>
  PROVE  /\ Head(q) \in S /\ Tail(q) \in Seq(S)
         /\ Range(q) = Range(Tail(q)) \cup {Head(q)}
         /\ IsInjective(q) => IsInjective(Tail(q)) /\ Head(q) \notin Range(Tail(q))
<1> DEFINE p == Tail(q)
<1>1. /\ Len(q) \in Nat \ {0} /\ DOMAIN q = 1 .. Len(q) /\ Head(q) = q[1]
      /\ Head(q) \in S /\ p \in Seq(S) /\ Len(p) = Len(q) - 1
      /\ DOMAIN p = 1 .. Len(q) - 1
      /\ \A i \in 1 .. Len(p) : p[i] = q[i + 1]
  BY HeadTailProperties
<1>2. Range(q) = Range(p) \cup {q[1]}
  <2>1. ASSUME NEW i \in DOMAIN q  PROVE q[i] \in Range(p) \cup {q[1]}
    <3>1. CASE i = 1
      BY <3>1
    <3>2. CASE i # 1
      <4>1. i - 1 \in DOMAIN p /\ p[i - 1] = q[i]
        BY <1>1, <3>2
      <4> QED BY <4>1 DEF Range
    <3> QED BY <3>1, <3>2
  <2>2. ASSUME NEW i \in DOMAIN p  PROVE p[i] \in Range(q)
    BY <1>1 DEF Range
  <2> QED BY <1>1, <2>1, <2>2 DEF Range
<1>3. ASSUME IsInjective(q)  PROVE IsInjective(p) /\ q[1] \notin Range(p)
  BY <1>1, <1>3 DEF Range, IsInjective
<1> QED
  BY <1>1, <1>2, <1>3

LEMMA ConcatApart ==
  ASSUME NEW S, NEW p \in Seq(S), NEW q \in Seq(S)
  PROVE  /\ p \o q \in Seq(S)
         /\ Range(p \o q) = Range(p) \cup Range(q)
         /\ IsInjective(p) /\ IsInjective(q) /\ Range(p) \cap Range(q) = {}
              => IsInjective(p \o q)
<1> DEFINE r == p \o q
<1>1. /\ r \in Seq(S) /\ Len(r) = Len(p) + Len(q) /\ Len(p) \in Nat /\ Len(q) \in Nat
      /\ DOMAIN p = 1 .. Len(p) /\ DOMAIN q = 1 .. Len(q)
      /\ DOMAIN r = 1 .. Len(p) + Len(q)
      /\ \A i \in 1 .. Len(r) : r[i] = IF i <= Len(p) THEN p[i] ELSE q[i - Len(p)]
  BY ConcatProperties
<1>2. Range(r) = Range(p) \cup Range(q)
  <2>1. ASSUME NEW i \in DOMAIN r  PROVE r[i] \in Range(p) \cup Range(q)
    <3>1. CASE i <= Len(p)
      BY <1>1, <3>1 DEF Range
    <3>2. CASE ~(i <= Len(p))
      <4>1. i - Len(p) \in DOMAIN q /\ r[i] = q[i - Len(p)]
        BY <1>1, <3>2
      <4> QED BY <4>1 DEF Range
    <3> QED BY <3>1, <3>2
  <2>2. ASSUME NEW i \in DOMAIN p  PROVE p[i] \in Range(r)
    <3>1. i \in DOMAIN r /\ r[i] = p[i]
      BY <1>1
    <3> QED BY <3>1 DEF Range
  <2>3. ASSUME NEW i \in DOMAIN q  PROVE q[i] \in Range(r)
    <3>1. i + Len(p) \in DOMAIN r /\ r[i + Len(p)] = q[i]
      BY <1>1
    <3> QED BY <3>1 DEF Range
  <2> QED BY <2>1, <2>2, <2>3 DEF Range
<1>3. ASSUME IsInjective(p), IsInjective(q), Range(p) \cap Range(q) = {}
      PROVE  IsInjective(r)
  <2>1. ASSUME NEW i \in DOMAIN r, NEW j \in DOMAIN r, r[i] = r[j]  PROVE i = j
    <3>1. CASE i <= Len(p) /\ j <= Len(p)
      BY <1>1, <1>3, <2>1, <3>1 DEF IsInjective
    <3>2. CASE ~(i <= Len(p)) /\ ~(j <= Len(p))
      <4>1. /\ i - Len(p) \in DOMAIN q /\ j - Len(p) \in DOMAIN q
            /\ q[i - Len(p)] = q[j - Len(p)]
        BY <1>1, <2>1, <3>2
      <4>2. i - Len(p) = j - Len(p)
        BY <1>3, <4>1 DEF IsInjective
      <4> QED BY <1>1, <4>2
    <3>3. CASE i <= Len(p) /\ ~(j <= Len(p))
      <4>1. /\ i \in DOMAIN p /\ j - Len(p) \in DOMAIN q
            /\ p[i] = q[j - Len(p)]
        BY <1>1, <2>1, <3>3
      <4> QED BY <1>3, <4>1 DEF Range
    <3>4. CASE ~(i <= Len(p)) /\ j <= Len(p)
      <4>1. /\ j \in DOMAIN p /\ i - Len(p) \in DOMAIN q
            /\ p[j] = q[i - Len(p)]
        BY <1>1, <2>1, <3>4
      <4> QED BY <1>3, <4>1 DEF Range
    <3> QED BY <3>1, <3>2, <3>3, <3>4
  <2> QED BY <2>1 DEF IsInjective
<1> QED
  BY <1>1, <1>2, <1>3

-----------------------------------------------------------------------------
\* The queue q holds c once at most.
Once(q, c) == \A i, j \in DOMAIN q : q[i] = c /\ q[j] = c => i = j

LEMMA AppendOnce ==
  ASSUME NEW S, NEW q \in Seq(S), NEW e \in S, NEW c,
         Once(q, c), e = c => c \notin Range(q)
  PROVE  Once(Append(q, e), c)
<1> DEFINE p == Append(q, e)
<1>1. /\ DOMAIN p = 1 .. Len(q) + 1 /\ DOMAIN q = 1 .. Len(q) /\ Len(q) \in Nat
      /\ \A i \in 1 .. Len(q) : p[i] = q[i]
      /\ p[Len(q) + 1] = e
  BY AppendProperties
<1> HIDE DEF p
<1>2. Once(p, c)
  BY <1>1 DEF Range, Once
<1> QED
  BY <1>2 DEF p

LEMMA TailOnce ==
  ASSUME NEW S, NEW q \in Seq(S), q # <<>>, NEW c, Once(q, c)
  PROVE  Once(Tail(q), c) /\ (Head(q) = c => c \notin Range(Tail(q)))
<1> DEFINE p == Tail(q)
<1>1. /\ Len(q) \in Nat \ {0} /\ DOMAIN q = 1 .. Len(q) /\ Head(q) = q[1]
      /\ Len(p) = Len(q) - 1 /\ DOMAIN p = 1 .. Len(q) - 1
      /\ \A i \in 1 .. Len(p) : p[i] = q[i + 1]
  BY HeadTailProperties
<1> HIDE DEF p
<1>2. \A i \in DOMAIN p : i + 1 \in DOMAIN q /\ p[i] = q[i + 1]
  BY <1>1
<1>3. Once(p, c)
  <2>1. ASSUME NEW i \in DOMAIN p, NEW j \in DOMAIN p, p[i] = c, p[j] = c
        PROVE  i = j
    <3>1. i + 1 = j + 1
      BY <1>2, <2>1 DEF Once
    <3> QED BY <1>1, <3>1
  <2> QED BY <2>1 DEF Once
<1>4. ASSUME Head(q) = c, NEW i \in DOMAIN p, p[i] = c  PROVE FALSE
  <2>1. 1 \in DOMAIN q /\ q[1] = c /\ q[i + 1] = c
    BY <1>1, <1>2, <1>4
  <2>2. i + 1 = 1
    BY <1>2, <2>1 DEF Once
  <2> QED BY <1>1, <2>2
<1> QED
  BY <1>3, <1>4 DEF p, Range

LEMMA ConcatOnce ==
  ASSUME NEW S, NEW p \in Seq(S), NEW q \in Seq(S), NEW c,
         Once(p, c), Once(q, c), c \notin Range(p) \cap Range(q)
  PROVE  Once(p \o q, c)
<1> DEFINE r == p \o q
<1>1. /\ Len(p) \in Nat /\ Len(q) \in Nat
      /\ DOMAIN p = 1 .. Len(p) /\ DOMAIN q = 1 .. Len(q)
      /\ DOMAIN r = 1 .. Len(p) + Len(q)
      /\ \A i \in DOMAIN r : r[i] = IF i <= Len(p) THEN p[i] ELSE q[i - Len(p)]
  BY ConcatProperties
<1> HIDE DEF r
<1>2. ASSUME NEW i \in DOMAIN r, r[i] = c
      PROVE  \/ i \in DOMAIN p /\ p[i] = c /\ c \in Range(p)
             \/ i - Len(p) \in DOMAIN q /\ q[i - Len(p)] = c /\ c \in Range(q)
  BY <1>1, <1>2 DEF Range
<1>3. ASSUME NEW i \in DOMAIN r, NEW j \in DOMAIN r, r[i] = c, r[j] = c
      PROVE  i = j
  <2>1. CASE c \in Range(p)
    <3>1. i \in DOMAIN p /\ p[i] = c /\ j \in DOMAIN p /\ p[j] = c
      BY <1>2, <1>3, <2>1
    <3> QED BY <3>1 DEF Once
  <2>2. CASE c \notin Range(p)
    <3>1. /\ i - Len(p) \in DOMAIN q /\ q[i - Len(p)] = c
          /\ j - Len(p) \in DOMAIN q /\ q[j - Len(p)] = c
      BY <1>2, <1>3, <2>2
    <3>2. i - Len(p) = j - Len(p)
      BY <3>1 DEF Once
    <3> QED BY <1>1, <3>2
  <2> QED BY <2>1, <2>2
<1> QED
  BY <1>3 DEF Once, r

=============================================================================
