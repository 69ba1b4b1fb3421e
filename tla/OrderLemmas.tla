----------------------------- MODULE OrderLemmas -----------------------------
(***************************************************************************)
(* Least and greatest elements, and the forms in which the other proofs    *)
(* use induction, none of which has an operator for a parameter: a set of  *)
(* natural numbers that is not empty has a least element, a family of      *)
(* finite sets a minimal one, and a step can be iterated (UpTo, Iterates). *)
(* And where a sequence stands in a longer one.                            *)
(***************************************************************************)
EXTENDS Integers, FiniteSets, FiniteSetsExt, FiniteSetTheorems,
        Functions, SequenceTheorems, WellFoundedInduction, TLAPS

\* A set of natural numbers that is not empty has a least element.
LEMMA LeastNatural ==
  ASSUME NEW S \in SUBSET Nat, S # {}
  PROVE  \E x \in S : \A y \in S : x <= y
<1>1. PICK x \in S : \A y \in S : <<y, x>> \notin OpToRel(<, Nat)
  BY NatLessThanWellFounded, WFMin
<1>2. \A y \in S : ~(y < x)
  BY <1>1 DEF OpToRel
<1> QED BY <1>2

\* No other set of Family is a part of T.
MinimalIn(T, Family) == \A U \in Family : U \subseteq T => U = T

\* A family of parts of a finite set has a minimal one.
LEMMA MinimalSet ==
  ASSUME NEW S, NEW Family \in SUBSET FiniteSubsetsOf(S), Family # {}
  PROVE  \E T \in Family : MinimalIn(T, Family)
<1>1. Family \subseteq SUBSET S /\ Family \subseteq FiniteSubsetsOf(S)
  BY DEF FiniteSubsetsOf
<1>2. PICK T \in Family : \A U \in Family : <<U, T>> \notin StrictSubsetOrdering(S)
  BY <1>1, FS_StrictSubsetOrderingWellFounded, WFMin
<1> QED BY <1>1, <1>2 DEF StrictSubsetOrdering, MinimalIn

----------------------------------------------------------------------------
\* Min and Max of FiniteSetsExt

LEMMA MinIsLeast ==
  ASSUME NEW S \in SUBSET Nat, S # {}
  PROVE  Min(S) \in S /\ \A y \in S : Min(S) <= y
BY LeastNatural DEF Min

\* A bounded set of natural numbers has a greatest element, and a finite one is bounded.
LEMMA GreatestOfBounded ==
  ASSUME NEW S \in SUBSET Nat, S # {}, NEW n \in Nat, \A y \in S : y <= n
  PROVE  \E x \in S : \A y \in S : x >= y
<1> DEFINE Bounds == {m \in Nat : \A y \in S : y <= m}
<1>1. PICK m \in Bounds : \A k \in Bounds : m <= k
  <2>1. n \in Bounds
    OBVIOUS
  <2> HIDE DEF Bounds
  <2>2. Bounds \in SUBSET Nat
    BY DEF Bounds
  <2> QED BY <2>1, <2>2, LeastNatural
<1>2. m \in S
  <2> SUFFICES ASSUME m \notin S PROVE FALSE
    OBVIOUS
  <2>1. \A y \in S : y <= m - 1
    BY <1>1
  <2>2. m - 1 \in Nat
    <3>1. PICK y \in S : y <= m - 1
      BY <2>1
    <3> QED BY <3>1
  <2>3. m - 1 \in Bounds
    BY <2>1, <2>2
  <2> QED BY <1>1, <2>3
<1> QED BY <1>1, <1>2

LEMMA FiniteIsBounded ==
  ASSUME NEW S \in SUBSET Nat, IsFiniteSet(S)
  PROVE  \E n \in Nat : \A y \in S : y <= n
<1> SUFFICES ASSUME ~ \E n \in Nat : \A y \in S : y <= n PROVE FALSE
  OBVIOUS
<1> PICK Family : Family = {T \in SUBSET S : ~ \E n \in Nat : \A y \in T : y <= n}
  OBVIOUS
<1>1. Family # {} /\ Family \in SUBSET FiniteSubsetsOf(S)
  BY FS_FiniteSubsetsOfFinite
<1>2. PICK T \in Family : MinimalIn(T, Family)
  BY <1>1, MinimalSet, Zenon
<1>3. \A U \in Family : U \subseteq T => U = T
  BY <1>2 DEF MinimalIn
<1>4. PICK x : x \in T
  OBVIOUS
<1>5. PICK n \in Nat : \A y \in T \ {x} : y <= n
  <2>1. T \ {x} \in SUBSET S /\ T \ {x} \subseteq T /\ T \ {x} # T
    BY <1>4
  <2>2. T \ {x} \notin Family
    BY <1>3, <2>1
  <2> QED BY <2>1, <2>2
<1>6. PICK m \in Nat : n <= m /\ x <= m
  BY <1>4
<1>7. \A y \in T : y <= m
  BY <1>5, <1>6
<1> QED BY <1>7

LEMMA MaxIsGreatest ==
  ASSUME NEW S \in SUBSET Nat, S # {}, IsFiniteSet(S)
  PROVE  Max(S) \in S /\ \A y \in S : Max(S) >= y
<1>1. \E x \in S : \A y \in S : x >= y
  BY FiniteIsBounded, GreatestOfBounded
<1> QED BY <1>1 DEF Max

\* So has a finite set of integers.
LEMMA LeastInteger ==
  ASSUME NEW S \in SUBSET Int, IsFiniteSet(S), S # {}
  PROVE  \E x \in S : \A y \in S : x <= y
<1> SUFFICES ASSUME ~ \E x \in S : \A y \in S : x <= y PROVE FALSE
  OBVIOUS
<1> PICK Family : Family = {T \in SUBSET S : T # {} /\ ~ \E x \in T : \A y \in T : x <= y}
  OBVIOUS
<1>1. Family # {} /\ Family \in SUBSET FiniteSubsetsOf(S)
  BY FS_FiniteSubsetsOfFinite
<1>2. PICK T \in Family : MinimalIn(T, Family)
  BY <1>1, MinimalSet, Zenon
<1>3. \A U \in Family : U \subseteq T => U = T
  BY <1>2 DEF MinimalIn
<1>4. PICK x : x \in T
  OBVIOUS
<1>5. T \ {x} # {}
  BY <1>4
<1>6. PICK y \in T \ {x} : \A z \in T \ {x} : y <= z
  <2>1. T \ {x} \in SUBSET S /\ T \ {x} \subseteq T /\ T \ {x} # T
    BY <1>4
  <2>2. T \ {x} \notin Family
    BY <1>3, <2>1
  <2> QED BY <1>5, <2>1, <2>2
<1>7. x \in Int /\ y \in Int /\ T \subseteq Int
  BY <1>4
<1>8. CASE x <= y
  BY <1>4, <1>6, <1>7, <1>8
<1>9. CASE y <= x
  BY <1>4, <1>6, <1>7, <1>9
<1> QED BY <1>7, <1>8, <1>9

----------------------------------------------------------------------------
\* The image of a finite set is finite.
LEMMA FiniteRange ==
  ASSUME NEW S, IsFiniteSet(S), NEW f
  PROVE  IsFiniteSet({f[x] : x \in S})
<1> DEFINE T == {f[x] : x \in S}
           g == [x \in S |-> f[x]]
<1>1. g \in Surjection(S, T)
  BY DEF Surjection
<1> QED BY <1>1, FS_Surjection

----------------------------------------------------------------------------
\* Functions defined by recursion on 0..N

\* P is the set of the arguments of which something holds.

LEMMA UpTo ==
  ASSUME NEW N \in Nat, NEW P, 0 \in P, \A n \in 0..N : n \in P /\ n < N => n + 1 \in P
  PROVE  \A n \in 0..N : n \in P
<1> DEFINE Bad == {n \in 0..N : n \notin P}
<1> SUFFICES ASSUME Bad # {} PROVE FALSE
  OBVIOUS
<1>1. PICK n \in Bad : \A m \in Bad : n <= m
  <2>1. Bad \in SUBSET Nat
    OBVIOUS
  <2> HIDE DEF Bad
  <2> QED BY <2>1, LeastNatural
<1>2. n # 0 /\ n - 1 \in 0..N /\ n - 1 < N /\ n - 1 \notin Bad
  BY <1>1
<1>3. n - 1 \in P
  BY <1>2
<1>4. (n - 1) + 1 \in P
  BY <1>2, <1>3
<1> QED BY <1>1, <1>4

\* A history of length m: where it starts and how each entry follows from the one before.
Follows(g, m, S, start, step) ==
  /\ g \in [0..m -> S]
  /\ g[0] = start
  /\ \A n \in 1..m : g[n] = step[<<n, g[n - 1]>>]

\* Every length has a history.
LEMMA HistoryOfLength ==
  ASSUME NEW S, NEW start \in S, NEW step \in [Nat \X S -> S], NEW N \in Nat
  PROVE  \E g : Follows(g, N, S, start, step)
<1> DEFINE P == {m \in 0..N : \E g : Follows(g, m, S, start, step)}
<1>1. 0 \in P
  <2>1. Follows([n \in 0..0 |-> start], 0, S, start, step)
    BY DEF Follows
  <2>2. 0 \in 0..N
    OBVIOUS
  <2> QED BY <2>1, <2>2, Zenon
<1>2. ASSUME NEW m \in 0..N, m \in P, m < N PROVE m + 1 \in P
  <2>1. PICK g : Follows(g, m, S, start, step)
    BY <1>2
  <2> DEFINE h == [n \in 0..(m + 1) |-> IF n <= m THEN g[n] ELSE step[<<m + 1, g[m]>>]]
  <2>2. h \in [0..(m + 1) -> S]
    <3>1. \A n \in 0..m : g[n] \in S
      BY <2>1 DEF Follows
    <3>2. <<m + 1, g[m]>> \in Nat \X S
      BY <3>1
    <3> QED BY <3>1, <3>2
  <2>3. h[0] = start /\ \A n \in 1..(m + 1) : h[n] = step[<<n, h[n - 1]>>]
    <3>1. \A n \in 0..m : h[n] = g[n]
      OBVIOUS
    <3>2. h[m + 1] = step[<<m + 1, g[m]>>]
      OBVIOUS
    <3> HIDE DEF h
    <3>3. ASSUME NEW n \in 1..(m + 1) PROVE h[n] = step[<<n, h[n - 1]>>]
      <4>1. n - 1 \in 0..m
        OBVIOUS
      <4>2. CASE n = m + 1
        BY <3>1, <3>2, <4>1, <4>2
      <4>3. CASE n # m + 1
        <5>1. n \in 1..m /\ n \in 0..m
          BY <4>3
        <5> QED BY <2>1, <3>1, <4>1, <5>1 DEF Follows
      <4> QED BY <4>2, <4>3
    <3> QED BY <2>1, <3>1, <3>3 DEF Follows
  <2> HIDE DEF h
  <2>4. Follows(h, m + 1, S, start, step)
    BY <2>2, <2>3 DEF Follows
  <2>5. m + 1 \in 0..N
    BY <1>2
  <2> QED BY <2>4, <2>5, Zenon
<1> HIDE DEF P
<1>3. N \in P
  BY <1>1, <1>2, UpTo
<1> QED BY <1>3 DEF P

Agree(g, h, m) == \A i \in 0..m : g[i] = h[i]

\* Two histories agree as far as both go.
LEMMA HistoriesAgree ==
  ASSUME NEW S, NEW start \in S, NEW step \in [Nat \X S -> S],
         NEW m \in Nat, NEW n \in Nat, m <= n, NEW g, NEW h,
         Follows(g, m, S, start, step), Follows(h, n, S, start, step)
  PROVE  Agree(g, h, m)
<1> DEFINE P == {i \in 0..m : g[i] = h[i]}
<1>1. 0 \in P
  BY DEF Follows
<1>2. ASSUME NEW i \in 0..m, i \in P, i < m PROVE i + 1 \in P
  <2>1. i + 1 \in 1..m /\ i + 1 \in 1..n /\ (i + 1) - 1 = i
    BY <1>2
  <2>2. g[i + 1] = step[<<i + 1, g[i]>>] /\ h[i + 1] = step[<<i + 1, h[i]>>]
    BY <2>1 DEF Follows
  <2> QED BY <1>2, <2>1, <2>2
<1> HIDE DEF P
<1>3. \A i \in 0..m : i \in P
  BY <1>1, <1>2, UpTo
<1> QED BY <1>3 DEF P, Agree

\* Where an iteration starts, and the step that gives its n-th value.
Iteration(g, S, start, step) ==
  /\ g \in [Nat -> S]
  /\ g = [n \in Nat |-> IF n = 0 THEN start ELSE step[<<n, g[n - 1]>>]]

\* A step that depends on its number too can be iterated for ever.
LEMMA IteratesForever ==
  ASSUME NEW S, NEW start \in S, NEW step \in [Nat \X S -> S]
  PROVE  \E g : Iteration(g, S, start, step)
<1> DEFINE H(m) == CHOOSE h : Follows(h, m, S, start, step)
           g == [m \in Nat |-> H(m)[m]]
<1>1. \A m \in Nat : Follows(H(m), m, S, start, step)
  BY HistoryOfLength, Zenon
<1>2. \A m \in Nat : g[m] = H(m)[m]
  OBVIOUS
<1>a. DOMAIN g = Nat /\ g = [m \in Nat |-> g[m]]
  OBVIOUS
<1> HIDE DEF H, g
<1>3. g \in [Nat -> S]
  <2>1. \A m \in Nat : H(m)[m] \in S
    BY <1>1 DEF Follows
  <2> QED BY <1>2, <1>a, <2>1
<1>4. g[0] = start
  BY <1>1, <1>2 DEF Follows
<1>5. ASSUME NEW n \in Nat, n # 0 PROVE g[n] = step[<<n, g[n - 1]>>]
  <2>1. n - 1 \in Nat /\ n - 1 <= n /\ n \in 1..n /\ n - 1 \in 0..(n - 1)
    BY <1>5
  <2>2. H(n)[n] = step[<<n, H(n)[n - 1]>>]
    BY <1>1, <2>1 DEF Follows
  <2>3. \A i \in 0..(n - 1) : H(n - 1)[i] = H(n)[i]
    <3>1. PICK k \in Nat : k = n - 1
      BY <2>1
    <3>2. PICK a, b : a = H(k) /\ b = H(n)
      OBVIOUS
    <3>3. Follows(a, k, S, start, step) /\ Follows(b, n, S, start, step) /\ k <= n
      BY <1>1, <2>1, <3>1, <3>2
    <3>4. Agree(a, b, k)
      BY <3>3, HistoriesAgree, Zenon
    <3> QED BY <3>1, <3>2, <3>4 DEF Agree
  <2> QED BY <1>2, <2>1, <2>2, <2>3
<1>6. Iteration(g, S, start, step)
  BY <1>3, <1>4, <1>5, <1>a DEF Iteration
<1> QED BY <1>6

\* And, when its number does not matter, so often.
LEMMA Iterates ==
  ASSUME NEW S, NEW start \in S, NEW step \in [S -> S], NEW N \in Nat
  PROVE  \E g \in [0..N -> S] :
           g = [n \in 0..N |-> IF n = 0 THEN start ELSE step[g[n - 1]]]
<1> DEFINE each == [p \in Nat \X S |-> step[p[2]]]
<1>1. each \in [Nat \X S -> S]
  OBVIOUS
<1>2. \A n \in Nat, x \in S : each[<<n, x>>] = step[x]
  OBVIOUS
<1> HIDE DEF each
<1>3. PICK g : Follows(g, N, S, start, each)
  BY <1>1, HistoryOfLength
<1>4. ASSUME NEW n \in 1..N PROVE g[n] = step[g[n - 1]]
  <2>1. n - 1 \in 0..N /\ n \in Nat
    OBVIOUS
  <2>2. g[n - 1] \in S
    BY <1>3, <2>1 DEF Follows
  <2>3. g[n] = each[<<n, g[n - 1]>>]
    BY <1>3 DEF Follows
  <2> QED BY <1>2, <2>1, <2>2, <2>3
<1> QED BY <1>3, <1>4 DEF Follows
----------------------------------------------------------------------------
\* Sequences within sequences

\* t stands in s after its first p elements.
StandsIn(s, p, t) ==
  /\ p \in Nat /\ p + Len(t) <= Len(s)
  /\ \A j \in 1..Len(t) : s[p + j] = t[j]

LEMMA StandsAsSubSeq ==
  ASSUME NEW S, NEW s \in Seq(S), NEW t \in Seq(S), NEW p, StandsIn(s, p, t)
  PROVE  p \in 0..Len(s) - Len(t) /\ SubSeq(s, p + 1, p + Len(t)) = t
<1>1. p \in Nat /\ Len(t) \in Nat /\ Len(s) \in Nat /\ p + Len(t) <= Len(s)
  BY DEF StandsIn
<1>2. \A i \in p + 1..p + Len(t) : s[i] \in S
  BY <1>1
<1>3. /\ SubSeq(s, p + 1, p + Len(t)) \in Seq(S)
      /\ Len(SubSeq(s, p + 1, p + Len(t))) = Len(t)
      /\ \A i \in 1..Len(t) : SubSeq(s, p + 1, p + Len(t))[i] = s[p + i]
  <2>1. p + 1 \in Int /\ p + Len(t) \in Int /\ (p + Len(t)) - (p + 1) + 1 = Len(t)
    BY <1>1
  <2>2. /\ SubSeq(s, p + 1, p + Len(t)) \in Seq(S)
        /\ Len(SubSeq(s, p + 1, p + Len(t))) =
             IF p + 1 <= p + Len(t) THEN (p + Len(t)) - (p + 1) + 1 ELSE 0
        /\ \A i \in 1..(p + Len(t)) - (p + 1) + 1 :
             SubSeq(s, p + 1, p + Len(t))[i] = s[(p + 1) + i - 1]
    BY <1>2, <2>1, SubSeqProperties
  <2>3. \A i \in 1..Len(t) : (p + 1) + i - 1 = p + i
    BY <1>1
  <2> QED BY <1>1, <2>1, <2>2, <2>3
<1>4. \A i \in 1..Len(t) : SubSeq(s, p + 1, p + Len(t))[i] = t[i]
  BY <1>3 DEF StandsIn
<1>5. SubSeq(s, p + 1, p + Len(t)) = t
  BY <1>3, <1>4, SeqEqual
<1> QED BY <1>1, <1>5

LEMMA StandsAtEnd ==
  ASSUME NEW S, NEW s \in Seq(S), NEW t \in Seq(S)
  PROVE  StandsIn(s \o t, Len(s), t)
BY ConcatProperties DEF StandsIn

LEMMA StandsBeforeMore ==
  ASSUME NEW S, NEW s \in Seq(S), NEW t \in Seq(S), NEW more \in Seq(S), NEW p, StandsIn(s, p, t)
  PROVE  StandsIn(s \o more, p, t)
BY ConcatProperties DEF StandsIn
=============================================================================
