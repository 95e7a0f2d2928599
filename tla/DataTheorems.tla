---------------------------- MODULE DataTheorems ----------------------------
(***************************************************************************)
(* What the operators of the community modules compute that the models are  *)
(* built from: operations on sequences, sums over finite sets, and that a   *)
(* fold over a finite domain exists.  What would be an induction goes by    *)
(* the smallest counterexample, since every set of natural numbers that is  *)
(* not empty has a smallest element.                                        *)
(***************************************************************************)
EXTENDS Integers, Sequences, FiniteSets, FiniteSetsExt, SequencesExt,
        FiniteSetTheorems, SequenceTheorems, WellFoundedInduction, TLAPS

-----------------------------------------------------------------------------
(* Sequences.                                                               *)

LEMMA SeqFacts ==
    ASSUME NEW S, NEW s \in Seq(S)
    PROVE  /\ Len(s) \in Nat
           /\ DOMAIN s = 1..Len(s)
           /\ \A i \in DOMAIN s : s[i] \in S
           /\ ToSet(s) \subseteq S
  BY DEF ToSet

LEMMA AppendFacts ==
    ASSUME NEW S, NEW s \in Seq(S), NEW e \in S
    PROVE  /\ Append(s, e) \in Seq(S)
           /\ ToSet(Append(s, e)) = ToSet(s) \cup {e}
           /\ IsInjective(s) /\ e \notin ToSet(s) => IsInjective(Append(s, e))
<1> DEFINE t == Append(s, e)
<1>1. /\ t \in Seq(S)
      /\ Len(t) = Len(s) + 1
      /\ Len(s) \in Nat
      /\ DOMAIN t = 1..(Len(s) + 1)
      /\ DOMAIN s = 1..Len(s)
      /\ \A i \in 1..Len(s) : t[i] = s[i]
      /\ t[Len(s) + 1] = e
  OBVIOUS
<1> HIDE DEF t
<1>2. ToSet(t) = ToSet(s) \cup {e}
  BY <1>1 DEF ToSet
<1>3. IsInjective(s) /\ e \notin ToSet(s) => IsInjective(t)
  BY <1>1 DEF ToSet, IsInjective
<1> QED
  BY <1>1, <1>2, <1>3 DEF t

LEMMA RemoveAtIndex ==
    ASSUME NEW S, NEW s \in Seq(S), NEW k \in DOMAIN s
    PROVE  /\ RemoveAt(s, k) \in Seq(S)
           /\ Len(RemoveAt(s, k)) = Len(s) - 1
           /\ \A i \in 1..(Len(s) - 1) : RemoveAt(s, k)[i] = IF i < k THEN s[i] ELSE s[i + 1]
<1> DEFINE t == RemoveAt(s, k)
           n == Len(s)
<1>1. n \in Nat /\ DOMAIN s = 1..n /\ k \in 1..n /\ \A i \in 1..n : s[i] \in S
  BY SeqFacts
<1> DEFINE a == SubSeq(s, 1, k - 1)
           b == SubSeq(s, k + 1, n)
<1>2. a \in Seq(S) /\ Len(a) = k - 1 /\ \A i \in 1..(k - 1) : a[i] = s[i]
  BY <1>1, SubSeqProperties
<1>3. b \in Seq(S) /\ Len(b) = n - k /\ \A i \in 1..(n - k) : b[i] = s[k + i]
  <2>1. /\ b \in Seq(S)
        /\ Len(b) = IF k + 1 <= n THEN n - (k + 1) + 1 ELSE 0
        /\ \A i \in 1..(n - (k + 1) + 1) : b[i] = s[(k + 1) + i - 1]
    BY <1>1, SubSeqProperties, k + 1 \in Int, \A i \in (k + 1)..n : s[i] \in S
  <2>2. n - (k + 1) + 1 = n - k /\ \A i \in 1..(n - k) : (k + 1) + i - 1 = k + i
    BY <1>1
  <2> HIDE DEF b
  <2> QED
    BY <1>1, <2>1, <2>2
<1>4. t = a \o b
  BY DEF RemoveAt
<1> HIDE DEF a, b, t
<1>5. /\ t \in Seq(S)
      /\ Len(t) = Len(a) + Len(b)
      /\ \A i \in 1..(Len(a) + Len(b)) :
            t[i] = IF i <= Len(a) THEN a[i] ELSE b[i - Len(a)]
  BY <1>2, <1>3, <1>4, ConcatProperties
<1>6. Len(t) = n - 1
  BY <1>1, <1>2, <1>3, <1>5
<1>7. ASSUME NEW i \in 1..(n - 1), i < k PROVE t[i] = s[i]
  <2>1. t[i] = a[i] /\ i \in 1..(k - 1)
    BY <1>1, <1>2, <1>3, <1>5, <1>7
  <2> QED
    BY <1>2, <2>1
<1>8. ASSUME NEW i \in 1..(n - 1), ~ (i < k) PROVE t[i] = s[i + 1]
  <2>1. t[i] = b[i - (k - 1)]
    BY <1>1, <1>2, <1>3, <1>5, <1>8
  <2>2. i - (k - 1) \in 1..(n - k) /\ k + (i - (k - 1)) = i + 1
    BY <1>1, <1>8
  <2> QED
    BY <1>3, <2>1, <2>2
<1> QED
  BY <1>5, <1>6, <1>7, <1>8 DEF t

LEMMA RemoveAtFacts ==
    ASSUME NEW S, NEW s \in Seq(S), NEW k \in DOMAIN s
    PROVE  /\ RemoveAt(s, k) \in Seq(S)
           /\ ToSet(RemoveAt(s, k)) \subseteq ToSet(s)
           /\ ToSet(s) \subseteq ToSet(RemoveAt(s, k)) \cup {s[k]}
           /\ IsInjective(s) => /\ IsInjective(RemoveAt(s, k))
                                /\ s[k] \notin ToSet(RemoveAt(s, k))
<1> DEFINE t == RemoveAt(s, k)
           n == Len(s)
<1>1. n \in Nat /\ DOMAIN s = 1..n /\ k \in 1..n /\ \A i \in 1..n : s[i] \in S
  BY SeqFacts
<1>2. /\ t \in Seq(S)
      /\ Len(t) = n - 1
      /\ \A i \in 1..(n - 1) : t[i] = IF i < k THEN s[i] ELSE s[i + 1]
  BY RemoveAtIndex
<1> HIDE DEF t
<1>3. DOMAIN t = 1..(n - 1)
  BY <1>1, <1>2
<1> DEFINE from(i) == IF i < k THEN i ELSE i + 1
<1>3a. \A i \in 1..(n - 1) : from(i) \in (1..n) \ {k} /\ t[i] = s[from(i)]
  BY <1>1, <1>2
<1>3b. \A i, j \in 1..(n - 1) : from(i) = from(j) => i = j
  BY <1>1
<1> HIDE DEF from
<1>4. ToSet(t) \subseteq ToSet(s)
  BY <1>1, <1>3, <1>3a DEF ToSet
<1>5. ToSet(s) \subseteq ToSet(t) \cup {s[k]}
  <2> SUFFICES ASSUME NEW i \in 1..n, i # k PROVE \E j \in 1..(n - 1) : t[j] = s[i]
    BY <1>1, <1>3 DEF ToSet
  <2>1. CASE i < k
    BY <1>1, <1>2, <2>1
  <2>2. CASE i > k
    <3>1. i - 1 \in 1..(n - 1) /\ ~ (i - 1 < k) /\ (i - 1) + 1 = i
      BY <1>1, <2>2
    <3> QED
      BY <1>2, <3>1
  <2> QED
    BY <2>1, <2>2, <1>1
<1>6. ASSUME IsInjective(s) PROVE IsInjective(t) /\ s[k] \notin ToSet(t)
  BY <1>1, <1>3, <1>6, <1>3a, <1>3b DEF IsInjective, ToSet
<1> QED
  BY <1>2, <1>4, <1>5, <1>6 DEF t

-----------------------------------------------------------------------------
(* Folds.                                                                   *)

LEMMA Smallest ==
    ASSUME NEW T \in SUBSET Nat, T # {}
    PROVE  \E n \in T : \A m \in T : n <= m
<1>1. PICK n \in T : \A m \in T : ~ (<<m, n>> \in OpToRel(<, Nat))
  BY NatLessThanWellFounded, WFMin
<1>2. ASSUME NEW m \in T
      PROVE  ~ (m < n)
  BY <1>1 DEF OpToRel
<1> QED
  BY <1>2

\* What holds at first and is kept from each place to the next holds at all.
LEMMA UpTo ==
    ASSUME NEW n \in Nat, NEW Good, 0 \in Good,
           \A k \in 1..n : k - 1 \in Good => k \in Good
    PROVE  0..n \subseteq Good
<1> DEFINE Bad == (0..n) \ Good
<1> SUFFICES ASSUME Bad # {}
             PROVE  FALSE
  OBVIOUS
<1>1. Bad \in SUBSET Nat
  OBVIOUS
<1>2. PICK k \in Bad : \A m \in Bad : k <= m
  <2> HIDE DEF Bad
  <2> QED
    BY <1>1, Smallest
<1>3. k \in 1..n /\ k - 1 \in 0..n /\ ~ (k <= k - 1)
  OBVIOUS
<1>4. k - 1 \in Good
  BY <1>2, <1>3
<1> QED
  BY <1>3, <1>4

\* Of the finite sets with some property, one has the fewest elements.
LEMMA SmallestSet ==
    ASSUME NEW Family, Family # {}, \A s \in Family : IsFiniteSet(s)
    PROVE  \E s \in Family : \A t \in Family : Cardinality(s) <= Cardinality(t)
<1> DEFINE T == {Cardinality(s) : s \in Family}
<1>1. \A s \in Family : Cardinality(s) \in Nat
  BY FS_CardinalityType
<1>2. T \in SUBSET Nat /\ T # {}
  BY <1>1
<1>3. PICK n \in T : \A m \in T : n <= m
  BY <1>2, Smallest, Zenon
<1> QED
  BY <1>3

\* An element less.
LEMMA OneLess ==
    ASSUME NEW D, IsFiniteSet(D), NEW s \in SUBSET D, NEW x \in s
    PROVE  /\ s \ {x} \in SUBSET D /\ IsFiniteSet(s) /\ IsFiniteSet(s \ {x})
           /\ Cardinality(s) \in Nat /\ Cardinality(s \ {x}) \in Nat
           /\ Cardinality(s \ {x}) = Cardinality(s) - 1
           /\ ~ (Cardinality(s) <= Cardinality(s \ {x}))
<1>1. IsFiniteSet(s)
  BY FS_Subset, Zenon
<1>2. Cardinality(s) \in Nat
  BY <1>1, FS_CardinalityType
<1>3. IsFiniteSet(s \ {x}) /\ Cardinality(s \ {x}) = Cardinality(s) - 1
  BY <1>1, FS_RemoveElement
<1>4. Cardinality(s \ {x}) \in Nat
  BY <1>3, FS_CardinalityType
<1>5. ~ (Cardinality(s) <= Cardinality(s \ {x}))
  BY <1>2, <1>3
<1> QED
  BY <1>1, <1>2, <1>3, <1>4, <1>5

Chooses(c, D) == \A s \in SUBSET D : s # {} => c[s] \in s

\* g folds h over every part of D, in the order in which c chooses.
IsFold(g, D, base, h, c) ==
    \A s \in SUBSET D :
        g[s] = IF s = {} THEN base ELSE h[c[s]][g[s \ {c[s]}]]

\* A fold over a finite set exists, whatever it adds up and in whichever order.
LEMMA FoldExists ==
    ASSUME NEW D, IsFiniteSet(D), NEW V, NEW base \in V, NEW h \in [D -> [V -> V]],
           NEW c, Chooses(c, D)
    PROVE  \E g \in [SUBSET D -> V] : IsFold(g, D, base, h, c)
<1>0. \A s \in SUBSET D : s # {} => c[s] \in s
  BY DEF Chooses
<1> DEFINE Upto(n) == {s \in SUBSET D : Cardinality(s) <= n}
           Folds(g, n) == \A s \in Upto(n) :
                g[s] = IF s = {} THEN base ELSE h[c[s]][g[s \ {c[s]}]]
           Bad == {n \in Nat : ~ \E g \in [Upto(n) -> V] : Folds(g, n)}
<1>1. ASSUME NEW s \in SUBSET D, s # {}
      PROVE  /\ s \ {c[s]} \in SUBSET D /\ c[s] \in D
             /\ Cardinality(s) \in Nat /\ Cardinality(s \ {c[s]}) = Cardinality(s) - 1
  <2>1. PICK x \in s : x = c[s]
    BY <1>0, <1>1
  <2>2. /\ s \ {x} \in SUBSET D
        /\ Cardinality(s) \in Nat /\ Cardinality(s \ {x}) = Cardinality(s) - 1
    BY OneLess
  <2> QED
    BY <2>1, <2>2
<1>2. ASSUME NEW n \in Nat, n # 0, n - 1 \notin Bad
      PROVE  n \notin Bad
  <2>1. n - 1 \in Nat
    BY <1>2
  <2>2. PICK g \in [Upto(n - 1) -> V] : Folds(g, n - 1)
    BY <1>2, <2>1
  <2>3. ASSUME NEW s \in Upto(n), s # {}
        PROVE  s \ {c[s]} \in Upto(n - 1) /\ c[s] \in D
    <3>1. Cardinality(s) \in Nat /\ Cardinality(s) <= n
      BY <1>1, <2>3
    <3>2. Cardinality(s) - 1 <= n - 1
      BY <3>1
    <3> QED
      BY <1>1, <2>3, <3>2
  <2>4. ASSUME NEW s \in Upto(n - 1)
        PROVE  s \in Upto(n) /\ s \in SUBSET D
    <3>1. IsFiniteSet(s)
      BY FS_Subset
    <3>2. Cardinality(s) \in Nat /\ Cardinality(s) <= n - 1
      BY <3>1, FS_CardinalityType
    <3>3. Cardinality(s) <= n
      BY <3>2
    <3> QED
      BY <3>3
  <2> HIDE DEF Upto
  <2> DEFINE more == [s \in Upto(n) |->
                        IF s = {} THEN base ELSE h[c[s]][g[s \ {c[s]}]]]
  <2>5. \A s \in Upto(n) : more[s] = IF s = {} THEN base ELSE h[c[s]][g[s \ {c[s]}]]
    OBVIOUS
  <2>6. more \in [Upto(n) -> V]
    <3>1. ASSUME NEW s \in Upto(n)
          PROVE  (IF s = {} THEN base ELSE h[c[s]][g[s \ {c[s]}]]) \in V
      <4>1. CASE s = {}
        BY <4>1
      <4>2. CASE s # {}
        <5>1. c[s] \in D /\ g[s \ {c[s]}] \in V
          BY <2>3, <4>2
        <5> QED
          BY <4>2, <5>1
      <4> QED
        BY <4>1, <4>2
    <3> QED
      BY <3>1
  <2> HIDE DEF more
  <2>7. \A s \in Upto(n - 1) : more[s] = g[s]
    BY <2>2, <2>4, <2>5
  <2>8. Folds(more, n)
    <3> TAKE s \in Upto(n)
    <3>1. CASE s = {}
      BY <2>5, <3>1
    <3>2. CASE s # {}
      <4>1. more[s \ {c[s]}] = g[s \ {c[s]}]
        BY <2>3, <2>7, <3>2
      <4> QED
        BY <2>5, <3>2, <4>1
    <3> QED
      BY <3>1, <3>2
  <2> QED
    BY <2>6, <2>8, Zenon
<1>3. 0 \notin Bad
  <2>1. ASSUME NEW s \in Upto(0)
        PROVE  s = {}
    <3>1. IsFiniteSet(s)
      BY FS_Subset
    <3>2. Cardinality(s) = 0
      BY <3>1, FS_CardinalityType
    <3> QED
      BY <3>1, <3>2, FS_EmptySet
  <2> DEFINE g == [s \in Upto(0) |-> base]
  <2>2. g \in [Upto(0) -> V] /\ Folds(g, 0)
    BY <2>1
  <2> QED
    BY <2>2, Zenon
<1>4. Bad = {}
  <2> SUFFICES ASSUME Bad # {}
               PROVE  FALSE
    OBVIOUS
  <2>1. PICK n \in Bad : \A m \in Bad : n <= m
    <3>1. Bad \in SUBSET Nat
      OBVIOUS
    <3> HIDE DEF Bad
    <3> QED
      BY <3>1, Smallest, Zenon
  <2>2. n \in Nat /\ n # 0
    BY <1>3
  <2>3. n - 1 \notin Bad
    <3> HIDE DEF Bad
    <3> QED
      BY <2>1, <2>2
  <2> QED
    BY <1>2, <2>2, <2>3
<1>5. Cardinality(D) \in Nat /\ Upto(Cardinality(D)) = SUBSET D
  <2>1. \A s \in SUBSET D : Cardinality(s) <= Cardinality(D)
    BY FS_Subset
  <2> QED
    BY <2>1, FS_CardinalityType
<1>6. PICK g \in [Upto(Cardinality(D)) -> V] : Folds(g, Cardinality(D))
  BY <1>4, <1>5
<1> QED
  BY <1>5, <1>6 DEF IsFold

-----------------------------------------------------------------------------
(* Sums over finite sets.                                                   *)

\* g is, for every part of D, the sum of f over it, added up in some order.
Sums(g, f, D) ==
    \A s \in SUBSET D :
        IF s = {} THEN g[s] = 0 ELSE \E x \in s : g[s] = f[x] + g[s \ {x}]

\* The same, in any order.
Adds(g, f, D) ==
    \A s \in SUBSET D : g[s] \in Int /\ \A x \in s : g[s] = f[x] + g[s \ {x}]

LEMMA AnyOrder ==
    ASSUME NEW D, IsFiniteSet(D), NEW f \in [D -> Int], NEW g, Sums(g, f, D)
    PROVE  Adds(g, f, D) /\ g[{}] = 0
<1> DEFINE Fine(s) == g[s] \in Int /\ \A x \in s : g[s] = f[x] + g[s \ {x}]
           Bad == {s \in SUBSET D : ~ Fine(s)}
<1>0. g[{}] = 0
  BY DEF Sums
<1> SUFFICES ASSUME Bad # {}
             PROVE  FALSE
  BY <1>0 DEF Adds
<1>1. PICK s \in Bad : \A t \in Bad : Cardinality(s) <= Cardinality(t)
  <2>1. \A t \in Bad : IsFiniteSet(t)
    BY FS_Subset
  <2> HIDE DEF Bad
  <2> QED
    BY <2>1, SmallestSet, Zenon
<1>2. ASSUME NEW x \in s
      PROVE  s \ {x} \in SUBSET D /\ Fine(s \ {x}) /\ x \in D
  <2>1. s \in SUBSET D
    OBVIOUS
  <2>2. s \ {x} \in SUBSET D /\ ~ (Cardinality(s) <= Cardinality(s \ {x}))
    BY <2>1, OneLess
  <2> HIDE DEF Fine
  <2> QED
    BY <1>1, <2>1, <2>2
<1>3. ~ Fine(s) /\ s \in SUBSET D
  OBVIOUS
<1>4. CASE s = {}
  BY <1>3, <1>4 DEF Sums
<1>5. CASE s # {}
  <2>1. PICK c \in s : g[s] = f[c] + g[s \ {c}]
    BY <1>3, <1>5 DEF Sums
  <2>2. g[s \ {c}] \in Int /\ f[c] \in Int
    BY <1>2
  <2>3. g[s] \in Int
    BY <2>1, <2>2
  <2>4. ASSUME NEW x \in s
        PROVE  g[s] = f[x] + g[s \ {x}]
    <3>1. CASE x = c
      BY <2>1, <3>1
    <3>2. CASE x # c
      <4>1. x \in s \ {c} /\ c \in s \ {x} /\ (s \ {c}) \ {x} = (s \ {x}) \ {c}
        BY <3>2
      <4>2. g[s \ {c}] = f[x] + g[(s \ {c}) \ {x}]
        BY <1>2, <4>1
      <4>3. g[s \ {x}] = f[c] + g[(s \ {x}) \ {c}] /\ g[s \ {x}] \in Int
        BY <1>2, <4>1
      <4> DEFINE rest == (s \ {c}) \ {x}
      <4>4. g[s] = f[c] + (f[x] + g[rest]) /\ g[s \ {x}] = f[c] + g[rest]
        BY <2>1, <4>1, <4>2, <4>3
      <4>5. g[rest] \in Int /\ f[x] \in Int /\ f[c] \in Int
        <5>1. PICK r \in SUBSET D : r = s \ {c}
          BY <1>2
        <5>2. r \in SUBSET D /\ IsFiniteSet(r) /\ x \in r /\ ~ (Cardinality(s) <= Cardinality(r))
          BY <4>1, <5>1, OneLess, <1>3
        <5>3. r \ {x} \in SUBSET D /\ ~ (Cardinality(r) <= Cardinality(r \ {x}))
              /\ Cardinality(r) \in Nat /\ Cardinality(r \ {x}) \in Nat
          BY <5>2, OneLess
        <5>4. Cardinality(s) \in Nat
          BY <1>3, OneLess
        <5>5. ~ (Cardinality(s) <= Cardinality(r \ {x}))
          BY <5>2, <5>3, <5>4
        <5>6. Fine(r \ {x})
          <6> HIDE DEF Fine
          <6> QED
            BY <1>1, <5>3, <5>5
        <5> QED
          BY <1>2, <5>1, <5>6
      <4> HIDE DEF rest
      <4> QED
        BY <4>4, <4>5
    <3> QED
      BY <3>1, <3>2
  <2> QED
    BY <1>3, <2>3, <2>4
<1> QED
  BY <1>4, <1>5

\* Nor does what lies outside the set.
LEMMA SameSum ==
    ASSUME NEW D, IsFiniteSet(D), NEW f, NEW g, Adds(g, f, D), g[{}] = 0,
           NEW E, NEW k, NEW h, Adds(h, k, E), h[{}] = 0,
           NEW S, S \in SUBSET D, S \in SUBSET E, \A x \in S : f[x] = k[x]
    PROVE  g[S] = h[S]
<1> DEFINE Bad == {s \in SUBSET S : g[s] # h[s]}
<1> SUFFICES ASSUME Bad # {}
             PROVE  FALSE
  OBVIOUS
<1>1. PICK s \in Bad : \A t \in Bad : Cardinality(s) <= Cardinality(t)
  <2>1. \A t \in Bad : IsFiniteSet(t)
    BY FS_Subset
  <2> HIDE DEF Bad
  <2> QED
    BY <2>1, SmallestSet, Zenon
<1>2. s \in SUBSET S /\ s \in SUBSET D /\ s \in SUBSET E /\ g[s] # h[s]
  OBVIOUS
<1>3. PICK x \in s : TRUE
  BY <1>2
<1>4. PICK rest : rest = s \ {x}
  OBVIOUS
<1>5. g[s] = f[x] + g[rest] /\ h[s] = k[x] + h[rest] /\ f[x] = k[x]
  BY <1>2, <1>4 DEF Adds
<1>6. rest \in SUBSET S /\ ~ (Cardinality(s) <= Cardinality(rest))
  BY <1>2, <1>4, OneLess
<1> QED
  BY <1>1, <1>2, <1>5, <1>6

LEMMA SumOfNothing ==
    ASSUME NEW D, IsFiniteSet(D), NEW f, NEW g, Adds(g, f, D), g[{}] = 0,
           \A x \in D : f[x] = 0
    PROVE  g[D] = 0
<1> DEFINE Bad == {s \in SUBSET D : g[s] # 0}
<1> SUFFICES ASSUME Bad # {}
             PROVE  FALSE
  OBVIOUS
<1>1. PICK s \in Bad : \A t \in Bad : Cardinality(s) <= Cardinality(t)
  <2>1. \A t \in Bad : IsFiniteSet(t)
    BY FS_Subset
  <2> HIDE DEF Bad
  <2> QED
    BY <2>1, SmallestSet, Zenon
<1>2. s \in SUBSET D /\ g[s] # 0
  OBVIOUS
<1>3. PICK x \in s : TRUE
  BY <1>2
<1>4. PICK rest : rest = s \ {x}
  OBVIOUS
<1>5. g[s] = f[x] + g[rest] /\ f[x] = 0
  BY <1>2, <1>4 DEF Adds
<1>6. rest \in SUBSET D /\ ~ (Cardinality(s) <= Cardinality(rest))
  BY <1>2, <1>4, OneLess
<1> QED
  BY <1>1, <1>2, <1>5, <1>6

LEMMA LastTerm ==
    ASSUME NEW D, NEW f, NEW g, Adds(g, f, D), NEW x \in D, NEW rest, rest = D \ {x}
    PROVE  g[D] \in Int /\ g[rest] \in Int /\ g[D] = f[x] + g[rest]
<1>1. D \in SUBSET D /\ rest \in SUBSET D
  OBVIOUS
<1> QED
  BY <1>1 DEF Adds

\* A single term that is not zero.
LEMMA SumOfOne ==
    ASSUME NEW D, IsFiniteSet(D), NEW f \in [D -> Int], NEW g, Adds(g, f, D), g[{}] = 0,
           NEW x \in D, \A y \in D \ {x} : f[y] = 0
    PROVE  g[D] = f[x]
<1>1. PICK rest : rest = D \ {x}
  OBVIOUS
<1>2. g[D] = f[x] + g[rest]
  BY <1>1, LastTerm
<1>3. IsFiniteSet(rest) /\ rest \in SUBSET D
  BY <1>1, FS_Subset
<1>4. Adds(g, f, rest)
  <2>1. \A s \in SUBSET rest : s \in SUBSET D
    BY <1>3
  <2> QED
    BY <2>1 DEF Adds
<1>5. \A y \in rest : f[y] = 0
  BY <1>1
<1>6. g[rest] = 0
  BY <1>3, <1>4, <1>5, SumOfNothing
<1>7. f[x] \in Int
  OBVIOUS
<1> QED
  BY <1>2, <1>6, <1>7

\* One term changes.
LEMMA SumUpdate ==
    ASSUME NEW D, IsFiniteSet(D), NEW f \in [D -> Int], NEW g, Adds(g, f, D), g[{}] = 0,
           NEW k \in [D -> Int], NEW h, Adds(h, k, D), h[{}] = 0,
           NEW x \in D, \A y \in D \ {x} : k[y] = f[y]
    PROVE  g[D] \in Int /\ h[D] = g[D] - f[x] + k[x]
<1>1. PICK E : E = D \ {x}
  OBVIOUS
<1>2. g[D] \in Int /\ g[E] \in Int /\ g[D] = f[x] + g[E]
  BY <1>1, LastTerm
<1>3. h[D] = k[x] + h[E]
  BY <1>1, LastTerm
<1>4. g[E] = h[E]
  BY <1>1, SameSum
<1>5. f[x] \in Int /\ k[x] \in Int
  OBVIOUS
<1> QED
  BY <1>2, <1>3, <1>4, <1>5

\* One term more.
LEMMA SumExtend ==
    ASSUME NEW D, IsFiniteSet(D), NEW f, NEW g, Adds(g, f, D), g[{}] = 0,
           NEW E, NEW x, E = D \cup {x}, x \notin D,
           NEW k \in [E -> Int], NEW h, Adds(h, k, E), h[{}] = 0,
           \A y \in D : k[y] = f[y]
    PROVE  g[D] \in Int /\ h[E] = g[D] + k[x]
<1>1. D \in SUBSET D /\ D \in SUBSET E /\ D = E \ {x} /\ x \in E
  OBVIOUS
<1>2. g[D] \in Int
  BY <1>1 DEF Adds
<1>3. h[E] = k[x] + h[D]
  BY <1>1, LastTerm
<1>4. g[D] = h[D]
  BY <1>1, SameSum
<1>5. k[x] \in Int
  BY <1>1
<1> QED
  BY <1>2, <1>3, <1>4, <1>5

\* A sum exists for every order of its terms: what a definition by recursion
\* over the parts of a set computes.
AddsBy(g, f, D, c) ==
    \A s \in SUBSET D : g[s] = IF s = {} THEN 0 ELSE f[c[s]] + g[s \ {c[s]}]

LEMMA SumExists ==
    ASSUME NEW D, IsFiniteSet(D), NEW f \in [D -> Int], NEW c, Chooses(c, D)
    PROVE  \E g \in [SUBSET D -> Int] : AddsBy(g, f, D, c)
<1> DEFINE h == [x \in D |-> [v \in Int |-> f[x] + v]]
<1>1. h \in [D -> [Int -> Int]] /\ \A x \in D : \A v \in Int : h[x][v] = f[x] + v
  OBVIOUS
<1> HIDE DEF h
<1>2. PICK g \in [SUBSET D -> Int] : IsFold(g, D, 0, h, c)
  <2>1. PICK V : V = Int
    OBVIOUS
  <2>2. PICK zero : zero = 0
    OBVIOUS
  <2>3. zero \in V /\ h \in [D -> [V -> V]]
    BY <1>1, <2>1, <2>2
  <2>4. \E g \in [SUBSET D -> V] : IsFold(g, D, zero, h, c)
    BY <2>3, FoldExists
  <2> QED
    BY <2>1, <2>2, <2>4
<1>3. ASSUME NEW s \in SUBSET D, s # {}
      PROVE  g[s] = f[c[s]] + g[s \ {c[s]}]
  BY <1>1, <1>2, <1>3 DEF Chooses, IsFold
<1> QED
  BY <1>2, <1>3 DEF IsFold, AddsBy

\* The order in which MapThenSumSet adds up.
LEMMA SomeChooses ==
    ASSUME NEW D
    PROVE  Chooses([s \in SUBSET D |-> CHOOSE x \in s : TRUE], D)
  BY DEF Chooses

\* What MapThenSumSet adds up: the recursion its definition is.
ChosenSum(g, f, D) ==
    g = [s \in SUBSET D |->
            IF s = {} THEN 0
            ELSE LET x == CHOOSE x \in s : TRUE IN f[x] + g[s \ {x}]]

LEMMA ChosenSumExists ==
    ASSUME NEW D, IsFiniteSet(D), NEW f \in [D -> Int]
    PROVE  \E g : ChosenSum(g, f, D)
<1> DEFINE c == [s \in SUBSET D |-> CHOOSE x \in s : TRUE]
<1>1. Chooses(c, D)
  BY SomeChooses, Zenon
<1>2. \A s \in SUBSET D : c[s] = CHOOSE x \in s : TRUE
  OBVIOUS
<1> HIDE DEF c
<1>3. PICK g \in [SUBSET D -> Int] : AddsBy(g, f, D, c)
  BY <1>1, SumExists
<1>4. \A s \in SUBSET D : g[s] = IF s = {} THEN 0
                                 ELSE LET x == CHOOSE x \in s : TRUE IN f[x] + g[s \ {x}]
  BY <1>2, <1>3 DEF AddsBy
<1>5. ChosenSum(g, f, D)
  BY <1>4 DEF ChosenSum
<1> QED
  BY <1>5

LEMMA ChosenSumAdds ==
    ASSUME NEW D, IsFiniteSet(D), NEW f \in [D -> Int], NEW g, ChosenSum(g, f, D)
    PROVE  Adds(g, f, D) /\ g[{}] = 0
<1>1. g[{}] = 0
  BY DEF ChosenSum
<1>2. ASSUME NEW s \in SUBSET D, s # {}
      PROVE  \E x \in s : g[s] = f[x] + g[s \ {x}]
  <2>1. PICK x \in s : x = CHOOSE y \in s : TRUE
    BY <1>2
  <2>2. g[s] = f[x] + g[s \ {x}]
    BY <1>2, <2>1 DEF ChosenSum
  <2> QED
    BY <2>2
<1>3. Sums(g, f, D)
  BY <1>1, <1>2 DEF Sums
<1> QED
  BY <1>3, AnyOrder

\* Positive terms: part of them add up to no more.
LEMMA SumOfPart ==
    ASSUME NEW D, IsFiniteSet(D), NEW f \in [D -> Int], NEW g, Adds(g, f, D),
           \A x \in D : f[x] >= 0, NEW S \in SUBSET D
    PROVE  g[S] <= g[D]
<1> DEFINE Bad == {s \in SUBSET D : S \subseteq s /\ ~ (g[S] <= g[s])}
<1> SUFFICES ASSUME Bad # {}
             PROVE  FALSE
  <2>1. D \in SUBSET D
    OBVIOUS
  <2> QED
    BY <2>1
<1>1. PICK s \in Bad : \A t \in Bad : Cardinality(s) <= Cardinality(t)
  <2>1. \A t \in Bad : IsFiniteSet(t)
    BY FS_Subset
  <2> HIDE DEF Bad
  <2> QED
    BY <2>1, SmallestSet, Zenon
<1>2. s \in SUBSET D /\ S \subseteq s /\ ~ (g[S] <= g[s]) /\ g[S] \in Int
  BY DEF Adds
<1>3. PICK x \in s : x \notin S
  BY <1>2
<1>4. PICK rest : rest = s \ {x}
  OBVIOUS
<1>5. g[s] = f[x] + g[rest] /\ g[rest] \in Int /\ f[x] \in Int /\ f[x] >= 0
  BY <1>2, <1>4 DEF Adds
<1>6. rest \in SUBSET D /\ S \subseteq rest /\ ~ (Cardinality(s) <= Cardinality(rest))
  BY <1>2, <1>3, <1>4, OneLess
<1>7. ~ (g[S] <= g[rest])
  BY <1>2, <1>5
<1> QED
  BY <1>1, <1>6, <1>7

\* The order in which FoldLeft goes through a sequence.
LEMMA MaxChooses ==
    ASSUME NEW n \in Nat
    PROVE  Chooses([s \in SUBSET (1..n) |-> Max(s)], 1..n)
<1> SUFFICES ASSUME NEW s \in SUBSET (1..n), s # {}
             PROVE  Max(s) \in s
  BY DEF Chooses
<1> DEFINE T == {n - i : i \in s}
<1>1. T \in SUBSET Nat /\ T # {}
  <2>1. \A i \in s : i \in Int /\ n - i \in Nat
    OBVIOUS
  <2> QED
    BY <2>1
<1>2. PICK t \in T : \A m \in T : t <= m
  <2> HIDE DEF T
  <2> QED
    BY <1>1, Smallest
<1>3. PICK i \in s : t = n - i
  BY <1>2
<1>4. ASSUME NEW j \in s
      PROVE  i >= j
  <2>1. n - j \in T /\ i \in Int /\ j \in Int
    OBVIOUS
  <2>2. n - i <= n - j
    BY <1>2, <1>3, <2>1
  <2> QED
    BY <2>1, <2>2
<1> QED
  BY <1>3, <1>4 DEF Max

LEMMA MaxOfPrefix ==
    ASSUME NEW k \in Nat, k # 0
    PROVE  Max(1..k) = k /\ (1..k) \ {k} = 1..(k - 1) /\ 1..k # {}
<1>1. k \in 1..k /\ \A i \in 1..k : k >= i
  OBVIOUS
<1>2. \A x \in 1..k : (\A i \in 1..k : x >= i) => x = k
  OBVIOUS
<1>3. Max(1..k) \in 1..k /\ \A i \in 1..k : Max(1..k) >= i
  <2>1. \E x \in 1..k : \A i \in 1..k : x >= i
    BY <1>1
  <2> QED
    BY <2>1, Zenon DEF Max
<1>4. Max(1..k) = k
  BY <1>2, <1>3
<1> QED
  BY <1>1, <1>4

\* g folds h over every part of 1..n from left to right.
IsFoldLeft(g, n, base, h) ==
    \A s \in SUBSET (1..n) : g[s] = IF s = {} THEN base ELSE h[Max(s)][g[s \ {Max(s)}]]

LEMMA FoldLeftExists ==
    ASSUME NEW n \in Nat, NEW V, NEW base \in V, NEW h \in [1..n -> [V -> V]]
    PROVE  \E g \in [SUBSET (1..n) -> V] : IsFoldLeft(g, n, base, h)
<1> DEFINE c == [s \in SUBSET (1..n) |-> Max(s)]
<1>1. \A s \in SUBSET (1..n) : c[s] = Max(s)
  OBVIOUS
<1>2. Chooses(c, 1..n)
  BY MaxChooses, Zenon
<1> HIDE DEF c
<1>3. PICK D : D = 1..n /\ IsFiniteSet(D)
  BY FS_Interval
<1>4. PICK g \in [SUBSET D -> V] : IsFold(g, D, base, h, c)
  BY <1>2, <1>3, FoldExists
<1>5. IsFoldLeft(g, n, base, h)
  BY <1>1, <1>3, <1>4 DEF IsFold, IsFoldLeft
<1> QED
  BY <1>3, <1>4, <1>5

\* A sum over other names for the same terms.
LEMMA SumRenamed ==
    ASSUME NEW D, IsFiniteSet(D), NEW f, NEW g, Adds(g, f, D), g[{}] = 0,
           NEW E, NEW k, NEW h, Adds(h, k, E), h[{}] = 0,
           NEW c \in [E -> D], \A x, y \in E : c[x] = c[y] => x = y,
           \A z \in D : \E x \in E : c[x] = z,
           \A x \in E : k[x] = f[c[x]]
    PROVE  h[E] = g[D]
<1> DEFINE Named(s) == {x \in E : c[x] \in s}
<1>1. PICK j : j = [s \in SUBSET D |-> h[Named(s)]]
  OBVIOUS
<1>2. \A s \in SUBSET D : j[s] = h[Named(s)] /\ Named(s) \in SUBSET E
  BY <1>1
<1>3. Adds(j, f, D)
  <2> SUFFICES ASSUME NEW s \in SUBSET D
               PROVE  j[s] \in Int /\ \A z \in s : j[s] = f[z] + j[s \ {z}]
    BY DEF Adds
  <2>1. j[s] \in Int
    BY <1>2 DEF Adds
  <2>2. ASSUME NEW z \in s
        PROVE  j[s] = f[z] + j[s \ {z}]
    <3>1. PICK x \in E : c[x] = z
      OBVIOUS
    <3>2. x \in Named(s) /\ Named(s \ {z}) = Named(s) \ {x} /\ s \ {z} \in SUBSET D
      BY <3>1
    <3> HIDE DEF Named
    <3>3. h[Named(s)] = k[x] + h[Named(s) \ {x}]
      BY <1>2, <3>2 DEF Adds
    <3>4. j[s] = h[Named(s)] /\ j[s \ {z}] = h[Named(s) \ {x}]
      BY <1>2, <3>2
    <3>5. k[x] = f[z]
      BY <3>1
    <3> QED
      BY <3>3, <3>4, <3>5
  <2> QED
    BY <2>1, <2>2
<1>4. j[{}] = 0 /\ j[D] = h[E]
  <2>1. Named({}) = {} /\ Named(D) = E /\ {} \in SUBSET D /\ D \in SUBSET D
    OBVIOUS
  <2> HIDE DEF Named
  <2> QED
    BY <1>2, <2>1
<1>5. g[D] = j[D]
  <2>1. D \in SUBSET D
    OBVIOUS
  <2> QED
    BY <1>3, <1>4, <2>1, SameSum
<1> QED
  BY <1>4, <1>5
=============================================================================
