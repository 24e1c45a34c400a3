------------------------- MODULE Subsequence_proofs --------------------------
(***************************************************************************)
(* What the proofs about queues need to know of SubseqAt: it is an         *)
(* enumeration of the positions, in their order and without a gap.         *)
(***************************************************************************)
EXTENDS Subsequence, FiniteSetTheorems, WellFoundedInduction, TLAPS

\* A nonempty set of numbers has a least element.
LEMMA LeastOf ==
  ASSUME NEW T \in SUBSET Nat, T # {}
  PROVE  \E m \in T : \A k \in T : m <= k
<1>1. \E m \in T : \A k \in T : ~(<<k, m>> \in OpToRel(<, Nat))
  BY NatLessThanWellFounded, WFMin
<1>2. PICK m \in T : \A k \in T : ~(<<k, m>> \in OpToRel(<, Nat))
  BY <1>1
<1>3. \A k \in T : ~(k < m)
  BY <1>2 DEF OpToRel
<1> QED
  BY <1>3

\* If it is bounded, it has a greatest one.
LEMMA GreatestOf ==
  ASSUME NEW n \in Nat, NEW T \in SUBSET (0 .. n), T # {}
  PROVE  \E m \in T : \A k \in T : k <= m
<1> DEFINE Below == {j \in 0 .. n : n - j \in T}
<1>1. Below \in SUBSET Nat /\ Below # {}
  <2>1. PICK t \in T : TRUE
    OBVIOUS
  <2>2. n - t \in 0 .. n /\ n - (n - t) = t
    OBVIOUS
  <2> QED
    BY <2>1, <2>2
<1>2. PICK b \in Below : \A j \in Below : b <= j
  BY <1>1, LeastOf
<1>3. ASSUME NEW k \in T PROVE k <= n - b
  <2>1. n - k \in 0 .. n /\ n - (n - k) = k
    OBVIOUS
  <2>2. b <= n - k
    BY <1>2, <2>1
  <2> QED
    BY <2>2
<1> QED
  BY <1>2, <1>3

\* A set of positions is finite, and its elements are numbers.
LEMMA PositionFacts ==
  ASSUME NEW n \in Nat, NEW K, \A k \in K : k \in 1 .. n
  PROVE  /\ IsFiniteSet(K) /\ Cardinality(K) \in Nat
         /\ \A k \in K : k \in Nat /\ 1 <= k /\ k <= n
<1>1. IsFiniteSet(1 .. n)
  BY FS_Interval
<1>2. IsFiniteSet(K)
  BY <1>1, FS_Subset
<1>3. Cardinality(K) \in Nat
  BY <1>2, FS_CardinalityType
<1> QED
  BY <1>2, <1>3

LEMMA RankFacts ==
  ASSUME NEW n \in Nat, NEW K, \A k \in K : k \in 1 .. n, NEW k \in K
  PROVE  /\ IsFiniteSet(K)
         /\ Rank(K, k) \in 1 .. Cardinality(K)
         /\ \A j \in K : j < k => Rank(K, j) < Rank(K, k)
<1>1. /\ IsFiniteSet(K) /\ Cardinality(K) \in Nat
      /\ \A j \in K : j \in Nat /\ 1 <= j /\ j <= n
  BY PositionFacts
<1> DEFINE Upto(j) == {i \in K : i <= j}
<1>2. /\ IsFiniteSet(Upto(k)) /\ Cardinality(Upto(k)) \in Nat
      /\ Cardinality(Upto(k)) <= Cardinality(K)
  <2>1. Upto(k) \subseteq K
    OBVIOUS
  <2> HIDE DEF Upto
  <2> QED
    BY <1>1, <2>1, FS_Subset, FS_CardinalityType
<1>3. Cardinality(Upto(k)) # 0
  BY <1>2, FS_EmptySet
<1>4. ASSUME NEW j \in K, j < k PROVE Cardinality(Upto(j)) < Cardinality(Upto(k))
  <2>1. Upto(j) \subseteq Upto(k) /\ k \in Upto(k) /\ k \notin Upto(j)
    BY <1>1, <1>4
  <2>2. Upto(j) # Upto(k)
    BY <2>1
  <2> HIDE DEF Upto
  <2>3. Cardinality(Upto(j)) <= Cardinality(Upto(k)) /\ Cardinality(Upto(j)) # Cardinality(Upto(k))
    BY <1>2, <2>1, <2>2, FS_Subset, FS_CardinalityType
  <2> QED
    BY <1>2, <2>1, <2>3, FS_Subset, FS_CardinalityType
<1> QED
  BY <1>1, <1>2, <1>3, <1>4 DEF Rank

\* Every rank is taken: the last position has the highest one, and the
\* position before one of rank i + 1 has rank i.
LEMMA RankOnto ==
  ASSUME NEW n \in Nat, NEW K, \A k \in K : k \in 1 .. n, NEW r \in 1 .. Cardinality(K)
  PROVE  \E k \in K : Rank(K, k) = r
<1>1. /\ IsFiniteSet(K) /\ Cardinality(K) \in Nat
      /\ \A j \in K : j \in Nat /\ 1 <= j /\ j <= n
  BY PositionFacts
<1> DEFINE c == Cardinality(K)
           Free == {i \in 1 .. c : ~\E k \in K : Rank(K, k) = i}
<1> SUFFICES ASSUME Free # {} PROVE FALSE
  OBVIOUS
<1>2. PICK i \in Free : \A j \in Free : j <= i
  <2>1. Free \in SUBSET (0 .. c)
    BY <1>1
  <2> QED
    BY <1>1, <2>1, GreatestOf
<1>3. CASE i = c
  <2>1. K # {} /\ K \in SUBSET (0 .. n)
    BY <1>1, <1>3, FS_EmptySet
  <2>2. PICK k \in K : \A j \in K : j <= k
    BY <2>1, GreatestOf
  <2>3. {j \in K : j <= k} = K
    BY <2>2
  <2> QED
    BY <1>3, <2>3 DEF Rank
<1>4. CASE i # c
  <2>1. i + 1 \in 1 .. c /\ i + 1 \notin Free
    BY <1>1, <1>2, <1>4
  <2>2. PICK k \in K : Rank(K, k) = i + 1
    BY <2>1
  <2> DEFINE Upto == {j \in K : j <= k}
             Before == {j \in K : j < k}
  <2>3. IsFiniteSet(Upto) /\ Before = Upto \ {k} /\ k \in Upto
    <3>1. Upto \subseteq K /\ Before = Upto \ {k} /\ k \in Upto
      BY <1>1
    <3> HIDE DEF Upto
    <3>2. IsFiniteSet(Upto)
      BY <1>1, <3>1, FS_Subset
    <3> QED
      BY <3>1, <3>2
  <2>4. Cardinality(Before) = i
    <3> HIDE DEF Before, Upto
    <3>1. Cardinality(Before) = Cardinality(Upto) - 1
      BY <2>3, FS_RemoveElement
    <3> QED
      BY <2>2, <3>1, <1>2 DEF Rank, Upto
  <2>5. Before # {}
    BY <2>4, FS_EmptySet
  <2>6. Before \in SUBSET (0 .. n)
    BY <1>1
  <2>7. PICK p \in Before : \A j \in Before : j <= p
    BY <2>5, <2>6, GreatestOf
  <2>8. {j \in K : j <= p} = Before
    BY <1>1, <2>7
  <2> QED
    BY <2>4, <2>7, <2>8 DEF Rank
<1> QED
  BY <1>3, <1>4

\* SubseqAt lists the elements at the positions K: f[i] is the position of its
\* i-th element.
THEOREM SubseqAtFacts ==
  ASSUME NEW S, NEW s \in Seq(S), NEW K, \A k \in K : k \in 1 .. Len(s)
  PROVE  LET c == Cardinality(K)
             r == SubseqAt(s, K)
         IN  /\ c \in Nat /\ r \in Seq(S) /\ Len(r) = c
             /\ \E f \in [1 .. c -> K] :
                  /\ \A i \in 1 .. c : r[i] = s[f[i]]
                  /\ \A i, j \in 1 .. c : i < j => f[i] < f[j]
                  /\ \A k \in K : \E i \in 1 .. c : f[i] = k
<1> DEFINE c == Cardinality(K)
           f == [i \in 1 .. c |-> CHOOSE k \in K : Rank(K, k) = i]
<1>0. Len(s) \in Nat /\ \A k \in K : k \in 1 .. Len(s)
  OBVIOUS
<1>1. Len(s) \in Nat /\ c \in Nat /\ \A k \in K : k \in Nat
  BY <1>0, PositionFacts
<1>2. \A i \in 1 .. c : f[i] \in K /\ Rank(K, f[i]) = i
  BY <1>0, RankOnto
<1>3. f \in [1 .. c -> K]
  BY <1>2
<1>4. ASSUME NEW i \in 1 .. c, NEW j \in 1 .. c, i < j PROVE f[i] < f[j]
  <2>1. f[i] \in K /\ f[j] \in K /\ Rank(K, f[i]) = i /\ Rank(K, f[j]) = j
    BY <1>2
  <2> HIDE DEF f
  <2>2. f[j] < f[i] => j < i
    BY <1>0, <2>1, RankFacts
  <2>3. f[i] # f[j]
    BY <1>4, <2>1
  <2> QED
    BY <1>1, <1>4, <2>1, <2>2, <2>3
<1>5. ASSUME NEW k \in K PROVE \E i \in 1 .. c : f[i] = k
  <2>1. Rank(K, k) \in 1 .. c
    BY <1>0, RankFacts
  <2> DEFINE i == Rank(K, k)
  <2>2. f[i] \in K /\ Rank(K, f[i]) = i
    BY <1>2, <2>1
  <2> HIDE DEF f
  <2>3. ~(f[i] < k) /\ ~(k < f[i])
    <3>1. /\ f[i] < k => Rank(K, f[i]) < i
          /\ k < f[i] => i < Rank(K, f[i])
      BY <1>0, <2>2, RankFacts
    <3> QED
      BY <1>1, <2>1, <2>2, <3>1
  <2>4. f[i] = k
    BY <1>1, <2>2, <2>3
  <2> QED
    BY <2>1, <2>4
<1>6. SubseqAt(s, K) = [i \in 1 .. c |-> s[f[i]]]
  BY DEF SubseqAt
<1> HIDE DEF f
<1>7. \A i \in 1 .. c : s[f[i]] \in S
  BY <1>0, <1>3
<1>8. SubseqAt(s, K) \in Seq(S) /\ Len(SubseqAt(s, K)) = c
  BY <1>1, <1>6, <1>7
<1> QED
  BY <1>1, <1>3, <1>4, <1>5, <1>6, <1>8
=============================================================================
