------------------------- MODULE SubsequenceProofs -------------------------
(***************************************************************************)
(* Theorems about the subsequence at a set of indices: it consists of      *)
(* elements of the sequence, each taken once and in their order.           *)
(***************************************************************************)
EXTENDS Subsequences, FiniteSetTheorems, WellFoundedInduction, NaturalsInduction, TLAPS

\* A set of natural numbers that is not empty has a smallest element.
LEMMA Smallest ==
    ASSUME NEW T, T \subseteq Nat, T # {}
    PROVE  \E x \in T : \A y \in T : x <= y
<1> DEFINE R == {p \in Nat \X Nat : p[1] < p[2]}
<1>1. IsWellFoundedOn(R, Nat)
  BY NatLessThanWellFounded DEF OpToRel
<1>2. PICK x \in T : \A y \in T : ~(<<y, x>> \in R)
  BY <1>1, WFMin
<1>3. \A y \in T : ~(y < x)
  BY <1>2
<1> QED BY <1>3

\* How many indices of K there are up to i.
Upto(K, i) == {k \in K : k <= i}

\* A set of indices is finite, and so is every part of it.
LEMMA UptoFacts ==
    ASSUME NEW n \in Nat, NEW K, K \subseteq 1 .. n
    PROVE  /\ IsFiniteSet(K) /\ Cardinality(K) \in Nat /\ Cardinality(K) <= n
           /\ \A i \in Nat : IsFiniteSet(Upto(K, i)) /\ Cardinality(Upto(K, i)) \in Nat
           /\ Upto(K, n) = K /\ Cardinality(Upto(K, 0)) = 0
<1>1. IsFiniteSet(1 .. n) /\ Cardinality(1 .. n) = n
  BY FS_Interval
<1>2. IsFiniteSet(K) /\ Cardinality(K) \in Nat /\ Cardinality(K) <= n
  BY <1>1, FS_Subset, FS_CardinalityType
<1>3. ASSUME NEW i \in Nat PROVE IsFiniteSet(Upto(K, i)) /\ Cardinality(Upto(K, i)) \in Nat
  <2>1. Upto(K, i) \subseteq K
    BY DEF Upto
  <2> QED BY <1>2, <2>1, FS_Subset, FS_CardinalityType
<1>4. Upto(K, n) = K /\ Upto(K, 0) = {}
  <2>1. \A k \in K : k \in Nat /\ k <= n /\ ~(k <= 0)
    OBVIOUS
  <2> QED BY <2>1, Zenon DEF Upto
<1> QED BY <1>2, <1>3, <1>4, FS_EmptySet

\* The count grows by one at the indices of K and stays elsewhere.
LEMMA UptoNext ==
    ASSUME NEW n \in Nat, NEW K, K \subseteq 1 .. n, NEW i \in Nat, i > 0
    PROVE  Cardinality(Upto(K, i)) =
               Cardinality(Upto(K, i - 1)) + (IF i \in K THEN 1 ELSE 0)
<1>1. /\ i - 1 \in Nat /\ IsFiniteSet(Upto(K, i - 1))
      /\ Cardinality(Upto(K, i - 1)) \in Nat
  <2>1. i - 1 \in Nat
    OBVIOUS
  <2> QED BY <2>1, UptoFacts
<1>a. \A k \in K : (k <= i <=> k <= i - 1 \/ k = i)
  OBVIOUS
<1>b. ~(i <= i - 1)
  OBVIOUS
<1>2. CASE i \in K
  <2>1. Upto(K, i) = Upto(K, i - 1) \cup {i} /\ i \notin Upto(K, i - 1)
    BY <1>2, <1>a, <1>b, Zenon DEF Upto
  <2>2. Cardinality(Upto(K, i)) = Cardinality(Upto(K, i - 1)) + 1
    BY <1>1, <2>1, FS_AddElement
  <2> QED BY <1>2, <2>2
<1>3. CASE i \notin K
  <2>1. Upto(K, i) = Upto(K, i - 1)
    BY <1>3, <1>a, Zenon DEF Upto
  <2> QED BY <1>1, <1>3, <2>1
<1> QED BY <1>2, <1>3

\* There is an index with j indices up to it, for every j up to their number.
LEMMA NthFacts ==
    ASSUME NEW n \in Nat, NEW K, K \subseteq 1 .. n, NEW j \in 1 .. Cardinality(K)
    PROVE  Nth(K, j) \in K /\ Cardinality(Upto(K, Nth(K, j))) = j
<1> DEFINE card(i) == Cardinality(Upto(K, i))
           T == {i \in Nat : j <= card(i)}
<1>0. j \in Nat /\ 1 <= j /\ j <= Cardinality(K)
  BY UptoFacts
<1>a. /\ \A i \in Nat : card(i) \in Nat
      /\ card(0) = 0 /\ j <= card(n)
  <2>1. Upto(K, n) = K
    BY UptoFacts
  <2>2. j <= Cardinality(Upto(K, n))
    BY <2>1, <1>0
  <2>3. \A i \in Nat : Cardinality(Upto(K, i)) \in Nat
    BY UptoFacts
  <2>4. Cardinality(Upto(K, 0)) = 0
    BY UptoFacts
  <2> QED BY <2>2, <2>3, <2>4
<1>b. \A i \in Nat : i > 0 => card(i) = card(i - 1) + (IF i \in K THEN 1 ELSE 0)
  BY UptoNext
<1> HIDE DEF card
<1>1. n \in T
  BY <1>a
<1>2. PICK i \in T : \A y \in T : i <= y
  BY <1>1, Smallest
<1>3. i \in Nat /\ j <= card(i)
  BY <1>2
<1>4. i # 0
  BY <1>0, <1>a, <1>3
<1>5. i > 0 /\ i - 1 \in Nat /\ ~(i <= i - 1)
  BY <1>3, <1>4
<1>6. ~(j <= card(i - 1))
  BY <1>2, <1>5
<1>7. i \in K /\ card(i) = j
  BY <1>0, <1>a, <1>b, <1>3, <1>5, <1>6
<1>8. Nth(K, j) = CHOOSE k \in K : card(k) = j
  BY DEF Nth, Upto, card
<1>9. Nth(K, j) \in K /\ card(Nth(K, j)) = j
  BY <1>7, <1>8
<1> QED BY <1>9 DEF card

\* The subsequence has an element for every index, at the same place in the
\* order.
THEOREM SubsequenceFacts ==
    ASSUME NEW S, NEW s \in Seq(S), NEW K, K \subseteq DOMAIN s
    PROVE  /\ Subsequence(s, K) \in Seq(S)
           /\ Len(Subsequence(s, K)) <= Len(s)
           /\ \A j \in DOMAIN Subsequence(s, K) :
                 Nth(K, j) \in K /\ Subsequence(s, K)[j] = s[Nth(K, j)]
           /\ \A i, j \in DOMAIN Subsequence(s, K) : i < j => Nth(K, i) < Nth(K, j)
<1> DEFINE c == Cardinality(K)
           r == Subsequence(s, K)
<1>1. Len(s) \in Nat /\ DOMAIN s = 1 .. Len(s) /\ \A i \in DOMAIN s : s[i] \in S
  OBVIOUS
<1>2. c \in Nat /\ c <= Len(s)
  BY <1>1, UptoFacts
<1>3. \A j \in 1 .. c : Nth(K, j) \in K /\ Cardinality(Upto(K, Nth(K, j))) = j
  BY <1>1, NthFacts
<1> HIDE DEF c
<1>4. DOMAIN r = 1 .. c /\ \A j \in 1 .. c : r[j] = s[Nth(K, j)] /\ r[j] \in S
  BY <1>1, <1>3 DEF Subsequence, c
<1>5. r \in Seq(S) /\ Len(r) = c
  <2>1. r = [j \in 1 .. c |-> r[j]]
    BY <1>4 DEF Subsequence, c
  <2> HIDE DEF r
  <2>2. r \in [1 .. c -> S]
    BY <1>4, <2>1
  <2> QED BY <1>2, <2>2
<1>6. ASSUME NEW i \in 1 .. c, NEW j \in 1 .. c, i < j PROVE Nth(K, i) < Nth(K, j)
  <2>1. /\ Nth(K, i) \in Nat /\ Nth(K, j) \in Nat
        /\ Cardinality(Upto(K, Nth(K, i))) = i /\ Cardinality(Upto(K, Nth(K, j))) = j
    BY <1>1, <1>3
  <2>2. IsFiniteSet(Upto(K, Nth(K, i)))
    BY <1>1, <2>1, UptoFacts
  <2>3. CASE Nth(K, j) <= Nth(K, i)
    <3>1. Upto(K, Nth(K, j)) \subseteq Upto(K, Nth(K, i))
      BY <1>1, <2>1, <2>3 DEF Upto
    <3>2. j <= i
      BY <2>1, <2>2, <3>1, FS_Subset
    <3> QED BY <1>6, <3>2
  <2> QED BY <2>1, <2>3
<1> HIDE DEF r
<1>7. DOMAIN r = 1 .. c
  BY <1>4
<1>8. /\ r \in Seq(S) /\ Len(r) <= Len(s)
      /\ \A j \in DOMAIN r : Nth(K, j) \in K /\ r[j] = s[Nth(K, j)]
      /\ \A i, j \in DOMAIN r : i < j => Nth(K, i) < Nth(K, j)
  BY <1>2, <1>3, <1>4, <1>5, <1>6, <1>7
<1> QED BY <1>8 DEF r
=============================================================================
