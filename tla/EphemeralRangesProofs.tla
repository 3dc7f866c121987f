----------------------- MODULE EphemeralRangesProofs ------------------------
(***************************************************************************)
(* Proofs about the parallel loops over a finished ephemeral trie, for     *)
(* every set of keys, every branching, key length and grain size: however  *)
(* the scheduler splits and executes ranges, they share the work without   *)
(* gaps and overlaps.                                                      *)
(***************************************************************************)
EXTENDS EphemeralRanges, TriePrefixTheorems, FiniteSetTheorems

-----------------------------------------------------------------------------
(* Counting what comes before an element *)

Lower(R, S, x) == {y \in S : <<y, x>> \in R}

LinearOn(R, S) ==
    /\ \A x \in S : <<x, x>> \notin R
    /\ \A x, y, z \in S : <<x, y>> \in R /\ <<y, z>> \in R => <<x, z>> \in R
    /\ \A x, y \in S : x = y \/ <<x, y>> \in R \/ <<y, x>> \in R

\* In a finite linear order every position has exactly one element.
LEMMA Positions ==
    ASSUME NEW S, IsFiniteSet(S), NEW R, LinearOn(R, S)
    PROVE  /\ \A x \in S : Cardinality(Lower(R, S, x)) \in 0 .. Cardinality(S) - 1
           /\ \A x, y \in S : <<x, y>> \in R =>
                 Cardinality(Lower(R, S, x)) < Cardinality(Lower(R, S, y))
           /\ \A i \in 0 .. Cardinality(S) - 1 : \E x \in S : Cardinality(Lower(R, S, x)) = i
<1> DEFINE N == Cardinality(S)
           f == [x \in S |-> Cardinality(Lower(R, S, x))]
<1>1. N \in Nat
  BY FS_CardinalityType
<1>2. ASSUME NEW x \in S
      PROVE  /\ IsFiniteSet(Lower(R, S, x)) /\ Cardinality(Lower(R, S, x)) \in Nat
             /\ Cardinality(Lower(R, S, x)) < N
  <2>1. Lower(R, S, x) \in SUBSET (S \ {x})
    BY DEF Lower, LinearOn
  <2>2. IsFiniteSet(S \ {x}) /\ Cardinality(S \ {x}) = N - 1
    BY FS_RemoveElement
  <2>3. IsFiniteSet(Lower(R, S, x)) /\ Cardinality(Lower(R, S, x)) <= N - 1
    BY <2>1, <2>2, FS_Subset
  <2>4. Cardinality(Lower(R, S, x)) \in Nat
    BY <2>3, FS_CardinalityType
  <2> QED BY <2>3, <2>4, <1>1
<1>3. ASSUME NEW x \in S, NEW y \in S, <<x, y>> \in R
      PROVE  Cardinality(Lower(R, S, x)) < Cardinality(Lower(R, S, y))
  <2>1. Lower(R, S, x) \cup {x} \in SUBSET Lower(R, S, y) /\ x \notin Lower(R, S, x)
    BY <1>3 DEF Lower, LinearOn
  <2>2. Cardinality(Lower(R, S, x) \cup {x}) = Cardinality(Lower(R, S, x)) + 1
    BY <2>1, <1>2, FS_AddElement
  <2>3. Cardinality(Lower(R, S, x) \cup {x}) <= Cardinality(Lower(R, S, y))
    BY <2>1, <1>2, FS_Subset
  <2> QED BY <2>2, <2>3, <1>2
<1>4. f \in Injection(S, 0 .. N - 1)
  <2>1. f \in [S -> 0 .. N - 1]
    <3>1. \A x \in S : Cardinality(Lower(R, S, x)) \in 0 .. N - 1
      BY <1>1, <1>2
    <3> QED BY <3>1
  <2>2. ASSUME NEW x \in S, NEW y \in S, f[x] = f[y] PROVE x = y
    <3>1. Cardinality(Lower(R, S, x)) = Cardinality(Lower(R, S, y))
      BY <2>2
    <3>2. ~(<<x, y>> \in R) /\ ~(<<y, x>> \in R)
      BY <3>1, <1>2, <1>3
    <3> QED BY <3>2 DEF LinearOn
  <2> HIDE DEF f, N
  <2> QED BY <2>1, <2>2 DEF Injection, IsInjective
<1>5. IsFiniteSet(0 .. N - 1) /\ Cardinality(0 .. N - 1) = N
  <2>1. /\ IsFiniteSet(0 .. N - 1)
        /\ Cardinality(0 .. N - 1) = IF 0 > N - 1 THEN 0 ELSE (N - 1) - 0 + 1
    BY <1>1, FS_Interval
  <2> QED BY <2>1, <1>1
<1>6. f \in Surjection(S, 0 .. N - 1)
  BY <1>4, <1>5, FS_Injection
<1>7. ASSUME NEW i \in 0 .. N - 1 PROVE \E x \in S : Cardinality(Lower(R, S, x)) = i
  <2>1. PICK x \in S : f[x] = i
    BY <1>6 DEF Surjection
  <2> QED BY <2>1
<1>8. \A x \in S : Cardinality(Lower(R, S, x)) \in 0 .. N - 1
  BY <1>1, <1>2
<1> QED BY <1>3, <1>7, <1>8

\* Nth enumerates a finite set of digits in their order.
LEMMA NthFact ==
    ASSUME NEW D, IsFiniteSet(D)
    PROVE  (\A d \in D : d \in Nat) =>
           /\ \A i \in 1 .. Cardinality(D) : Nth(D, i) \in D
           /\ \A i, j \in 1 .. Cardinality(D) : i < j => Nth(D, i) < Nth(D, j)
           /\ \A d \in D : \E i \in 1 .. Cardinality(D) : Nth(D, i) = d
<1> DEFINE R == {p \in D \X D : p[1] < p[2]}
           C(x) == Cardinality({d \in D : d < x})
<1>3. \A x, y \in D : <<x, y>> \in R <=> x < y
  OBVIOUS
<1> HIDE DEF R
<1>0. SUFFICES ASSUME \A d \in D : d \in Nat
               PROVE  /\ \A i \in 1 .. Cardinality(D) : Nth(D, i) \in D
                      /\ \A i, j \in 1 .. Cardinality(D) : i < j => Nth(D, i) < Nth(D, j)
                      /\ \A d \in D : \E i \in 1 .. Cardinality(D) : Nth(D, i) = d
  OBVIOUS
<1>1. LinearOn(R, D)
  BY <1>0, <1>3 DEF LinearOn
<1>2. \A x \in D : Lower(R, D, x) = {d \in D : d < x}
  BY <1>3 DEF Lower
<1>4. Cardinality(D) \in Nat
  BY FS_CardinalityType
<1>6. \A i : Nth(D, i) = CHOOSE b \in D : C(b) = i - 1
  BY DEF Nth
<1>10. \A x \in D : Cardinality(Lower(R, D, x)) = C(x)
  BY <1>2
<1> HIDE DEF C
<1>11. /\ \A x \in D : Cardinality(Lower(R, D, x)) \in 0 .. Cardinality(D) - 1
       /\ \A x, y \in D : <<x, y>> \in R =>
             Cardinality(Lower(R, D, x)) < Cardinality(Lower(R, D, y))
       /\ \A i \in 0 .. Cardinality(D) - 1 : \E x \in D : Cardinality(Lower(R, D, x)) = i
  BY <1>1, Positions
<1>12. ASSUME NEW x \in D PROVE C(x) \in 0 .. Cardinality(D) - 1
  <2>1. Cardinality(Lower(R, D, x)) = C(x)
    BY <1>10, Zenon
  <2>2. Cardinality(Lower(R, D, x)) \in 0 .. Cardinality(D) - 1
    BY <1>11, Zenon
  <2> QED BY <2>1, <2>2, Zenon
<1>13. ASSUME NEW x \in D, NEW y \in D, x < y PROVE C(x) < C(y)
  <2>1. Cardinality(Lower(R, D, x)) = C(x) /\ Cardinality(Lower(R, D, y)) = C(y)
    BY <1>10, Zenon
  <2>2. Cardinality(Lower(R, D, x)) < Cardinality(Lower(R, D, y))
    BY <1>3, <1>11, <1>13, Zenon
  <2> QED BY <2>1, <2>2, Zenon
<1>14. ASSUME NEW i \in 0 .. Cardinality(D) - 1 PROVE \E x \in D : C(x) = i
  BY <1>10, <1>11, Zenon
<1>5. /\ \A x \in D : C(x) \in 0 .. Cardinality(D) - 1
      /\ \A x, y \in D : x < y => C(x) < C(y)
      /\ \A i \in 0 .. Cardinality(D) - 1 : \E x \in D : C(x) = i
  BY <1>12, <1>13, <1>14, Zenon
<1>7. ASSUME NEW i \in 1 .. Cardinality(D) PROVE Nth(D, i) \in D /\ C(Nth(D, i)) = i - 1
  <2>1. i - 1 \in 0 .. Cardinality(D) - 1
    BY <1>4
  <2>2. \E b \in D : C(b) = i - 1
    BY <2>1, <1>5
  <2> QED BY <2>2, <1>6
<1>8. ASSUME NEW i \in 1 .. Cardinality(D), NEW j \in 1 .. Cardinality(D), i < j
      PROVE  Nth(D, i) < Nth(D, j)
  <2>3. Nth(D, i) \in D /\ Nth(D, j) \in D /\ C(Nth(D, i)) = i - 1 /\ C(Nth(D, j)) = j - 1
    BY <1>7, Zenon
  <2>1. PICK a, b : a = Nth(D, i) /\ b = Nth(D, j)
    OBVIOUS
  <2>2. a \in D /\ b \in D /\ C(a) = i - 1 /\ C(b) = j - 1
    BY <2>1, <2>3, Zenon
  <2>4. a \in Nat /\ b \in Nat
    BY <2>2, <1>0, Zenon
  <2>5. C(a) < C(b)
    <3>1. i - 1 < j - 1
      BY <1>8, <1>4
    <3> QED BY <3>1, <2>2, Zenon
  <2>6. ~(C(b) < C(a)) /\ C(a) # C(b)
    BY <2>2, <1>4, <1>8
  <2>7. ~(b < a) /\ a # b
    BY <2>2, <2>6, <1>5, Zenon
  <2>8. a < b
    BY <2>4, <2>7
  <2> QED BY <2>1, <2>8, Zenon
<1>9. ASSUME NEW d \in D PROVE \E i \in 1 .. Cardinality(D) : Nth(D, i) = d
  <2>1. C(d) + 1 \in 1 .. Cardinality(D)
    BY <1>4, <1>5
  <2>2. Nth(D, C(d) + 1) \in D /\ C(Nth(D, C(d) + 1)) = C(d)
    BY <2>1, <1>7, <1>5
  <2>3. Nth(D, C(d) + 1) = d
    <3>1. PICK e : e = Nth(D, C(d) + 1)
      OBVIOUS
    <3>2. e \in D /\ C(e) = C(d) /\ C(d) \in Nat
      BY <3>1, <2>2, <1>5
    <3>3. ~(e < d) /\ ~(d < e)
      BY <3>2, <1>5
    <3>4. e \in Nat /\ d \in Nat
      BY <3>2, <1>0
    <3> QED BY <3>1, <3>3, <3>4
  <2> QED BY <2>1, <2>3
<1> QED BY <1>7, <1>8, <1>9

-----------------------------------------------------------------------------
(* The order of the keys *)

LEMMA DigitIsNat ==
    ASSUME NEW k \in Key, NEW i \in 1 .. KeyLen
    PROVE  k[i] \in Nat /\ k[i] \in Branch
BY BranchAssumption DEF Key

LEMMA LexTotal ==
    ASSUME NEW j \in Key, NEW k \in Key, j # k
    PROVE  LexBefore(j, k) \/ LexBefore(k, j)
<1> DEFINE d == FirstDifference(j, k)
<1>1. d \in PrefixLen /\ (\A i \in 1 .. d : j[i] = k[i]) /\ (d < KeyLen => j[d + 1] # k[d + 1])
  BY FirstDifferenceFact
<1> HIDE DEF d
<1>2. d < KeyLen
  <2> SUFFICES ASSUME ~(d < KeyLen) PROVE FALSE
    OBVIOUS
  <2>1. d = KeyLen
    BY <1>1, KeyLenAssumption DEF PrefixLen
  <2>2. j = [i \in 1 .. KeyLen |-> j[i]] /\ k = [i \in 1 .. KeyLen |-> k[i]]
    BY Zenon DEF Key
  <2> QED BY <2>1, <2>2, <1>1
<1>3. d + 1 \in 1 .. KeyLen /\ \A h \in 1 .. (d + 1) - 1 : j[h] = k[h]
  BY <1>1, <1>2, KeyLenAssumption DEF PrefixLen
<1>4. j[d + 1] \in Nat /\ k[d + 1] \in Nat
  BY <1>3, DigitIsNat
<1>5. CASE j[d + 1] < k[d + 1]
  BY <1>3, <1>5 DEF LexBefore
<1>6. CASE k[d + 1] < j[d + 1]
  BY <1>3, <1>6 DEF LexBefore
<1> QED BY <1>1, <1>2, <1>4, <1>5, <1>6

LEMMA LexIrreflexive ==
    ASSUME NEW k \in Key
    PROVE  ~LexBefore(k, k)
<1> SUFFICES ASSUME NEW i \in 1 .. KeyLen, k[i] < k[i] PROVE FALSE
  BY DEF LexBefore
<1> QED BY DigitIsNat

LEMMA LexTransitive ==
    ASSUME NEW j \in Key, NEW k \in Key, NEW m \in Key, LexBefore(j, k), LexBefore(k, m)
    PROVE  LexBefore(j, m)
<1>1. PICK a \in 1 .. KeyLen : j[a] < k[a] /\ \A h \in 1 .. a - 1 : j[h] = k[h]
  BY DEF LexBefore
<1>2. PICK b \in 1 .. KeyLen : k[b] < m[b] /\ \A h \in 1 .. b - 1 : k[h] = m[h]
  BY DEF LexBefore
<1>3. a \in Nat /\ b \in Nat /\ j[a] \in Nat /\ k[a] \in Nat /\ m[a] \in Nat
      /\ j[b] \in Nat /\ k[b] \in Nat /\ m[b] \in Nat
  BY DigitIsNat, KeyLenAssumption
<1>4. CASE a = b
  <2>1. j[a] < m[a] /\ \A h \in 1 .. a - 1 : j[h] = m[h]
    BY <1>1, <1>2, <1>3, <1>4
  <2> QED BY <2>1 DEF LexBefore
<1>5. CASE a < b
  <2>1. a \in 1 .. b - 1 /\ \A h \in 1 .. a - 1 : h \in 1 .. b - 1
    BY <1>3, <1>5
  <2>2. j[a] < m[a] /\ \A h \in 1 .. a - 1 : j[h] = m[h]
    BY <1>1, <1>2, <2>1
  <2> QED BY <2>2 DEF LexBefore
<1>6. CASE b < a
  <2>1. b \in 1 .. a - 1 /\ \A h \in 1 .. b - 1 : h \in 1 .. a - 1
    BY <1>3, <1>6
  <2>2. j[b] < m[b] /\ \A h \in 1 .. b - 1 : j[h] = m[h]
    BY <1>1, <1>2, <2>1
  <2> QED BY <2>2 DEF LexBefore
<1> QED BY <1>3, <1>4, <1>5, <1>6

LEMMA LexAsymmetric ==
    ASSUME NEW j \in Key, NEW k \in Key, LexBefore(j, k)
    PROVE  ~LexBefore(k, j) /\ j # k
BY LexTransitive, LexIrreflexive

\* Every position in the order of a finite set of keys has one key.
LEMMA RankFact ==
    ASSUME NEW S \in SUBSET Key, IsFiniteSet(S)
    PROVE  /\ \A x \in S : Rank(S, x) \in 0 .. Cardinality(S) - 1
           /\ \A x, y \in S : LexBefore(x, y) => Rank(S, x) < Rank(S, y)
           /\ \A i \in 0 .. Cardinality(S) - 1 : \E x \in S : Rank(S, x) = i
<1> DEFINE R == {p \in S \X S : LexBefore(p[1], p[2])}
<1>1. \A x, y \in S : <<x, y>> \in R <=> LexBefore(x, y)
  OBVIOUS
<1> HIDE DEF R
<1>2. LinearOn(R, S)
  <2>1. \A x \in S : x \in Key
    OBVIOUS
  <2>2. \A x \in S : <<x, x>> \notin R
    BY <1>1, <2>1, LexIrreflexive
  <2>3. \A x, y, z \in S : <<x, y>> \in R /\ <<y, z>> \in R => <<x, z>> \in R
    BY <1>1, <2>1, LexTransitive
  <2>4. \A x, y \in S : x = y \/ <<x, y>> \in R \/ <<y, x>> \in R
    BY <1>1, <2>1, LexTotal
  <2> QED BY <2>2, <2>3, <2>4 DEF LinearOn
<1>3. \A x \in S : Lower(R, S, x) = Before(S, x)
  BY <1>1 DEF Lower, Before
<1>4. /\ \A x \in S : Cardinality(Lower(R, S, x)) \in 0 .. Cardinality(S) - 1
      /\ \A x, y \in S : <<x, y>> \in R =>
            Cardinality(Lower(R, S, x)) < Cardinality(Lower(R, S, y))
      /\ \A i \in 0 .. Cardinality(S) - 1 : \E x \in S : Cardinality(Lower(R, S, x)) = i
  BY <1>2, Positions
<1>5. \A x \in S : Cardinality(Lower(R, S, x)) = Rank(S, x)
  BY <1>3 DEF Rank
<1> QED BY <1>1, <1>4, <1>5

\* Keys of the same rank are the same.
LEMMA RankInjective ==
    ASSUME NEW S \in SUBSET Key, IsFiniteSet(S), NEW x \in S, NEW y \in S, Rank(S, x) = Rank(S, y)
    PROVE  x = y
<1>1. Rank(S, x) \in Nat /\ ~LexBefore(x, y) /\ ~LexBefore(y, x)
  BY RankFact
<1> QED BY <1>1, LexTotal

\* Where all of A comes before all of B.
LEMMA RankSplit ==
    ASSUME NEW A \in SUBSET Key, NEW B \in SUBSET Key, IsFiniteSet(A), IsFiniteSet(B),
           \A x \in A, y \in B : LexBefore(x, y)
    PROVE  /\ A \cap B = {} /\ IsFiniteSet(A \cup B)
           /\ Cardinality(A \cup B) = Cardinality(A) + Cardinality(B)
           /\ \A x \in A : Rank(A \cup B, x) = Rank(A, x)
           /\ \A y \in B : Rank(A \cup B, y) = Cardinality(A) + Rank(B, y)
<1>1. A \cap B = {}
  BY LexIrreflexive
<1>2. IsFiniteSet(A \cup B) /\ Cardinality(A \cup B) = Cardinality(A) + Cardinality(B)
  <2>1. /\ IsFiniteSet(A \cup B)
        /\ Cardinality(A \cup B) = Cardinality(A) + Cardinality(B) - Cardinality(A \cap B)
    BY FS_Union
  <2>2. Cardinality(A) \in Nat /\ Cardinality(B) \in Nat /\ Cardinality(A \cap B) = 0
    BY <1>1, FS_CardinalityType, FS_EmptySet
  <2> QED BY <2>1, <2>2
<1>3. ASSUME NEW x \in A PROVE Rank(A \cup B, x) = Rank(A, x)
  <2>1. \A y \in B : ~LexBefore(y, x)
    BY LexAsymmetric
  <2>2. Before(A \cup B, x) = Before(A, x)
    BY <2>1 DEF Before
  <2> QED BY <2>2 DEF Rank
<1>4. ASSUME NEW y \in B PROVE Rank(A \cup B, y) = Cardinality(A) + Rank(B, y)
  <2>1. Before(A \cup B, y) = A \cup Before(B, y) /\ A \cap Before(B, y) = {}
    BY <1>1 DEF Before
  <2>2. IsFiniteSet(Before(B, y))
    <3>1. Before(B, y) \in SUBSET B
      BY DEF Before
    <3> QED BY <3>1, FS_Subset
  <2>3. Cardinality(A \cup Before(B, y))
        = Cardinality(A) + Cardinality(Before(B, y)) - Cardinality(A \cap Before(B, y))
    BY <2>2, FS_Union
  <2>4. Cardinality(A) \in Nat /\ Cardinality(Before(B, y)) \in Nat
        /\ Cardinality(A \cap Before(B, y)) = 0
    BY <2>1, <2>2, FS_CardinalityType, FS_EmptySet
  <2>5. Cardinality(A \cup Before(B, y)) = Cardinality(A) + Cardinality(Before(B, y))
    BY <2>3, <2>4
  <2>6. Rank(B, y) = Cardinality(Before(B, y)) /\ Rank(A \cup B, y) = Cardinality(Before(A \cup B, y))
    BY DEF Rank
  <2> QED BY <2>1, <2>5, <2>6
<1> QED BY <1>1, <1>2, <1>3, <1>4

-----------------------------------------------------------------------------
(* The children of a node *)

NodeSet(K) == [keys : SUBSET K, len : PrefixLen]

\* The first l digits of the keys of K are the same.
Common(K, l) == \A x, y \in K : \A i \in 1 .. l : x[i] = y[i]

\* The nodes of a work list are in the order of their keys.
InOrder(w) == \A i, j \in DOMAIN w : i < j => \A x \in w[i].keys, y \in w[j].keys : LexBefore(x, y)

LEMMA NodeFact ==
    ASSUME NEW K \in SUBSET Key, K # {}
    PROVE  Node(K) \in NodeSet(K) /\ Node(K).keys = K /\ Node(K).len = SharedLen(K)
           /\ Shares(K, SharedLen(K))
BY SharedLenFact DEF Node, NodeSet, Shares

\* The children of a node that is not a leaf have its keys, in order.
LEMMA ChildrenFact ==
    ASSUME NEW n, NEW K \in SUBSET Key, IsFiniteSet(K), NEW l \in PrefixLen, l < KeyLen,
           n = [keys |-> K, len |-> l], Common(K, l)
    PROVE  /\ Children(n) \in Seq(NodeSet(K))
           /\ \A i \in DOMAIN Children(n) :
                 /\ Children(n)[i] = Node(Children(n)[i].keys)
                 /\ Children(n)[i].keys # {}
           /\ InOrder(Children(n))
           /\ KeysOf(Children(n)) = K
           /\ Shares(K, l) => Len(Children(n)) >= 2
           /\ l < MaxSplitLen => ListApart(Children(n))
<1> DEFINE D == Digits(n)
           N == Cardinality(D)
           T(i) == Towards(K, l, Nth(D, i))
           w == Children(n)
<1>1. n.keys = K /\ n.len = l /\ l \in Nat /\ KeyLen \in Nat /\ l + 1 \in 1 .. KeyLen /\ l # KeyLen
  BY KeyLenAssumption DEF PrefixLen
<1>2. \A b : b \in D <=> b \in Branch /\ Towards(K, l, b) # {}
  BY <1>1 DEF Digits
<1>3. \A k \in K : k[l + 1] \in D
  <2> SUFFICES ASSUME NEW k \in K PROVE k[l + 1] \in D
    OBVIOUS
  <2>1. k[l + 1] \in Branch
    BY <1>1, DigitIsNat
  <2>2. k \in Towards(K, l, k[l + 1])
    BY DEF Towards
  <2> QED BY <1>2, <2>1, <2>2
<1>4. IsFiniteSet(D)
  <2> DEFINE f == [k \in K |-> k[l + 1]]
  <2>1. IsFiniteSet({f[k] : k \in K})
    <3>1. f \in Surjection(K, {f[k] : k \in K})
      BY DEF Surjection
    <3> HIDE DEF f
    <3> QED BY <3>1, FS_Surjection
  <2>2. D \in SUBSET {f[k] : k \in K}
    BY <1>2 DEF Towards
  <2> HIDE DEF D, f
  <2> QED BY <2>1, <2>2, FS_Subset
<1>5. \A b \in D : b \in Nat
  BY <1>2, BranchAssumption
<1> HIDE DEF D
<1>6. /\ \A i \in 1 .. N : Nth(D, i) \in D
      /\ \A i, j \in 1 .. N : i < j => Nth(D, i) < Nth(D, j)
      /\ \A d \in D : \E i \in 1 .. N : Nth(D, i) = d
  BY <1>4, <1>5, NthFact
<1>7. N \in Nat
  BY <1>4, FS_CardinalityType
<1> HIDE DEF N
<1>8. w = [i \in 1 .. N |-> Node(T(i))]
  BY <1>1 DEF Children, D, N
<1>9. ASSUME NEW i \in 1 .. N
      PROVE  /\ T(i) \in SUBSET K /\ T(i) # {} /\ \A k \in T(i) : k[l + 1] = Nth(D, i)
             /\ Node(T(i)) \in NodeSet(K) /\ Node(T(i)).keys = T(i)
  <2>1. T(i) \in SUBSET K /\ T(i) # {} /\ \A k \in T(i) : k[l + 1] = Nth(D, i)
    BY <1>2, <1>6 DEF Towards
  <2>2. T(i) \in SUBSET Key
    BY <2>1
  <2> HIDE DEF T
  <2>3. Node(T(i)) \in NodeSet(T(i)) /\ Node(T(i)).keys = T(i)
    BY <2>1, <2>2, NodeFact
  <2>4. NodeSet(T(i)) \subseteq NodeSet(K)
    BY <2>1 DEF NodeSet
  <2> QED BY <2>1, <2>3, <2>4
<1>10. w \in Seq(NodeSet(K)) /\ DOMAIN w = 1 .. N /\ Len(w) = N
  <2> HIDE DEF T
  <2> QED BY <1>7, <1>8, <1>9
<1>11. \A i \in 1 .. N : w[i] = Node(T(i)) /\ w[i].keys = T(i) /\ w[i].keys # {}
  <2> HIDE DEF T
  <2> QED BY <1>8, <1>9
<1>12. \A i \in 1 .. N : \A k \in w[i].keys : k \in K /\ k[l + 1] = Nth(D, i)
  BY <1>9, <1>11
<1>13. \A k \in K : \E i \in 1 .. N : k \in w[i].keys
  <2> SUFFICES ASSUME NEW k \in K PROVE \E i \in 1 .. N : k \in w[i].keys
    OBVIOUS
  <2>1. PICK i \in 1 .. N : Nth(D, i) = k[l + 1]
    BY <1>3, <1>6
  <2>2. k \in T(i)
    BY <2>1 DEF Towards
  <2> QED BY <2>2, <1>11
<1> HIDE DEF w, T
<1>14. InOrder(w)
  <2> SUFFICES ASSUME NEW i \in 1 .. N, NEW j \in 1 .. N, i < j,
                      NEW x \in w[i].keys, NEW y \in w[j].keys
               PROVE  LexBefore(x, y)
    BY <1>10 DEF InOrder
  <2>1. x[l + 1] < y[l + 1] /\ x \in K /\ y \in K
    BY <1>6, <1>12
  <2>2. (l + 1) - 1 = l
    BY <1>1
  <2>3. \A h \in 1 .. (l + 1) - 1 : x[h] = y[h]
    BY <2>1, <2>2 DEF Common
  <2> QED BY <1>1, <2>1, <2>3 DEF LexBefore
<1>15. KeysOf(w) = K
  BY <1>10, <1>12, <1>13 DEF KeysOf
<1>16. Shares(K, l) => Len(w) >= 2
  <2> SUFFICES ASSUME Shares(K, l) PROVE N >= 2
    BY <1>10
  <2>1. PICK x \in K, y \in K : x[l + 1] # y[l + 1]
    BY DEF Shares
  <2>2. PICK i \in 1 .. N, j \in 1 .. N : x \in w[i].keys /\ y \in w[j].keys
    BY <1>13
  <2>3. i # j
    BY <2>1, <2>2, <1>12
  <2> QED BY <2>3, <1>7
<1>17. l < MaxSplitLen => ListApart(w)
  <2> SUFFICES ASSUME l < MaxSplitLen, NEW i \in 1 .. N, NEW j \in 1 .. N, i # j,
                      NEW x \in w[i].keys, NEW y \in w[j].keys,
                      Truncate(x, MaxSplitLen) = Truncate(y, MaxSplitLen)
               PROVE  FALSE
    BY <1>10 DEF ListApart, Apart
  <2>1. Nth(D, i) # Nth(D, j)
    BY <1>5, <1>6, <1>7
  <2>2. x[l + 1] # y[l + 1]
    BY <2>1, <1>12
  <2>3. l + 1 <= MaxSplitLen
    BY <1>1, SplitAssumption DEF PrefixLen
  <2>4. Truncate(x, MaxSplitLen)[l + 1] = x[l + 1] /\ Truncate(y, MaxSplitLen)[l + 1] = y[l + 1]
    BY <2>3, <1>1 DEF Truncate
  <2> QED BY <2>2, <2>4
<1> QED BY <1>9, <1>10, <1>11, <1>14, <1>15, <1>16, <1>17 DEF w

-----------------------------------------------------------------------------
(* The places that the worker of accumulate computes *)

LEMMA RankLeaf ==
    ASSUME NEW S \in SUBSET Key, NEW k \in S, SharedLen(S) = KeyLen
    PROVE  Rank(S, k) = 0
<1>1. Shares(S, KeyLen)
  BY SharedLenFact
<1>2. \A j \in S : j = k
  <2> SUFFICES ASSUME NEW j \in S PROVE j = k
    OBVIOUS
  <2>1. IsPrefixOf(j, KeyLen, k, KeyLen)
    BY <1>1, KeyLenAssumption DEF IsPrefixOf, Shares
  <2> QED BY <2>1, FullPrefix
<1>3. Before(S, k) = {}
  BY <1>2, LexIrreflexive DEF Before
<1> QED BY <1>3, FS_EmptySet DEF Rank

\* The keys before k: those with a smaller digit next, and those with its digit.
LEMMA RankStep ==
    ASSUME NEW S \in SUBSET Key, IsFiniteSet(S), NEW k \in S, NEW l, l = SharedLen(S), l # KeyLen
    PROVE  /\ Towards(S, l, k[l + 1]) \in SUBSET S /\ k \in Towards(S, l, k[l + 1])
           /\ l \in PrefixLen /\ l < KeyLen /\ l < SharedLen(Towards(S, l, k[l + 1]))
           /\ Rank(S, k) = Cardinality(Passed(S, l, k)) + Rank(Towards(S, l, k[l + 1]), k)
<1> DEFINE T == Towards(S, l, k[l + 1])
           P == Passed(S, l, k)
           B == Before(T, k)
<1>1. Shares(S, l)
  BY SharedLenFact
<1>2. l \in PrefixLen /\ l < KeyLen /\ l \in Nat /\ l + 1 \in 1 .. KeyLen /\ KeyLen \in Nat
  BY <1>1, KeyLenAssumption DEF Shares, PrefixLen
<1>3. T \in SUBSET S /\ k \in T /\ l < SharedLen(T)
  <2>1. k \in T
    BY DEF Towards
  <2> QED BY <2>1, <1>1, <1>2, TowardsFact
<1>4. \A j \in S : j[l + 1] \in Nat
  BY <1>2, DigitIsNat
<1>5. ASSUME NEW j \in S PROVE LexBefore(j, k) <=> j \in P \/ j \in B
  <2>1. ASSUME j \in P PROVE LexBefore(j, k)
    <3>1. j[l + 1] < k[l + 1] /\ \A h \in 1 .. (l + 1) - 1 : j[h] = k[h]
      BY <2>1, <1>1, <1>2 DEF Passed, Shares
    <3> QED BY <3>1, <1>2 DEF LexBefore
  <2>2. ASSUME LexBefore(j, k), j \notin P PROVE j \in T
    <3>1. PICK i \in 1 .. KeyLen : j[i] < k[i] /\ \A h \in 1 .. i - 1 : j[h] = k[h]
      BY <2>2 DEF LexBefore
    <3>2. j[i] \in Nat /\ k[i] \in Nat
      BY DigitIsNat
    <3>3. ~(i \in 1 .. l)
      BY <3>1, <3>2, <1>1 DEF Shares
    <3>4. i # l + 1
      BY <3>1, <2>2 DEF Passed
    <3>5. l + 1 \in 1 .. i - 1
      BY <3>3, <3>4, <1>2
    <3> QED BY <3>1, <3>5 DEF Towards
  <2> QED BY <2>1, <2>2, <1>3 DEF Before
<1>6. Before(S, k) = P \cup B /\ P \cap B = {}
  <2>1. P \in SUBSET S /\ B \in SUBSET S
    BY <1>3 DEF Passed, Before
  <2>2. P \cap B = {}
    BY <1>4 DEF Passed, Before, Towards
  <2> QED BY <1>5, <2>1, <2>2 DEF Before
<1>7. IsFiniteSet(P) /\ IsFiniteSet(B)
  <2>1. P \in SUBSET S /\ B \in SUBSET S
    BY <1>3 DEF Passed, Before
  <2> QED BY <2>1, FS_Subset
<1> HIDE DEF P, B, T
<1>8. Cardinality(P \cup B) = Cardinality(P) + Cardinality(B) - Cardinality(P \cap B)
  BY <1>7, FS_Union
<1>9. Cardinality(P) \in Nat /\ Cardinality(B) \in Nat /\ Cardinality(P \cap B) = 0
  BY <1>6, <1>7, FS_CardinalityType, FS_EmptySet
<1>10. Rank(S, k) = Cardinality(P) + Cardinality(B)
  BY <1>6, <1>8, <1>9 DEF Rank
<1> QED BY <1>2, <1>3, <1>10 DEF Rank, P, B, T

PlaceFrom(f, S, k) ==
    LET l == SharedLen(S)
    IN  IF l = KeyLen THEN 0
        ELSE Cardinality(Passed(S, l, k)) + f[Towards(S, l, k[l + 1])]

\* The worker puts a key as far after its node's place as its rank says.
LEMMA PlaceFact ==
    ASSUME NEW n, NEW K \in SUBSET Key, n.keys = K, IsFiniteSet(K), NEW k \in K
    PROVE  Place(n, k) = Rank(K, k)
<1> DEFINE D == {T \in SUBSET K : k \in T}
           R(f) == f = [S \in D |-> PlaceFrom(f, S, k)]
<1>1. ASSUME NEW S \in D
      PROVE  S \in SUBSET Key /\ IsFiniteSet(S) /\ k \in S /\ SharedLen(S) \in PrefixLen
  <2>1. S \in SUBSET Key /\ IsFiniteSet(S) /\ k \in S
    BY FS_Subset
  <2>2. Shares(S, SharedLen(S))
    BY <2>1, SharedLenFact
  <2> QED BY <2>1, <2>2 DEF Shares
<1>2. ASSUME NEW S \in D, NEW f,
             SharedLen(S) # KeyLen =>
                f[Towards(S, SharedLen(S), k[SharedLen(S) + 1])]
                = Rank(Towards(S, SharedLen(S), k[SharedLen(S) + 1]), k)
      PROVE  PlaceFrom(f, S, k) = Rank(S, k)
  <2>1. S \in SUBSET Key /\ IsFiniteSet(S) /\ k \in S
    BY <1>1
  <2>2. CASE SharedLen(S) = KeyLen
    BY <2>1, <2>2, RankLeaf DEF PlaceFrom
  <2>3. CASE SharedLen(S) # KeyLen
    BY <1>2, <2>1, <2>3, RankStep DEF PlaceFrom
  <2> QED BY <2>2, <2>3
<1>3. ASSUME NEW S \in D, SharedLen(S) # KeyLen
      PROVE  Towards(S, SharedLen(S), k[SharedLen(S) + 1]) \in D
             /\ SharedLen(S) < SharedLen(Towards(S, SharedLen(S), k[SharedLen(S) + 1]))
  <2>1. S \in SUBSET Key /\ IsFiniteSet(S) /\ k \in S
    BY <1>1
  <2> QED BY <1>3, <2>1, RankStep
<1> HIDE DEF D
<1>4. \E f : R(f)
  <2> DEFINE g == [S \in D |-> Rank(S, k)]
  <2>1. \A S \in D : g[S] = Rank(S, k)
    OBVIOUS
  <2> HIDE DEF g
  <2>2. \A S \in D : PlaceFrom(g, S, k) = Rank(S, k)
    BY <2>1, <1>2, <1>3
  <2>3. g = [S \in D |-> PlaceFrom(g, S, k)]
    <3>1. g = [S \in D |-> Rank(S, k)]
      BY DEF g
    <3> QED BY <3>1, <2>2
  <2> QED BY <2>3
<1>5. PICK f : f = (CHOOSE h : R(h)) /\ R(f)
  BY <1>4
<1>6. Place(n, k) = f[K]
  BY <1>5 DEF Place, PlaceFrom, D
<1>7. \A S \in D : f[S] = PlaceFrom(f, S, k)
  <2>1. f = [S \in D |-> PlaceFrom(f, S, k)]
    BY <1>5
  <2> QED BY <2>1
<1> DEFINE G == {h \in 0 .. KeyLen : \A S \in D : SharedLen(S) >= KeyLen - h => f[S] = Rank(S, k)}
<1>8. KeyLen \in Nat /\ 0 \in Nat /\ 0 \in 0 .. KeyLen /\ KeyLen \in 0 .. KeyLen
  BY KeyLenAssumption
<1>9. 0 \in G
  <2>1. ASSUME NEW S \in D, SharedLen(S) >= KeyLen - 0 PROVE f[S] = Rank(S, k)
    <3>1. SharedLen(S) = KeyLen
      BY <2>1, <1>1, <1>8 DEF PrefixLen
    <3> QED BY <3>1, <1>2, <1>7
  <2> QED BY <2>1, <1>8
<1>10. ASSUME NEW h \in 0 .. KeyLen, h + 1 <= KeyLen, h \in G PROVE h + 1 \in G
  <2>1. ASSUME NEW S \in D, SharedLen(S) >= KeyLen - (h + 1) PROVE f[S] = Rank(S, k)
    <3>1. ASSUME SharedLen(S) # KeyLen
          PROVE  f[Towards(S, SharedLen(S), k[SharedLen(S) + 1])]
                 = Rank(Towards(S, SharedLen(S), k[SharedLen(S) + 1]), k)
      <4>1. PICK T : T = Towards(S, SharedLen(S), k[SharedLen(S) + 1])
        OBVIOUS
      <4>2. T \in D /\ SharedLen(S) < SharedLen(T)
        BY <3>1, <4>1, <1>3
      <4>3. SharedLen(S) \in Nat /\ SharedLen(T) \in Nat
        BY <4>2, <1>1 DEF PrefixLen
      <4>4. SharedLen(T) >= KeyLen - h
        BY <4>2, <4>3, <2>1, <1>8
      <4>5. f[T] = Rank(T, k)
        BY <4>2, <4>4, <1>10
      <4> QED BY <4>1, <4>5
    <3> QED BY <3>1, <1>2, <1>7
  <2>2. h + 1 \in 0 .. KeyLen
    BY <1>8, <1>10
  <2> QED BY <2>1, <2>2
<1>11. KeyLen \in G
  <2> HIDE DEF G
  <2> QED BY <1>8, <1>9, <1>10, RangeInduction
<1>12. K \in D
  BY DEF D
<1>13. SharedLen(K) >= KeyLen - KeyLen
  BY <1>1, <1>8, <1>12 DEF PrefixLen
<1> QED BY <1>6, <1>11, <1>12, <1>13

\* The keys of a part of a work list.
Part(w, a, b) == UNION {w[i].keys : i \in a .. b}

LEMMA PartFacts ==
    ASSUME NEW K \in SUBSET Key, IsFiniteSet(K), NEW w \in Seq(NodeSet(K)), InOrder(w)
    PROVE  /\ \A i \in DOMAIN w : w[i].keys \in SUBSET K /\ IsFiniteSet(w[i].keys) /\ Size(w[i]) \in Nat
           /\ \A a, b \in Nat : b <= Len(w) /\ a >= 1 =>
                 Part(w, a, b) \in SUBSET K /\ IsFiniteSet(Part(w, a, b))
           /\ KeysOf(w) = Part(w, 1, Len(w))
<1>1. Len(w) \in Nat /\ DOMAIN w = 1 .. Len(w)
  OBVIOUS
<1>2. \A i \in DOMAIN w : w[i].keys \in SUBSET K
  <2>1. \A i \in DOMAIN w : w[i] \in NodeSet(K)
    BY <1>1
  <2>2. \A n \in NodeSet(K) : n.keys \in SUBSET K
    BY DEF NodeSet
  <2> QED BY <2>1, <2>2
<1>3. \A i \in DOMAIN w : IsFiniteSet(w[i].keys) /\ Size(w[i]) \in Nat
  BY <1>2, FS_Subset, FS_CardinalityType DEF Size
<1>4. ASSUME NEW a \in Nat, NEW b \in Nat, b <= Len(w), a >= 1
      PROVE  Part(w, a, b) \in SUBSET K /\ IsFiniteSet(Part(w, a, b))
  <2>1. \A i \in a .. b : i \in DOMAIN w
    BY <1>1, <1>4
  <2>2. Part(w, a, b) \in SUBSET K
    BY <2>1, <1>2 DEF Part
  <2> QED BY <2>2, FS_Subset
<1>5. KeysOf(w) = Part(w, 1, Len(w))
  BY <1>1 DEF KeysOf, Part
<1> QED BY <1>2, <1>3, <1>4, <1>5

\* Where a work list is cut, the keys on the left come before those on the right.
LEMMA PartSplit ==
    ASSUME NEW K \in SUBSET Key, IsFiniteSet(K), NEW w \in Seq(NodeSet(K)), InOrder(w),
           NEW a \in Nat, NEW m \in Nat, NEW b \in Nat, a >= 1, a <= m + 1, m <= b, b <= Len(w)
    PROVE  /\ Part(w, a, b) = Part(w, a, m) \cup Part(w, m + 1, b)
           /\ Part(w, a, m) \cap Part(w, m + 1, b) = {}
           /\ Cardinality(Part(w, a, b)) = Cardinality(Part(w, a, m)) + Cardinality(Part(w, m + 1, b))
           /\ \A k \in Part(w, a, m) : Rank(Part(w, a, b), k) = Rank(Part(w, a, m), k)
           /\ \A k \in Part(w, m + 1, b) :
                 Rank(Part(w, a, b), k) = Cardinality(Part(w, a, m)) + Rank(Part(w, m + 1, b), k)
<1> DEFINE A == Part(w, a, m)
           B == Part(w, m + 1, b)
<1>1. Len(w) \in Nat /\ DOMAIN w = 1 .. Len(w)
  OBVIOUS
<1>2. Part(w, a, b) = A \cup B
  <2>1. a .. b = (a .. m) \cup ((m + 1) .. b)
    OBVIOUS
  <2> QED BY <2>1 DEF Part
<1>3. A \in SUBSET K /\ B \in SUBSET K /\ IsFiniteSet(A) /\ IsFiniteSet(B)
  <2>1. m <= Len(w) /\ m + 1 \in Nat /\ m + 1 >= 1
    BY <1>1
  <2> QED BY <2>1, PartFacts
<1>4. \A x \in A, y \in B : LexBefore(x, y)
  <2> SUFFICES ASSUME NEW x \in A, NEW y \in B PROVE LexBefore(x, y)
    OBVIOUS
  <2>1. PICK i \in a .. m : x \in w[i].keys
    BY DEF Part
  <2>2. PICK j \in (m + 1) .. b : y \in w[j].keys
    BY DEF Part
  <2>3. i \in DOMAIN w /\ j \in DOMAIN w /\ i < j
    BY <1>1
  <2> QED BY <2>1, <2>2, <2>3 DEF InOrder
<1>5. A \in SUBSET Key /\ B \in SUBSET Key
  BY <1>3
<1> HIDE DEF A, B
<1>6. /\ A \cap B = {}
      /\ Cardinality(A \cup B) = Cardinality(A) + Cardinality(B)
      /\ \A x \in A : Rank(A \cup B, x) = Rank(A, x)
      /\ \A y \in B : Rank(A \cup B, y) = Cardinality(A) + Rank(B, y)
  BY <1>3, <1>4, <1>5, RankSplit
<1> QED BY <1>2, <1>6 DEF A, B

LEMMA PartOne ==
    ASSUME NEW w, NEW q \in Nat
    PROVE  Part(w, q, q) = w[q].keys /\ Part(w, q, q - 1) = {}
<1>1. q .. q = {q} /\ q .. (q - 1) = {}
  OBVIOUS
<1> QED BY <1>1 DEF Part

AdvanceFrom(f, w, p) == IF p = 1 THEN 0 ELSE f[p - 1] + Size(w[p - 1])

\* The loop advances by the number of keys of the nodes that it has passed.
LEMMA AdvanceFact ==
    ASSUME NEW K \in SUBSET Key, IsFiniteSet(K), NEW w \in Seq(NodeSet(K)), InOrder(w),
           NEW q \in DOMAIN w
    PROVE  Advance(w, q) = Cardinality(Part(w, 1, q - 1))
<1> DEFINE N == Len(w)
           D == 1 .. N
           R(f) == f = [p \in D |-> AdvanceFrom(f, w, p)]
           C(p) == Cardinality(Part(w, 1, p - 1))
<1>1. N \in Nat /\ q \in D /\ 1 \in D /\ N >= 1 /\ DOMAIN w = D /\ 1 \in Nat
  OBVIOUS
<1>2. C(1) = 0
  <2>1. Part(w, 1, 1 - 1) = {}
    BY <1>1, PartOne
  <2> QED BY <2>1, FS_EmptySet
<1>3. ASSUME NEW p \in D, p # 1 PROVE p - 1 \in D /\ C(p) = C(p - 1) + Size(w[p - 1])
  <2>1. p - 1 \in D /\ p - 1 \in Nat /\ (p - 1) - 1 \in Nat /\ 1 <= ((p - 1) - 1) + 1
        /\ (p - 1) - 1 <= p - 1 /\ p - 1 <= Len(w) /\ ((p - 1) - 1) + 1 = p - 1
    BY <1>1, <1>3
  <2>2. Cardinality(Part(w, 1, p - 1))
        = Cardinality(Part(w, 1, (p - 1) - 1)) + Cardinality(Part(w, ((p - 1) - 1) + 1, p - 1))
    BY <1>1, <2>1, PartSplit
  <2>3. Part(w, p - 1, p - 1) = w[p - 1].keys
    BY <2>1, PartOne
  <2> QED BY <2>1, <2>2, <2>3 DEF Size
<1> HIDE DEF C
<1>4. \E f : R(f)
  <2> DEFINE g == [p \in D |-> C(p)]
  <2>1. \A p \in D : g[p] = C(p)
    OBVIOUS
  <2> HIDE DEF g, D
  <2>2. \A p \in D : AdvanceFrom(g, w, p) = C(p)
    BY <2>1, <1>2, <1>3 DEF AdvanceFrom
  <2>3. g = [p \in D |-> AdvanceFrom(g, w, p)]
    <3>1. g = [p \in D |-> C(p)]
      BY DEF g
    <3> QED BY <3>1, <2>2
  <2> QED BY <2>3
<1>5. PICK f : f = (CHOOSE h : R(h)) /\ R(f)
  BY <1>4
<1>6. Advance(w, q) = f[q]
  BY <1>5 DEF Advance, AdvanceFrom
<1>7. \A p \in D : f[p] = AdvanceFrom(f, w, p)
  <2>1. f = [p \in D |-> AdvanceFrom(f, w, p)]
    BY <1>5
  <2> HIDE DEF D
  <2> QED BY <2>1
<1> DEFINE G == {p \in D : f[p] = C(p)}
<1>8. 1 \in G
  BY <1>1, <1>2, <1>7 DEF AdvanceFrom
<1>9. ASSUME NEW p \in 1 .. N, p + 1 <= N, p \in G PROVE p + 1 \in G
  <2>1. p + 1 \in D /\ p + 1 # 1 /\ (p + 1) - 1 = p
    BY <1>1, <1>9
  <2>2. f[p + 1] = f[p] + Size(w[p])
    BY <2>1, <1>7 DEF AdvanceFrom
  <2>3. C(p + 1) = C(p) + Size(w[p])
    BY <2>1, <1>3
  <2> QED BY <2>1, <2>2, <2>3, <1>9
<1>10. q \in G
  <2> HIDE DEF G
  <2> QED BY <1>1, <1>8, <1>9, RangeInduction
<1> QED BY <1>6, <1>10 DEF C

\* The place of a key in a work list.
LEMMA ListPlace ==
    ASSUME NEW K \in SUBSET Key, IsFiniteSet(K), NEW w \in Seq(NodeSet(K)), InOrder(w),
           NEW q \in DOMAIN w, NEW k \in w[q].keys
    PROVE  /\ Advance(w, q) + Place(w[q], k) = Rank(KeysOf(w), k)
           /\ k \in KeysOf(w)
           /\ \A p \in DOMAIN w : k \in w[p].keys => p = q
<1>1. Len(w) \in Nat /\ DOMAIN w = 1 .. Len(w) /\ q \in Nat /\ q >= 1 /\ q <= Len(w) /\ 1 \in Nat
      /\ q - 1 \in Nat /\ q - 1 <= Len(w) /\ (q - 1) + 1 = q /\ 1 <= (q - 1) + 1 /\ q <= q + 1
  OBVIOUS
<1>2. KeysOf(w) = Part(w, 1, Len(w)) /\ w[q].keys \in SUBSET K /\ IsFiniteSet(w[q].keys)
  BY PartFacts
<1>3. Advance(w, q) = Cardinality(Part(w, 1, q - 1))
  BY AdvanceFact
<1>4. Place(w[q], k) = Rank(w[q].keys, k)
  <2>1. w[q].keys \in SUBSET Key
    BY <1>2
  <2> QED BY <1>2, <2>1, PlaceFact
<1>5. Part(w, q, q) = w[q].keys
  BY <1>1, PartOne
<1>6. k \in Part(w, (q - 1) + 1, q)
  BY <1>1, <1>5
<1>7. Rank(Part(w, 1, q), k) = Cardinality(Part(w, 1, q - 1)) + Rank(Part(w, (q - 1) + 1, q), k)
  <2>1. q - 1 <= q
    BY <1>1
  <2> QED BY <1>1, <1>6, <2>1, PartSplit
<1>8. k \in Part(w, 1, q)
  BY <1>1 DEF Part
<1>9. Rank(Part(w, 1, Len(w)), k) = Rank(Part(w, 1, q), k)
  BY <1>1, <1>8, PartSplit
<1>10. k \in KeysOf(w)
  BY DEF KeysOf
<1>11. ASSUME NEW p \in DOMAIN w, k \in w[p].keys PROVE p = q
  <2>1. k \in Key /\ ~LexBefore(k, k)
    BY <1>2, LexIrreflexive
  <2>2. ~(p < q) /\ ~(q < p)
    BY <1>11, <2>1 DEF InOrder
  <2>3. p \in Nat
    BY <1>1
  <2> QED BY <1>1, <2>2, <2>3
<1> QED BY <1>1, <1>2, <1>3, <1>4, <1>5, <1>7, <1>9, <1>10, <1>11

-----------------------------------------------------------------------------
(* Work lists *)

LEMMA TrieFact ==
    ASSUME trie \subseteq Keys
    PROVE  /\ trie \in SUBSET Key /\ IsFiniteSet(trie) /\ Cardinality(trie) \in Nat
           /\ \A S \in SUBSET trie : S \in SUBSET Key /\ IsFiniteSet(S) /\ Cardinality(S) \in Nat
<1>1. trie \in SUBSET Key /\ IsFiniteSet(trie)
  BY KeysAssumption, FS_Subset
<1> QED BY <1>1, FS_Subset, FS_CardinalityType

LEMMA ListFact ==
    ASSUME NEW w
    PROVE  ListOK(w) <=> /\ w \in Seq(NodeSet(trie))
                         /\ \A i \in DOMAIN w : NodeOK(w[i])
                         /\ InOrder(w)
BY DEF ListOK, NodeSet, InOrder

LEMMA ListKeys ==
    ASSUME trie \subseteq Keys, NEW w, ListOK(w)
    PROVE  /\ KeysOf(w) \in SUBSET trie /\ KeysOf(w) \in SUBSET Key
           /\ IsFiniteSet(KeysOf(w)) /\ Cardinality(KeysOf(w)) \in Nat
           /\ \A i \in DOMAIN w : /\ w[i].keys \in SUBSET KeysOf(w) /\ w[i].keys # {}
                                  /\ w[i].keys \in SUBSET trie /\ w[i].keys \in SUBSET Key
                                  /\ IsFiniteSet(w[i].keys) /\ Size(w[i]) \in Nat \ {0}
<1>1. \A i \in DOMAIN w : w[i].keys \in SUBSET trie /\ w[i].keys # {}
  BY ListFact DEF NodeOK
<1>2. KeysOf(w) \in SUBSET trie
  BY <1>1 DEF KeysOf
<1>3. ASSUME NEW i \in DOMAIN w PROVE Size(w[i]) \in Nat \ {0}
  <2>1. IsFiniteSet(w[i].keys) /\ Size(w[i]) \in Nat
    BY <1>1, TrieFact DEF Size
  <2>2. Size(w[i]) # 0
    BY <1>1, <2>1, FS_EmptySet DEF Size
  <2> QED BY <2>1, <2>2
<1>4. \A i \in DOMAIN w : w[i].keys \in SUBSET KeysOf(w)
  BY DEF KeysOf
<1> QED BY <1>1, <1>2, <1>3, <1>4, TrieFact

\* The first node of a work list, and the others.
LEMMA HeadFact ==
    ASSUME trie \subseteq Keys, NEW w, ListOK(w), Len(w) >= 1
    PROVE  /\ NodeOK(Head(w)) /\ Head(w) \in NodeSet(trie) /\ Size(Head(w)) \in Nat \ {0}
           /\ ListOK(Tail(w))
           /\ KeysOf(w) = Head(w).keys \cup KeysOf(Tail(w))
           /\ \A x \in Head(w).keys, y \in KeysOf(Tail(w)) : LexBefore(x, y)
           /\ Cardinality(KeysOf(w)) = Size(Head(w)) + Cardinality(KeysOf(Tail(w)))
           /\ ListApart(w) => /\ ListApart(Tail(w))
                              /\ Apart(Head(w).keys, KeysOf(Tail(w)))
<1>1. w \in Seq(NodeSet(trie)) /\ (\A i \in DOMAIN w : NodeOK(w[i])) /\ InOrder(w)
  BY ListFact
<1>2. Len(w) \in Nat /\ DOMAIN w = 1 .. Len(w) /\ 1 \in DOMAIN w /\ Head(w) = w[1] /\ w # << >>
  BY <1>1
<1> DEFINE t == Tail(w)
<1>3. t \in Seq(NodeSet(trie)) /\ DOMAIN t = 1 .. Len(w) - 1 /\ Len(t) = Len(w) - 1
      /\ \A i \in 1 .. Len(w) - 1 : t[i] = w[i + 1] /\ i + 1 \in DOMAIN w
  BY <1>1, <1>2
<1> HIDE DEF t
<1>4. ListOK(t)
  <2>1. \A i \in DOMAIN t : NodeOK(t[i])
    BY <1>1, <1>3
  <2>2. InOrder(t)
    <3> SUFFICES ASSUME NEW i \in DOMAIN t, NEW j \in DOMAIN t, i < j,
                        NEW x \in t[i].keys, NEW y \in t[j].keys
                 PROVE  LexBefore(x, y)
      BY DEF InOrder
    <3>1. i + 1 < j + 1
      BY <1>2, <1>3
    <3> QED BY <3>1, <1>1, <1>3 DEF InOrder
  <2> QED BY <2>1, <2>2, <1>3, ListFact
<1>5. KeysOf(w) = w[1].keys \cup KeysOf(t)
  <2>1. ASSUME NEW i \in DOMAIN w, i # 1 PROVE i - 1 \in DOMAIN t /\ t[i - 1] = w[i]
    <3>1. i - 1 \in 1 .. Len(w) - 1 /\ (i - 1) + 1 = i
      BY <1>2, <2>1
    <3> QED BY <3>1, <1>3
  <2>2. ASSUME NEW x \in KeysOf(w) PROVE x \in w[1].keys \cup KeysOf(t)
    <3>1. PICK i \in DOMAIN w : x \in w[i].keys
      BY DEF KeysOf
    <3> QED BY <3>1, <2>1 DEF KeysOf
  <2>3. ASSUME NEW x \in KeysOf(t) PROVE x \in KeysOf(w)
    <3>1. PICK i \in DOMAIN t : x \in t[i].keys
      BY DEF KeysOf
    <3>2. i + 1 \in DOMAIN w /\ x \in w[i + 1].keys
      BY <3>1, <1>3
    <3> QED BY <3>2 DEF KeysOf
  <2>4. \A x \in w[1].keys : x \in KeysOf(w)
    BY <1>2 DEF KeysOf
  <2> QED BY <2>2, <2>3, <2>4
<1>6. ASSUME NEW x \in w[1].keys, NEW y \in KeysOf(t) PROVE LexBefore(x, y)
  <2>1. PICK i \in DOMAIN t : y \in t[i].keys
    BY DEF KeysOf
  <2>2. i + 1 \in DOMAIN w /\ y \in w[i + 1].keys /\ 1 < i + 1
    BY <2>1, <1>2, <1>3
  <2> QED BY <2>2, <1>1, <1>2 DEF InOrder
<1>7. Size(w[1]) \in Nat \ {0} /\ w[1] \in NodeSet(trie) /\ NodeOK(w[1])
  BY <1>1, <1>2, ListKeys
<1>8. Cardinality(KeysOf(w)) = Size(w[1]) + Cardinality(KeysOf(t))
  <2>1. w[1].keys \in SUBSET Key /\ IsFiniteSet(w[1].keys) /\ KeysOf(t) \in SUBSET Key /\ IsFiniteSet(KeysOf(t))
    BY <1>2, <1>4, ListKeys
  <2>2. Cardinality(w[1].keys \cup KeysOf(t)) = Cardinality(w[1].keys) + Cardinality(KeysOf(t))
    BY <2>1, <1>6, RankSplit
  <2> QED BY <2>2, <1>5 DEF Size
<1>9. ASSUME ListApart(w) PROVE ListApart(t) /\ Apart(w[1].keys, KeysOf(t))
  <2>1. ListApart(t)
    <3> SUFFICES ASSUME NEW i \in DOMAIN t, NEW j \in DOMAIN t, i # j PROVE Apart(t[i].keys, t[j].keys)
      BY DEF ListApart
    <3>1. i + 1 # j + 1
      BY <1>2, <1>3
    <3> QED BY <3>1, <1>3, <1>9 DEF ListApart
  <2>2. Apart(w[1].keys, KeysOf(t))
    <3> SUFFICES ASSUME NEW x \in w[1].keys, NEW y \in KeysOf(t)
                 PROVE  Truncate(x, MaxSplitLen) # Truncate(y, MaxSplitLen)
      BY DEF Apart
    <3>1. PICK i \in DOMAIN t : y \in t[i].keys
      BY DEF KeysOf
    <3>2. i + 1 \in DOMAIN w /\ y \in w[i + 1].keys /\ 1 # i + 1
      BY <3>1, <1>2, <1>3
    <3> QED BY <3>2, <1>2, <1>9 DEF ListApart, Apart
  <2> QED BY <2>1, <2>2
<1> QED BY <1>2, <1>4, <1>5, <1>6, <1>7, <1>8, <1>9 DEF t

\* A node is appended to a work list.
LEMMA AppendFact ==
    ASSUME trie \subseteq Keys, NEW w, ListOK(w), NEW c \in NodeSet(trie), NodeOK(c),
           \A x \in KeysOf(w), y \in c.keys : LexBefore(x, y)
    PROVE  /\ ListOK(Append(w, c))
           /\ KeysOf(Append(w, c)) = KeysOf(w) \cup c.keys
           /\ Cardinality(KeysOf(Append(w, c))) = Cardinality(KeysOf(w)) + Size(c)
           /\ ListApart(w) /\ Apart(KeysOf(w), c.keys) => ListApart(Append(w, c))
<1>1. w \in Seq(NodeSet(trie)) /\ (\A i \in DOMAIN w : NodeOK(w[i])) /\ InOrder(w)
  BY ListFact
<1> DEFINE a == Append(w, c)
           m == Len(w) + 1
<1>2. Len(w) \in Nat /\ DOMAIN w = 1 .. Len(w)
  BY <1>1
<1>3. a \in Seq(NodeSet(trie)) /\ DOMAIN a = 1 .. m /\ a[m] = c
      /\ \A i \in DOMAIN w : a[i] = w[i] /\ i \in DOMAIN a
  BY <1>1, <1>2
<1>4. m \in DOMAIN a /\ \A i \in DOMAIN a : (i \in DOMAIN w /\ i < m) \/ i = m
  BY <1>2, <1>3
<1> HIDE DEF a, m
<1>5. \A i \in DOMAIN w : \A x \in w[i].keys : x \in KeysOf(w)
  BY DEF KeysOf
<1>6. ListOK(a)
  <2>1. \A i \in DOMAIN a : NodeOK(a[i])
    BY <1>1, <1>3, <1>4
  <2>2. InOrder(a)
    <3> SUFFICES ASSUME NEW i \in DOMAIN a, NEW j \in DOMAIN a, i < j,
                        NEW x \in a[i].keys, NEW y \in a[j].keys
                 PROVE  LexBefore(x, y)
      BY DEF InOrder
    <3>1. i \in DOMAIN w /\ a[i] = w[i]
      BY <1>2, <1>3, <1>4 DEF m
    <3>2. CASE j \in DOMAIN w
      BY <3>1, <3>2, <1>1, <1>3 DEF InOrder
    <3>3. CASE j = m
      BY <3>1, <3>3, <1>3, <1>5
    <3> QED BY <3>2, <3>3, <1>4
  <2> QED BY <2>1, <2>2, <1>3, ListFact
<1>7. KeysOf(a) = KeysOf(w) \cup c.keys
  BY <1>3, <1>4 DEF KeysOf
<1>8. Cardinality(KeysOf(a)) = Cardinality(KeysOf(w)) + Size(c)
  <2>1. KeysOf(w) \in SUBSET Key /\ IsFiniteSet(KeysOf(w)) /\ c.keys \in SUBSET Key /\ IsFiniteSet(c.keys)
    BY ListKeys, TrieFact DEF NodeOK
  <2>2. Cardinality(KeysOf(w) \cup c.keys) = Cardinality(KeysOf(w)) + Cardinality(c.keys)
    BY <2>1, RankSplit
  <2> QED BY <2>2, <1>7 DEF Size
<1>9. ASSUME ListApart(w), Apart(KeysOf(w), c.keys) PROVE ListApart(a)
  <2> SUFFICES ASSUME NEW i \in DOMAIN a, NEW j \in DOMAIN a, i # j, NEW x \in a[i].keys, NEW y \in a[j].keys
               PROVE  Truncate(x, MaxSplitLen) # Truncate(y, MaxSplitLen)
    BY DEF ListApart, Apart
  <2>1. CASE i \in DOMAIN w /\ j \in DOMAIN w
    BY <2>1, <1>3, <1>9 DEF ListApart, Apart
  <2>2. CASE i \in DOMAIN w /\ j = m
    BY <2>2, <1>3, <1>5, <1>9 DEF Apart
  <2>3. CASE i = m /\ j \in DOMAIN w
    <3>1. y \in KeysOf(w) /\ x \in c.keys
      BY <2>3, <1>3, <1>5
    <3> QED BY <3>1, <1>9 DEF Apart
  <2> QED BY <2>1, <2>2, <2>3, <1>4
<1> QED BY <1>6, <1>7, <1>8, <1>9 DEF a

-----------------------------------------------------------------------------
(* The splitting constructors *)

LEMMA HalfFact ==
    ASSUME NEW n \in Nat
    PROVE  n \div 2 \in Nat /\ 2 * (n \div 2) <= n /\ n <= 2 * (n \div 2) + 1
OBVIOUS

\* A set of keys that share all digits has at most one.
LEMMA SharesAll ==
    ASSUME NEW K \in SUBSET Key, K # {}, Shares(K, KeyLen)
    PROVE  Cardinality(K) = 1
<1>1. PICK k : k \in K
  OBVIOUS
<1>2. \A j \in K : j = k
  <2> SUFFICES ASSUME NEW j \in K PROVE j = k
    OBVIOUS
  <2>1. IsPrefixOf(j, KeyLen, k, KeyLen)
    BY <1>1, KeyLenAssumption DEF IsPrefixOf, Shares
  <2> QED BY <1>1, <2>1, FullPrefix
<1>3. K = {k}
  BY <1>1, <1>2
<1> QED BY <1>3, FS_Singleton

\* A single node with two or more keys can be replaced by its children.
LEMMA OpenFact ==
    ASSUME trie \subseteq Keys, NEW w, ListOK(w), Len(w) = 1, Cardinality(KeysOf(w)) >= 2
    PROVE  /\ ListOK(Children(w[1])) /\ KeysOf(Children(w[1])) = KeysOf(w)
           /\ Len(Children(w[1])) >= 1
           /\ kind # "hash" => Len(Children(w[1])) >= 2
           /\ MayOpen(w[1]) => ListApart(Children(w[1]))
<1>1. PICK n : n = w[1]
  OBVIOUS
<1>2. w \in Seq(NodeSet(trie)) /\ 1 \in DOMAIN w /\ NodeOK(n) /\ DOMAIN w = {1} /\ n \in NodeSet(trie)
  BY <1>1, ListFact
<1>3. PICK K, l : K = n.keys /\ l = n.len
  OBVIOUS
<1>4. KeysOf(w) = K
  BY <1>1, <1>2, <1>3 DEF KeysOf
<1>5. K \in SUBSET trie /\ K # {} /\ K \in SUBSET Key /\ IsFiniteSet(K) /\ Cardinality(K) >= 2
  BY <1>2, <1>3, <1>4, TrieFact DEF NodeOK
<1>6. n = [keys |-> K, len |-> l] /\ l \in PrefixLen
  BY <1>2, <1>3 DEF NodeSet
<1>7. l < KeyLen /\ Common(K, l) /\ (kind # "hash" => Shares(K, l))
  <2>1. CASE n = Node(K)
    <3>1. Shares(K, l)
      BY <2>1, <1>3, <1>5, NodeFact
    <3>2. l # KeyLen
      BY <3>1, <1>5, SharesAll
    <3> QED BY <3>1, <3>2, <1>6, KeyLenAssumption DEF Shares, Common, PrefixLen
  <2>2. CASE kind = "hash" /\ n = Root
    <3>1. l = 0
      BY <2>2, <1>3 DEF Root
    <3> QED BY <3>1, <2>2, KeyLenAssumption DEF Common
  <2> QED BY <2>1, <2>2, <1>2, <1>3 DEF NodeOK
<1>8. /\ Children(n) \in Seq(NodeSet(K))
      /\ \A i \in DOMAIN Children(n) :
            /\ Children(n)[i] = Node(Children(n)[i].keys)
            /\ Children(n)[i].keys # {}
      /\ InOrder(Children(n))
      /\ KeysOf(Children(n)) = K
      /\ Shares(K, l) => Len(Children(n)) >= 2
      /\ l < MaxSplitLen => ListApart(Children(n))
  BY <1>5, <1>6, <1>7, ChildrenFact
<1>9. PICK c : c = Children(n)
  OBVIOUS
<1>10. c \in Seq(NodeSet(trie)) /\ \A i \in DOMAIN c : c[i].keys \in SUBSET trie
  <2>1. NodeSet(K) \subseteq NodeSet(trie) /\ \A m \in NodeSet(K) : m.keys \in SUBSET trie
    BY <1>5 DEF NodeSet
  <2>2. c \in Seq(NodeSet(K))
    BY <1>8, <1>9
  <2>3. \A i \in DOMAIN c : c[i] \in NodeSet(K)
    BY <2>2
  <2> QED BY <2>1, <2>2, <2>3
<1>11. \A i \in DOMAIN c : NodeOK(c[i])
  BY <1>8, <1>9, <1>10 DEF NodeOK
<1>12. ListOK(c)
  BY <1>8, <1>9, <1>10, <1>11, ListFact
<1>13. Len(c) >= 1
  <2>1. Len(c) \in Nat /\ DOMAIN c = 1 .. Len(c)
    BY <1>10
  <2>2. PICK i : i \in DOMAIN c
    BY <1>5, <1>8, <1>9 DEF KeysOf
  <2> QED BY <2>1, <2>2
<1>14. MayOpen(n) => l < MaxSplitLen
  BY <1>3 DEF MayOpen
<1> QED BY <1>1, <1>4, <1>7, <1>8, <1>9, <1>12, <1>13, <1>14

RangeSet == [work_list : Seq(NodeSet(trie)), work_size : Nat, vector_offset : Nat,
             splittable : BOOLEAN]

Sized(q) == /\ q \in RangeSet /\ ListOK(q.work_list)
            /\ q.work_size = Cardinality(KeysOf(q.work_list))

\* The new and the other range share the work of range r.
Halves(r, new, other) ==
    /\ Sized(new) /\ Sized(other)
    /\ KeysOf(new.work_list) \cup KeysOf(other.work_list) = KeysOf(r.work_list)
    /\ \A x \in KeysOf(new.work_list), y \in KeysOf(other.work_list) : LexBefore(x, y)
    /\ new.vector_offset = r.vector_offset
    /\ other.vector_offset = r.vector_offset + new.work_size
    /\ new.splittable
    /\ kind # "apply" => other.splittable
    /\ kind = "apply" => /\ ListApart(new.work_list) /\ ListApart(other.work_list)
                         /\ Apart(KeysOf(new.work_list), KeysOf(other.work_list))

LEMMA HalvesSum ==
    ASSUME trie \subseteq Keys, NEW r, Sized(r), NEW new, NEW other, Halves(r, new, other)
    PROVE  /\ new.work_size + other.work_size = r.work_size
           /\ KeysOf(new.work_list) \cap KeysOf(other.work_list) = {}
           /\ Placed(KeysOf(r.work_list), r.vector_offset) =>
                 /\ Placed(KeysOf(new.work_list), new.vector_offset)
                 /\ Placed(KeysOf(other.work_list), other.vector_offset)
<1>1. PICK A, B : A = KeysOf(new.work_list) /\ B = KeysOf(other.work_list)
  OBVIOUS
<1>2. /\ A \in SUBSET Key /\ B \in SUBSET Key /\ IsFiniteSet(A) /\ IsFiniteSet(B)
      /\ Cardinality(A) \in Nat /\ Cardinality(B) \in Nat
      /\ \A x \in B : Rank(B, x) \in Nat
  <2>1. ListOK(new.work_list) /\ ListOK(other.work_list)
    BY DEF Halves, Sized
  <2>2. A \in SUBSET Key /\ B \in SUBSET Key /\ IsFiniteSet(A) /\ IsFiniteSet(B)
        /\ Cardinality(A) \in Nat /\ Cardinality(B) \in Nat
    BY <1>1, <2>1, ListKeys
  <2> QED BY <2>2, RankFact
<1>3. \A x \in A, y \in B : LexBefore(x, y)
  BY <1>1 DEF Halves
<1>4. /\ A \cap B = {}
      /\ Cardinality(A \cup B) = Cardinality(A) + Cardinality(B)
      /\ \A x \in A : Rank(A \cup B, x) = Rank(A, x)
      /\ \A y \in B : Rank(A \cup B, y) = Cardinality(A) + Rank(B, y)
  BY <1>2, <1>3, RankSplit
<1>5. A \cup B = KeysOf(r.work_list) /\ r.work_size = Cardinality(A \cup B)
      /\ new.work_size = Cardinality(A) /\ other.work_size = Cardinality(B)
      /\ new.vector_offset = r.vector_offset /\ r.vector_offset \in Nat
      /\ other.vector_offset = r.vector_offset + new.work_size
  BY <1>1 DEF Halves, Sized, RangeSet
<1>6. ASSUME Placed(A \cup B, r.vector_offset)
      PROVE  Placed(A, new.vector_offset) /\ Placed(B, other.vector_offset)
  <2>1. Placed(A, new.vector_offset)
    BY <1>4, <1>5, <1>6 DEF Placed
  <2>2. ASSUME NEW k \in B PROVE Rank(trie, k) = other.vector_offset + Rank(B, k)
    <3>1. Rank(trie, k) = r.vector_offset + Rank(A \cup B, k)
      BY <1>6 DEF Placed
    <3>2. Rank(A \cup B, k) = Cardinality(A) + Rank(B, k) /\ Rank(B, k) \in Nat
      BY <1>2, <1>4
    <3> QED BY <3>1, <3>2, <1>2, <1>5
  <2> QED BY <2>1, <2>2 DEF Placed
<1> QED BY <1>1, <1>4, <1>5, <1>6

\* The first node of the other work list goes to the new range.
LEMMA MoveFact ==
    ASSUME trie \subseteq Keys, NEW r, Sized(r), NEW new, NEW other, Halves(r, new, other),
           Len(other.work_list) >= 1
    PROVE  LET s == MoveFirst(new, other)
           IN  Halves(r, s.new, s.other) /\ s.ok = TRUE /\ s.new.work_size > new.work_size
<1>1. PICK a, b, c, n : a = new.work_list /\ b = other.work_list /\ c = Head(b) /\ n = Size(c)
  OBVIOUS
<1>2. /\ new \in RangeSet /\ other \in RangeSet /\ ListOK(a) /\ ListOK(b) /\ Len(b) >= 1
      /\ new.work_size = Cardinality(KeysOf(a)) /\ other.work_size = Cardinality(KeysOf(b))
      /\ KeysOf(a) \cup KeysOf(b) = KeysOf(r.work_list)
      /\ \A x \in KeysOf(a), y \in KeysOf(b) : LexBefore(x, y)
      /\ new.vector_offset = r.vector_offset
      /\ other.vector_offset = r.vector_offset + new.work_size
      /\ new.splittable
      /\ kind # "apply" => other.splittable
      /\ kind = "apply" => ListApart(a) /\ ListApart(b) /\ Apart(KeysOf(a), KeysOf(b))
  BY <1>1 DEF Halves, Sized
<1>3. PICK t : t = Tail(b)
  OBVIOUS
<1>4. /\ NodeOK(c) /\ c \in NodeSet(trie) /\ n \in Nat \ {0}
      /\ ListOK(t)
      /\ KeysOf(b) = c.keys \cup KeysOf(t)
      /\ \A x \in c.keys, y \in KeysOf(t) : LexBefore(x, y)
      /\ Cardinality(KeysOf(b)) = n + Cardinality(KeysOf(t))
      /\ ListApart(b) => ListApart(t) /\ Apart(c.keys, KeysOf(t))
  BY <1>1, <1>2, <1>3, HeadFact
<1>5. \A x \in KeysOf(a), y \in c.keys : LexBefore(x, y)
  BY <1>2, <1>4
<1>6. PICK p : p = Append(a, c)
  OBVIOUS
<1>7. /\ ListOK(p)
      /\ KeysOf(p) = KeysOf(a) \cup c.keys
      /\ Cardinality(KeysOf(p)) = Cardinality(KeysOf(a)) + n
      /\ ListApart(a) /\ Apart(KeysOf(a), c.keys) => ListApart(p)
  BY <1>1, <1>2, <1>4, <1>5, <1>6, AppendFact
<1>8. /\ Cardinality(KeysOf(a)) \in Nat /\ Cardinality(KeysOf(t)) \in Nat
      /\ p \in Seq(NodeSet(trie)) /\ t \in Seq(NodeSet(trie))
  BY <1>2, <1>4, <1>7, ListKeys, ListFact
<1>9. PICK new2, other2 :
        /\ new2 = [work_list |-> p, work_size |-> new.work_size + n,
                   vector_offset |-> new.vector_offset, splittable |-> new.splittable]
        /\ other2 = [work_list |-> t, work_size |-> other.work_size - n,
                     vector_offset |-> other.vector_offset + n, splittable |-> other.splittable]
  OBVIOUS
<1>11. MoveFirst(new, other) = [new |-> new2, other |-> other2, ok |-> TRUE]
  BY <1>1, <1>3, <1>6, <1>9 DEF MoveFirst, Split, WithWork
<1>12. /\ new2.work_list = p /\ new2.work_size = new.work_size + n
       /\ new2.vector_offset = new.vector_offset /\ new2.splittable = new.splittable
       /\ other2.work_list = t /\ other2.work_size = other.work_size - n
       /\ other2.vector_offset = other.vector_offset + n /\ other2.splittable = other.splittable
  BY <1>9
<1>13. new.work_size \in Nat /\ other.work_size \in Nat /\ r.vector_offset \in Nat
       /\ other.work_size - n \in Nat /\ other.work_size - n = Cardinality(KeysOf(t))
       /\ new.vector_offset \in Nat /\ other.vector_offset \in Nat
       /\ new.splittable \in BOOLEAN /\ other.splittable \in BOOLEAN
  BY <1>2, <1>4, <1>8 DEF Sized, RangeSet
<1>14. new2 \in RangeSet /\ other2 \in RangeSet
  <2>1. new.work_size + n \in Nat /\ other.vector_offset + n \in Nat
    BY <1>4, <1>13
  <2> QED BY <2>1, <1>8, <1>9, <1>13 DEF RangeSet
<1>15. Sized(new2) /\ Sized(other2)
  BY <1>2, <1>4, <1>7, <1>12, <1>13, <1>14 DEF Sized
<1>16. KeysOf(p) \cup KeysOf(t) = KeysOf(r.work_list)
  BY <1>2, <1>4, <1>7
<1>17. \A x \in KeysOf(p), y \in KeysOf(t) : LexBefore(x, y)
  BY <1>2, <1>4, <1>7
<1>18. other.vector_offset + n = r.vector_offset + (new.work_size + n)
  BY <1>2, <1>4, <1>13
<1>19. ASSUME kind = "apply" PROVE ListApart(p) /\ ListApart(t) /\ Apart(KeysOf(p), KeysOf(t))
  <2>1. Apart(KeysOf(a), c.keys) /\ Apart(KeysOf(a), KeysOf(t))
    BY <1>2, <1>4, <1>19 DEF Apart
  <2>2. Apart(c.keys, KeysOf(t)) /\ ListApart(t)
    BY <1>2, <1>4, <1>19
  <2>3. Apart(KeysOf(p), KeysOf(t))
    BY <2>1, <2>2, <1>7 DEF Apart
  <2> QED BY <2>1, <2>2, <2>3, <1>2, <1>7, <1>19
<1>20. Halves(r, new2, other2)
  BY <1>2, <1>12, <1>15, <1>16, <1>17, <1>18, <1>19 DEF Halves
<1>21. new2.work_size > new.work_size
  BY <1>4, <1>12, <1>13
<1> QED BY <1>11, <1>20, <1>21

Begin(r) == Split(NewRange(<< >>, 0, r.vector_offset), r, TRUE)

\* f is the run of the splitting constructor on range r, round by round.
RunOf(r, f) ==
    /\ SplitRange(r) = f[r.work_size]
    /\ f[0] = Begin(r)
    /\ \A i \in 0 .. r.work_size - 1 : f[i + 1] = Round(f[i], r.work_size \div 2)

LEMMA RunFact ==
    ASSUME NEW r, r.work_size \in Nat
    PROVE  \E f : RunOf(r, f)
<1>1. PICK N, half : N = r.work_size /\ half = r.work_size \div 2 /\ N \in Nat
  OBVIOUS
<1> DEFINE R(f) == f = [i \in 0 .. N |-> IF i = 0 THEN Begin(r) ELSE Round(f[i - 1], half)]
           H(g, h) == g[0] = Begin(r) /\ \A i \in 0 .. N - 1 : i < h => g[i + 1] = Round(g[i], half)
           G == {h \in 0 .. N : \E g : H(g, h)}
<1>2. 0 \in G
  <2> DEFINE g == [i \in {0} |-> Begin(r)]
  <2>1. g[0] = Begin(r)
    OBVIOUS
  <2>2. 0 \in 0 .. N /\ \A i \in 0 .. N - 1 : ~(i < 0)
    BY <1>1
  <2> HIDE DEF g
  <2>3. H(g, 0)
    BY <2>1, <2>2
  <2> HIDE DEF H
  <2> QED BY <2>2, <2>3
<1>3. ASSUME NEW h \in 0 .. N, h + 1 <= N, h \in G PROVE h + 1 \in G
  <2>1. PICK g : H(g, h)
    BY <1>3
  <2> DEFINE g2 == [i \in 0 .. h + 1 |-> IF i = h + 1 THEN Round(g[h], half) ELSE g[i]]
  <2>2. g2[0] = g[0] /\ g2[h + 1] = Round(g[h], half)
    BY <1>1
  <2>3. \A i \in 0 .. h : g2[i] = g[i]
    BY <1>1
  <2> HIDE DEF g2
  <2>4. ASSUME NEW i \in 0 .. N - 1, i < h + 1 PROVE g2[i + 1] = Round(g2[i], half)
    <3>1. CASE i = h
      BY <3>1, <2>2, <2>3
    <3>2. CASE i # h
      <4>1. i < h /\ i + 1 \in 0 .. h /\ i \in 0 .. h
        BY <2>4, <3>2, <1>1
      <4> QED BY <4>1, <2>1, <2>3
    <3> QED BY <3>1, <3>2
  <2>5. H(g2, h + 1)
    BY <2>1, <2>2, <2>4
  <2>6. h + 1 \in 0 .. N
    BY <1>1, <1>3
  <2> HIDE DEF H
  <2> QED BY <2>5, <2>6
<1>4. N \in G
  <2>1. 0 \in Nat /\ N \in 0 .. N
    BY <1>1
  <2> HIDE DEF G
  <2> QED BY <2>1, <1>1, <1>2, <1>3, RangeInduction
<1>5. PICK g : g[0] = Begin(r) /\ \A i \in 0 .. N - 1 : g[i + 1] = Round(g[i], half)
  <2>1. PICK g : H(g, N)
    BY <1>4
  <2>2. \A i \in 0 .. N - 1 : i < N
    BY <1>1
  <2> QED BY <2>1, <2>2
<1>6. \E f : R(f)
  <2> DEFINE f == [i \in 0 .. N |-> g[i]]
  <2>0. \A i \in 0 .. N : f[i] = g[i]
    OBVIOUS
  <2>1. ASSUME NEW i \in 0 .. N
        PROVE  g[i] = IF i = 0 THEN Begin(r) ELSE Round(f[i - 1], half)
    <3> HIDE DEF f
    <3>1. CASE i = 0
      BY <3>1, <1>5
    <3>2. CASE i # 0
      <4>1. i - 1 \in 0 .. N - 1 /\ i - 1 \in 0 .. N /\ (i - 1) + 1 = i
        BY <3>2, <1>1
      <4>2. g[(i - 1) + 1] = Round(g[i - 1], half)
        BY <4>1, <1>5
      <4> QED BY <3>2, <4>1, <4>2, <2>0
    <3> QED BY <3>1, <3>2
  <2>2. f = [i \in 0 .. N |-> IF i = 0 THEN Begin(r) ELSE Round(f[i - 1], half)]
    <3>1. f = [i \in 0 .. N |-> g[i]]
      OBVIOUS
    <3> HIDE DEF f
    <3> QED BY <3>1, <2>1
  <2> HIDE DEF f
  <2> QED BY <2>2
<1>7. PICK f : f = (CHOOSE h : R(h)) /\ R(f)
  BY <1>6
<1>8. SplitRange(r) = f[N]
  BY <1>1, <1>7 DEF SplitRange, Begin
<1>9. \A i \in 0 .. N : f[i] = IF i = 0 THEN Begin(r) ELSE Round(f[i - 1], half)
  <2>1. f = [i \in 0 .. N |-> IF i = 0 THEN Begin(r) ELSE Round(f[i - 1], half)]
    BY <1>7
  <2> QED BY <2>1
<1>10. f[0] = Begin(r) /\ \A i \in 0 .. N - 1 : f[i + 1] = Round(f[i], half)
  <2>1. 0 \in 0 .. N
    BY <1>1
  <2>2. ASSUME NEW i \in 0 .. N - 1 PROVE f[i + 1] = Round(f[i], half)
    <3>1. i + 1 \in 0 .. N /\ i + 1 # 0 /\ (i + 1) - 1 = i
      BY <1>1
    <3> QED BY <3>1, <1>9
  <2> QED BY <2>1, <2>2, <1>9
<1> QED BY <1>1, <1>8, <1>10 DEF RunOf

\* After i rounds the work of r is shared, and the loop has ended or has moved
\* a node in every second round.
Rounds(s) == 2 * s.new.work_size + (IF Len(s.other.work_list) = 1 THEN 0 ELSE 1)

Sound(r, s, i) ==
    /\ s.ok = TRUE
    /\ Halves(r, s.new, s.other)
    /\ Ended(s, r.work_size \div 2) \/ i <= Rounds(s)

LEMMA TwoOrMore ==
    ASSUME NEW n \in Nat
    PROVE  n >= 2 <=> n # 0 /\ n # 1
OBVIOUS

LEMMA RoundFact ==
    ASSUME trie \subseteq Keys, kind \in {"accumulate", "apply", "hash"},
           NEW r, Sized(r), r.work_size >= 2, NEW s, NEW i \in Nat, Sound(r, s, i)
    PROVE  Sound(r, Round(s, r.work_size \div 2), i + 1)
<1>1. PICK half, N : half = r.work_size \div 2 /\ N = r.work_size
  OBVIOUS
<1>2. CASE Ended(s, half)
  BY <1>1, <1>2 DEF Sound, Round
<1>3. CASE ~Ended(s, half)
  <2>1. PICK new, other, w : new = s.new /\ other = s.other /\ w = other.work_list
    OBVIOUS
  <2>2. /\ Halves(r, new, other) /\ Sized(other) /\ ListOK(w)
        /\ other.work_size = Cardinality(KeysOf(w)) /\ i <= Rounds(s)
        /\ new.work_size + other.work_size = N
        /\ new.work_size \in Nat /\ other.work_size \in Nat /\ N \in Nat /\ N >= 2
        /\ other \in RangeSet
    <3>1. Halves(r, new, other) /\ i <= Rounds(s)
      BY <1>1, <1>3, <2>1 DEF Sound
    <3>2. Sized(new) /\ Sized(other)
      BY <3>1 DEF Halves
    <3>3. new.work_size + other.work_size = N
      BY <1>1, <3>1, HalvesSum
    <3> QED BY <1>1, <2>1, <3>1, <3>2, <3>3 DEF Sized, RangeSet
  <2>3. ~(new.work_size >= half)
    BY <1>3, <2>1 DEF Ended
  <2>4. other.work_size >= 2
    <3>1. half \in Nat /\ 2 * half <= N
      BY <1>1, <2>2, HalfFact
    <3> QED BY <3>1, <2>2, <2>3
  <2>5. w \in Seq(NodeSet(trie)) /\ Len(w) \in Nat /\ Len(w) # 0
    <3>1. w \in Seq(NodeSet(trie))
      BY <2>2, ListFact
    <3>2. ASSUME Len(w) = 0 PROVE FALSE
      <4>1. DOMAIN w = {}
        BY <3>1, <3>2
      <4>2. KeysOf(w) = {}
        BY <4>1 DEF KeysOf
      <4> QED BY <4>2, <2>2, <2>4, FS_EmptySet
    <3> QED BY <3>1, <3>2
  \* A single node is opened.
  <2> DEFINE other2 == WithList(other, Children(w[1]))
  <2>6. ASSUME Len(w) = 1
        PROVE  /\ other2.work_list = Children(w[1]) /\ Len(Children(w[1])) >= 1
               /\ kind # "hash" => Len(Children(w[1])) >= 2
               /\ Len(Children(w[1])) \in Nat
               /\ kind # "apply" \/ MayOpen(w[1]) => Halves(r, new, other2)
    <3>1. /\ ListOK(Children(w[1])) /\ KeysOf(Children(w[1])) = KeysOf(w)
          /\ Len(Children(w[1])) >= 1
          /\ kind # "hash" => Len(Children(w[1])) >= 2
          /\ MayOpen(w[1]) => ListApart(Children(w[1]))
      BY <2>2, <2>4, <2>6, OpenFact
    <3>2. PICK c : c = Children(w[1])
      OBVIOUS
    <3>3. c \in Seq(NodeSet(trie))
      BY <3>1, <3>2, ListFact
    <3>4. /\ other2.work_list = c /\ other2.work_size = other.work_size
          /\ other2.vector_offset = other.vector_offset /\ other2.splittable = other.splittable
          /\ other2 \in RangeSet
      BY <2>2, <3>2, <3>3 DEF WithList, RangeSet
    <3> HIDE DEF other2
    <3>5. Sized(other2)
      BY <2>2, <3>1, <3>2, <3>4 DEF Sized
    <3>6. kind # "apply" \/ MayOpen(w[1]) => Halves(r, new, other2)
      BY <2>1, <2>2, <3>1, <3>2, <3>4, <3>5 DEF Halves
    <3>7. Len(c) \in Nat
      BY <3>3
    <3> QED BY <3>1, <3>2, <3>4, <3>6, <3>7
  <2> HIDE DEF other2
  <2>7. ASSUME NEW o, Halves(r, new, o), Len(o.work_list) >= 1
        PROVE  Sound(r, MoveFirst(new, o), i + 1)
    <3>1. PICK m : m = MoveFirst(new, o)
      OBVIOUS
    <3>2. Halves(r, m.new, m.other) /\ m.ok = TRUE /\ m.new.work_size > new.work_size
      BY <2>7, <3>1, MoveFact
    <3>3. m.new.work_size \in Nat
      BY <3>2 DEF Halves, Sized, RangeSet
    <3>4. i <= 2 * new.work_size + 1
      BY <2>1, <2>2 DEF Rounds
    <3>5. i + 1 <= 2 * m.new.work_size
      BY <3>2, <3>3, <3>4, <2>2
    <3>6. i + 1 <= Rounds(m)
      BY <3>3, <3>5 DEF Rounds
    <3> QED BY <3>1, <3>2, <3>6 DEF Sound
  <2>8. CASE kind = "accumulate"
    <3>1. Round(s, half) = AccumulateRound(s)
      BY <1>3, <2>8 DEF Round
    <3>2. PICK o : o = WithList(other, Opened(w))
      OBVIOUS
    <3>3. Halves(r, new, o) /\ Len(o.work_list) \in Nat /\ Len(o.work_list) >= 2
      <4>1. CASE Len(w) = 1
        BY <4>1, <2>6, <2>8, <3>2 DEF Opened, other2
      <4>2. CASE Len(w) # 1
        <5>1. o = other
          BY <4>2, <2>1, <2>2, <3>2 DEF Opened, WithList, RangeSet
        <5>2. Len(w) >= 2
          BY <4>2, <2>5, TwoOrMore, Zenon
        <5> QED BY <5>1, <5>2, <2>1, <2>2, <2>5
      <4> QED BY <4>1, <4>2
    <3>4. AccumulateRound(s) = MoveFirst(new, o)
      <4>1. o = WithList(s.other, Opened(s.other.work_list)) /\ new = s.new
        BY <2>1, <3>2, Zenon
      <4>2. Len(o.work_list) \notin {0, 1}
        BY <3>3, TwoOrMore, Zenon
      <4> QED BY <4>1, <4>2, Zenon DEF AccumulateRound
    <3> QED BY <1>1, <2>7, <3>1, <3>3, <3>4
  <2>9. CASE kind = "hash"
    <3>1. Round(s, half) = HashRound(s)
      BY <1>3, <2>9 DEF Round
    <3>2. PICK o : o = WithList(other, Opened(w))
      OBVIOUS
    <3>3. Halves(r, new, o) /\ Len(o.work_list) \in Nat /\ Len(o.work_list) >= 1
      <4>1. CASE Len(w) = 1
        BY <4>1, <2>6, <2>9, <3>2 DEF Opened, other2
      <4>2. CASE Len(w) # 1
        <5>1. o = other
          BY <4>2, <2>1, <2>2, <3>2 DEF Opened, WithList, RangeSet
        <5> QED BY <5>1, <4>2, <2>1, <2>2, <2>5
      <4> QED BY <4>1, <4>2
    <3>4. HashRound(s) = MoveFirst(new, o)
      <4>1. o = WithList(s.other, Opened(s.other.work_list)) /\ new = s.new
        BY <2>1, <3>2, Zenon
      <4>2. Len(o.work_list) # 0
        BY <3>3
      <4> QED BY <4>1, <4>2, Zenon DEF HashRound
    <3> QED BY <1>1, <2>7, <3>1, <3>3, <3>4
  <2>10. CASE kind = "apply"
    <3>1. Round(s, half) = ApplyRound(s)
      BY <1>3, <2>10 DEF Round
    <3>2. CASE Len(w) # 1
      <4>1. ApplyRound(s) = MoveFirst(new, other)
        BY <2>1, <2>5, <3>2 DEF ApplyRound
      <4>2. Len(other.work_list) >= 1
        BY <2>1, <2>5
      <4> QED BY <1>1, <2>2, <2>7, <3>1, <4>1, <4>2
    <3>3. CASE Len(w) = 1 /\ MayOpen(w[1])
      <4>1. ApplyRound(s) = Split(new, other2, TRUE)
        BY <2>1, <3>3 DEF ApplyRound, other2
      <4>2. PICK m : m = Split(new, other2, TRUE)
        OBVIOUS
      <4>3. m.new = new /\ m.other = other2 /\ m.ok = TRUE
        BY <4>2 DEF Split
      <4>4. Halves(r, new, other2) /\ Len(other2.work_list) # 1
        BY <2>6, <2>10, <3>3
      <4>5. i <= 2 * new.work_size /\ Rounds(m) = 2 * new.work_size + 1
        BY <2>1, <2>2, <3>3, <4>3, <4>4 DEF Rounds
      <4>6. i + 1 <= Rounds(m)
        BY <4>5, <2>2
      <4> QED BY <1>1, <3>1, <4>1, <4>2, <4>3, <4>4, <4>6 DEF Sound
    <3>4. CASE Len(w) = 1 /\ ~MayOpen(w[1])
      <4>1. PICK o : o = [other EXCEPT !.splittable = FALSE]
        OBVIOUS
      <4>2. PICK m : m = Split(new, o, TRUE)
        OBVIOUS
      <4>3. ApplyRound(s) = m
        BY <2>1, <3>4, <4>1, <4>2 DEF ApplyRound
      <4>4. m.new = new /\ m.other = o /\ m.ok = TRUE
        BY <4>2 DEF Split
      <4>5. /\ o.work_list = other.work_list /\ o.work_size = other.work_size
            /\ o.vector_offset = other.vector_offset /\ o.splittable = FALSE
            /\ o \in RangeSet
        BY <2>2, <4>1 DEF RangeSet
      <4>6. Sized(o)
        BY <2>2, <4>5 DEF Sized
      <4>7. Halves(r, new, o)
        BY <2>2, <2>10, <4>5, <4>6 DEF Halves
      <4>8. Ended(m, half)
        BY <4>4, <4>5 DEF Ended
      <4> QED BY <1>1, <3>1, <4>3, <4>4, <4>7, <4>8 DEF Sound
    <3> QED BY <3>2, <3>3, <3>4
  <2> QED BY <2>8, <2>9, <2>10
<1> QED BY <1>2, <1>3

\* A splitting constructor ends with the work of the range shared, and none
\* of its assertions fails.
LEMMA SplitRangeFact ==
    ASSUME trie \subseteq Keys, kind \in {"accumulate", "apply", "hash"},
           NEW r, Sized(r), r.work_size >= 2,
           kind = "apply" => ListApart(r.work_list), kind # "apply" => r.splittable
    PROVE  LET s == SplitRange(r)
           IN  s.ok = TRUE /\ Halves(r, s.new, s.other) /\ Ended(s, r.work_size \div 2)
<1>1. PICK N, half : N = r.work_size /\ half = r.work_size \div 2
  OBVIOUS
<1>2. N \in Nat /\ r \in RangeSet /\ r.vector_offset \in Nat /\ ListOK(r.work_list)
  BY <1>1 DEF Sized, RangeSet
<1>3. PICK f : RunOf(r, f)
  BY <1>1, <1>2, RunFact
<1>4. SplitRange(r) = f[N] /\ f[0] = Begin(r) /\ \A i \in 0 .. N - 1 : f[i + 1] = Round(f[i], half)
  BY <1>1, <1>3 DEF RunOf
<1> DEFINE G == {i \in 0 .. N : Sound(r, f[i], i)}
<1>5. 0 \in G
  <2>1. PICK new : new = NewRange(<< >>, 0, r.vector_offset)
    OBVIOUS
  <2>2. new.work_list = << >> /\ new.work_size = 0 /\ new.vector_offset = r.vector_offset
        /\ new.splittable = TRUE
    BY <2>1 DEF NewRange
  <2>3. new \in RangeSet
    BY <2>1, <1>2 DEF NewRange, RangeSet
  <2>4. KeysOf(<< >>) = {} /\ ListOK(<< >>) /\ ListApart(<< >>)
    <3>1. << >> \in Seq(NodeSet(trie)) /\ \A i \in DOMAIN << >> : FALSE
      OBVIOUS
    <3> QED BY <3>1, ListFact DEF KeysOf, ListApart, InOrder
  <2>5. Sized(new)
    BY <2>2, <2>3, <2>4, FS_EmptySet DEF Sized
  <2>6. Apart({}, KeysOf(r.work_list))
    BY DEF Apart
  <2>7. r.vector_offset = r.vector_offset + 0
    BY <1>2
  <2>8. Halves(r, new, r)
    BY <2>2, <2>4, <2>5, <2>6, <2>7 DEF Halves
  <2>9. Begin(r).new = new /\ Begin(r).other = r /\ Begin(r).ok = TRUE
    BY <2>1 DEF Begin, Split
  <2>10. 0 <= Rounds(Begin(r))
    BY <2>2, <2>9 DEF Rounds
  <2>11. 0 \in 0 .. N
    BY <1>2
  <2> QED BY <2>8, <2>9, <2>10, <2>11, <1>4 DEF Sound
<1>6. ASSUME NEW i \in 0 .. N, i + 1 <= N, i \in G PROVE i + 1 \in G
  <2>1. i \in 0 .. N - 1 /\ i \in Nat /\ i + 1 \in 0 .. N
    BY <1>2, <1>6
  <2>2. f[i + 1] = Round(f[i], r.work_size \div 2) /\ Sound(r, f[i], i)
    BY <2>1, <1>1, <1>4, <1>6
  <2>3. Sound(r, f[i + 1], i + 1)
    BY <2>1, <2>2, RoundFact
  <2> QED BY <2>1, <2>3
<1>7. N \in G
  <2>1. 0 \in Nat /\ N \in 0 .. N
    BY <1>2
  <2> HIDE DEF G
  <2> QED BY <2>1, <1>2, <1>5, <1>6, RangeInduction
<1>8. PICK s : s = f[N]
  OBVIOUS
<1>9. s.ok = TRUE /\ Halves(r, s.new, s.other) /\ (Ended(s, half) \/ N <= Rounds(s))
  BY <1>1, <1>7, <1>8 DEF Sound
<1>10. ASSUME ~Ended(s, half) PROVE FALSE
  <2>1. PICK z : z = s.new.work_size
    OBVIOUS
  <2>2. z \in Nat /\ half \in Nat /\ 2 * half <= N /\ N \in Nat
    BY <1>1, <1>2, <1>9, <2>1, HalfFact DEF Halves, Sized, RangeSet
  <2>3. ~(z >= half)
    BY <1>10, <2>1 DEF Ended
  <2>4. N <= 2 * z + 1
    <3>1. N <= Rounds(s)
      BY <1>9, <1>10
    <3> QED BY <3>1, <2>1, <2>2 DEF Rounds
  <2> QED BY <2>2, <2>3, <2>4
<1> QED BY <1>1, <1>4, <1>8, <1>9, <1>10

LEMMA RangeFact ==
    ASSUME NEW r
    PROVE  RangeOK(r) <=> /\ Sized(r)
                          /\ kind = "accumulate" => Placed(KeysOf(r.work_list), r.vector_offset)
                          /\ kind = "apply" => ListApart(r.work_list)
                          /\ kind # "apply" => r.splittable
BY DEF RangeOK, Sized, RangeSet, NodeSet

\* What TBB gets when it divides a range.
LEMMA DivideFact ==
    ASSUME trie \subseteq Keys, kind \in {"accumulate", "apply", "hash"},
           NEW r, RangeOK(r), is_divisible(r), NEW s, s = SplitRange(r)
    PROVE  /\ s.ok = TRUE /\ Ended(s, r.work_size \div 2)
           /\ RangeOK(s.new) /\ RangeOK(s.other)
           /\ KeysOf(s.new.work_list) \cup KeysOf(s.other.work_list) = KeysOf(r.work_list)
           /\ KeysOf(s.new.work_list) \cap KeysOf(s.other.work_list) = {}
           /\ kind = "apply" => Apart(KeysOf(s.new.work_list), KeysOf(s.other.work_list))
<1>1. /\ Sized(r)
      /\ kind = "accumulate" => Placed(KeysOf(r.work_list), r.vector_offset)
      /\ kind = "apply" => ListApart(r.work_list)
      /\ kind # "apply" => r.splittable
  BY RangeFact
<1>2. r.work_size >= 2
  <2>1. r.work_size \in Nat
    BY <1>1 DEF Sized, RangeSet
  <2>2. r.work_size > GrainSize \/ r.work_size > HashGrain
    <3>1. CASE kind = "accumulate"
      BY <3>1 DEF is_divisible
    <3>2. CASE kind = "apply"
      BY <3>2 DEF is_divisible
    <3>3. CASE kind = "hash"
      BY <3>3 DEF is_divisible
    <3> QED BY <3>1, <3>2, <3>3
  <2> QED BY <2>1, <2>2, GrainAssumption
<1>3. s.ok = TRUE /\ Halves(r, s.new, s.other) /\ Ended(s, r.work_size \div 2)
  BY <1>1, <1>2, SplitRangeFact
<1>4. /\ KeysOf(s.new.work_list) \cap KeysOf(s.other.work_list) = {}
      /\ Placed(KeysOf(r.work_list), r.vector_offset) =>
            /\ Placed(KeysOf(s.new.work_list), s.new.vector_offset)
            /\ Placed(KeysOf(s.other.work_list), s.other.vector_offset)
  BY <1>1, <1>3, HalvesSum
<1>5. RangeOK(s.new) /\ RangeOK(s.other)
  BY <1>1, <1>3, <1>4, RangeFact DEF Halves
<1> QED BY <1>3, <1>4, <1>5 DEF Halves

-----------------------------------------------------------------------------
(* The inductive invariant *)

LEMMA RangesInit ==
    Init => RangesInv
<1> SUFFICES ASSUME Init PROVE RangesInv
  OBVIOUS
<1>1. /\ trie \subseteq Keys /\ kind = "none" /\ pool = {} /\ failed = FALSE
      /\ visited = [k \in Keys |-> 0]
  BY DEF Init
<1>2. PoolOK
  BY <1>1 DEF PoolOK
<1> QED BY <1>1, <1>2 DEF RangesInv, OutOK, SplitsDisjoint, AssertsHold

\* A range does not depend on the other variables.
LEMMA RangeSame ==
    ASSUME UNCHANGED <<trie, kind>>, NEW q
    PROVE  RangeOK(q)' <=> RangeOK(q)
<1>1. trie' = trie /\ kind' = kind
  OBVIOUS
<1>2. \A n : NodeOK(n)' <=> NodeOK(n)
  BY <1>1 DEF NodeOK, Node, Root
<1>3. \A w : ListOK(w)' <=> ListOK(w)
  BY <1>1, <1>2 DEF ListOK
<1>4. \A K, o : Placed(K, o)' <=> Placed(K, o)
  BY <1>1 DEF Placed, Rank, Before
<1> QED BY <1>1, <1>3, <1>4 DEF RangeOK, KeysOf, ListApart

LEMMA OneNode ==
    ASSUME NEW S, NEW n \in S, NEW w, w = <<n>>
    PROVE  w \in Seq(S) /\ DOMAIN w = {1} /\ w[1] = n
OBVIOUS

\* The whole trie, as the parallel_for of each kind gets it.
LEMMA WholeFact ==
    ASSUME trie \subseteq Keys, trie # {}, NEW kd, kd = "apply" => MaxSplitLen > 0,
           NEW w, w = IF kd = "hash" THEN <<Root>> ELSE Children(Root)
    PROVE  /\ w \in Seq(NodeSet(trie)) /\ InOrder(w) /\ KeysOf(w) = trie
           /\ \A i \in DOMAIN w : /\ w[i].keys \subseteq trie /\ w[i].keys # {}
                                  /\ w[i] = Node(w[i].keys) \/ (kd = "hash" /\ w[i] = Root)
           /\ kd = "apply" => ListApart(w)
<1>1. trie \in SUBSET Key /\ IsFiniteSet(trie) /\ Root = [keys |-> trie, len |-> 0]
      /\ 0 \in PrefixLen /\ 0 < KeyLen /\ Common(trie, 0)
  BY TrieFact, KeyLenAssumption DEF Root, PrefixLen, Common
<1>2. CASE kd = "hash"
  <2>1. Root \in NodeSet(trie) /\ Root.keys = trie
    BY <1>1 DEF NodeSet
  <2>2. PICK n : n = Root
    OBVIOUS
  <2>3. w = <<n>> /\ n \in NodeSet(trie) /\ n.keys = trie
    BY <1>2, <2>1, <2>2
  <2>4. w \in Seq(NodeSet(trie)) /\ DOMAIN w = {1} /\ w[1] = n
    BY <2>3, OneNode
  <2>5. InOrder(w)
    BY <2>4 DEF InOrder
  <2>6. KeysOf(w) = trie
    BY <2>3, <2>4 DEF KeysOf
  <2> QED BY <1>2, <2>2, <2>3, <2>4, <2>5, <2>6
<1>3. CASE kd # "hash"
  <2>1. /\ w \in Seq(NodeSet(trie))
        /\ \A i \in DOMAIN w : w[i] = Node(w[i].keys) /\ w[i].keys # {}
        /\ InOrder(w)
        /\ KeysOf(w) = trie
        /\ 0 < MaxSplitLen => ListApart(w)
    BY <1>1, <1>3, ChildrenFact
  <2>2. \A i \in DOMAIN w : w[i].keys \subseteq trie
    BY <2>1 DEF KeysOf
  <2>3. MaxSplitLen > 0 => 0 < MaxSplitLen
    BY SplitAssumption DEF PrefixLen
  <2> QED BY <2>1, <2>2, <2>3
<1> QED BY <1>2, <1>3

LEMMA RangesStart ==
    ASSUME RangesInv, NEW kd \in Kinds, "apply" \in Kinds => MaxSplitLen > 0, Start(kd)
    PROVE  RangesInv'
<1>1. /\ trie \subseteq Keys /\ kind = "none" /\ pool = {} /\ ~failed
  BY DEF RangesInv, Start, AssertsHold
<1>2. /\ trie' = trie /\ kind' = kd /\ failed' = failed
      /\ pool' = IF trie = {} THEN {} ELSE {WholeRange(kd)}
      /\ out' = [i \in 1 .. (IF kd = "accumulate" THEN Cardinality(trie) ELSE 0) |-> NoKey]
      /\ visited' = [k \in Keys |-> 0]
  BY DEF Start
<1>3. kd \in {"accumulate", "apply", "hash"}
  BY KindsAssumption
<1>4. PICK w : w = IF kd = "hash" THEN <<Root>> ELSE Children(Root)
  OBVIOUS
<1>5. ASSUME trie # {}
      PROVE  /\ w \in Seq(NodeSet(trie)) /\ InOrder(w) /\ KeysOf(w) = trie
             /\ \A i \in DOMAIN w : /\ w[i].keys \subseteq trie /\ w[i].keys # {}
                                    /\ w[i] = Node(w[i].keys) \/ (kd = "hash" /\ w[i] = Root)
             /\ kd = "apply" => ListApart(w)
  BY <1>1, <1>4, <1>5, WholeFact
<1>6. PICK r : r = WholeRange(kd)
  OBVIOUS
<1>7. /\ r = [work_list |-> w, work_size |-> Cardinality(trie), vector_offset |-> 0, splittable |-> TRUE]
      /\ r.work_list = w /\ r.work_size = Cardinality(trie) /\ r.vector_offset = 0 /\ r.splittable = TRUE
  BY <1>4, <1>6 DEF WholeRange, NewRange
<1>8. ASSUME trie # {} PROVE RangeOK(r)'
  <2>1. \A i \in DOMAIN w : NodeOK(w[i])'
    <3> SUFFICES ASSUME NEW i \in DOMAIN w PROVE NodeOK(w[i])'
      OBVIOUS
    <3>1. /\ w[i].keys \subseteq trie /\ w[i].keys # {}
          /\ w[i] = Node(w[i].keys) \/ (kd = "hash" /\ w[i] = Root)
      BY <1>5, <1>8
    <3> QED BY <3>1, <1>2 DEF NodeOK, Root, Node
  <2>2. ListOK(w)'
    BY <1>2, <1>5, <1>8, <2>1 DEF ListOK, NodeSet, InOrder
  <2>3. KeysOf(r.work_list) = trie
    BY <1>5, <1>7, <1>8
  <2>4. Placed(trie, 0)'
    <3>1. \A k \in trie : Rank(trie, k) \in Nat
      BY <1>1, TrieFact, RankFact
    <3>2. \A k \in trie : Rank(trie, k) = 0 + Rank(trie, k)
      BY <3>1
    <3> QED BY <3>2, <1>2 DEF Placed, Rank, Before
  <2>5. Cardinality(trie) \in Nat
    BY <1>1, TrieFact
  <2>6. (r \in [work_list : Seq([keys : SUBSET trie, len : PrefixLen]), work_size : Nat,
                vector_offset : Nat, splittable : BOOLEAN])'
    BY <1>2, <1>5, <1>7, <1>8, <2>5 DEF NodeSet
  <2> QED BY <1>2, <1>5, <1>7, <1>8, <2>2, <2>3, <2>4, <2>6 DEF RangeOK
<1>9. \A q \in pool' : q = r /\ trie # {} /\ KeysOf(q.work_list) = trie
  BY <1>2, <1>5, <1>6, <1>7
<1>10. PoolOK'
  <2>1. \A k \in Keys : visited'[k] = 0
    BY <1>2
  <2>2. ASSUME NEW k \in trie PROVE \E q \in pool' : k \in KeysOf(q.work_list)
    <3>1. r \in pool'
      BY <1>2, <1>6
    <3> QED BY <3>1, <1>9
  <2>3. \A q, s \in pool' : q = s
    BY <1>9
  <2> QED BY <2>1, <2>2, <2>3, <1>2 DEF PoolOK
<1>11. OutOK'
  <2> SUFFICES ASSUME kd = "accumulate"
               PROVE  /\ DOMAIN out' = 1 .. Cardinality(trie') /\ out' = [i \in DOMAIN out' |-> out'[i]]
                      /\ \A k \in trie' : visited'[k] = 1 => out'[Rank(trie', k) + 1] = k
    BY <1>2 DEF OutOK
  <2>1. \A k \in trie : visited'[k] = 0
    BY <1>1, <1>2
  <2>2. out' = [i \in 1 .. Cardinality(trie) |-> NoKey]
    BY <1>2
  <2> QED BY <2>1, <2>2, <1>2
<1>12. SplitsDisjoint'
  BY <1>9 DEF SplitsDisjoint
<1>13. AssertsHold'
  BY <1>1, <1>2 DEF AssertsHold
<1>14. \A q \in pool' : RangeOK(q)'
  BY <1>8, <1>9
<1>15. trie' \subseteq Keys /\ kind' \in Kinds \cup {"none"} /\ (kind' = "none" => pool' = {})
  BY <1>1, <1>2, <1>3
<1> QED BY <1>10, <1>11, <1>12, <1>13, <1>14, <1>15 DEF RangesInv

LEMMA RangesFinish ==
    ASSUME RangesInv, Finish
    PROVE  RangesInv'
<1>1. /\ trie \subseteq Keys /\ pool' = {} /\ ~failed'
      /\ trie' = trie /\ kind' = "none" /\ visited' = [k \in Keys |-> 0]
  BY DEF RangesInv, Finish, AssertsHold
<1>2. PoolOK'
  BY <1>1 DEF PoolOK
<1> QED BY <1>1, <1>2 DEF RangesInv, OutOK, SplitsDisjoint, AssertsHold

LEMMA RangesDivide ==
    ASSUME RangesInv, NEW r \in pool, Divide(r)
    PROVE  RangesInv'
<1>1. /\ trie \subseteq Keys /\ kind \in Kinds \cup {"none"} /\ (kind = "none" => pool = {})
      /\ \A q \in pool : RangeOK(q)
      /\ PoolOK /\ OutOK /\ SplitsDisjoint /\ ~failed
  BY DEF RangesInv, AssertsHold
<1>2. kind # "none" /\ kind \in {"accumulate", "apply", "hash"}
  BY <1>1, KindsAssumption
<1>3. PICK s, a, b : s = SplitRange(r) /\ a = s.new /\ b = s.other
  OBVIOUS
<1>4. /\ is_divisible(r)
      /\ pool' = (pool \ {r}) \cup {a, b}
      /\ failed' = (failed \/ ~s.ok \/ ~Ended(s, r.work_size \div 2))
      /\ trie' = trie /\ kind' = kind /\ out' = out /\ visited' = visited
  BY <1>3 DEF Divide
<1>5. PICK A, B, R : A = KeysOf(a.work_list) /\ B = KeysOf(b.work_list) /\ R = KeysOf(r.work_list)
  OBVIOUS
<1>6. /\ s.ok = TRUE /\ Ended(s, r.work_size \div 2)
      /\ RangeOK(a) /\ RangeOK(b)
      /\ A \cup B = R /\ A \cap B = {}
      /\ kind = "apply" => Apart(A, B)
  BY <1>1, <1>2, <1>3, <1>4, <1>5, DivideFact
<1>7. \A q \in pool' : q = a \/ q = b \/ (q \in pool /\ q # r)
  BY <1>4
<1>8. \A q \in pool' : RangeOK(q)'
  BY <1>1, <1>4, <1>6, <1>7, RangeSame
<1>9. \A q \in pool : q # r => KeysOf(q.work_list) \cap R = {}
  BY <1>1, <1>5 DEF PoolOK
<1>10. PoolOK'
  <2>1. ASSUME NEW p \in pool', NEW q \in pool', p # q
        PROVE  KeysOf(p.work_list) \cap KeysOf(q.work_list) = {}
    <3>1. CASE p \in pool /\ p # r /\ q \in pool /\ q # r
      BY <2>1, <3>1, <1>1 DEF PoolOK
    <3>2. CASE p \in {a, b} /\ q \in pool /\ q # r
      <4>1. KeysOf(p.work_list) \subseteq R
        BY <3>2, <1>5, <1>6
      <4> QED BY <4>1, <3>2, <1>9
    <3>3. CASE q \in {a, b} /\ p \in pool /\ p # r
      <4>1. KeysOf(q.work_list) \subseteq R
        BY <3>3, <1>5, <1>6
      <4> QED BY <4>1, <3>3, <1>9
    <3>4. CASE p \in {a, b} /\ q \in {a, b}
      BY <2>1, <3>4, <1>5, <1>6
    <3> QED BY <3>1, <3>2, <3>3, <3>4, <1>7
  <2>2. ASSUME NEW k \in Keys, visited[k] = 1
        PROVE  k \in trie /\ \A q \in pool' : k \notin KeysOf(q.work_list)
    <3>1. k \in trie /\ \A q \in pool : k \notin KeysOf(q.work_list)
      BY <2>2, <1>1 DEF PoolOK
    <3>2. k \notin A /\ k \notin B
      BY <3>1, <1>5, <1>6
    <3> QED BY <3>1, <3>2, <1>5, <1>7
  <2>3. ASSUME NEW k \in Keys, visited[k] = 0, k \in trie
        PROVE  \E q \in pool' : k \in KeysOf(q.work_list)
    <3>1. PICK q \in pool : k \in KeysOf(q.work_list)
      BY <2>3, <1>1, <1>2 DEF PoolOK
    <3>2. CASE q = r
      <4>1. k \in A \/ k \in B
        BY <3>1, <3>2, <1>5, <1>6
      <4>2. a \in pool' /\ b \in pool'
        BY <1>4
      <4> QED BY <4>1, <4>2, <1>5
    <3>3. CASE q # r
      BY <3>1, <3>3, <1>4
    <3> QED BY <3>2, <3>3
  <2>4. \A k \in Keys : visited[k] \in {0, 1}
    BY <1>1 DEF PoolOK
  <2> QED BY <2>1, <2>2, <2>3, <2>4, <1>4 DEF PoolOK
<1>11. OutOK'
  BY <1>1, <1>4 DEF OutOK, Rank, Before
<1>12. SplitsDisjoint'
  <2> SUFFICES ASSUME kind = "apply", NEW p \in pool', NEW q \in pool', p # q,
                      NEW x \in KeysOf(p.work_list), NEW y \in KeysOf(q.work_list)
               PROVE  Truncate(x, MaxSplitLen) # Truncate(y, MaxSplitLen)
    BY <1>4 DEF SplitsDisjoint
  <2>1. \A m, n \in pool : m # n =>
           \A j \in KeysOf(m.work_list), k \in KeysOf(n.work_list) :
              Truncate(j, MaxSplitLen) # Truncate(k, MaxSplitLen)
    BY <1>1 DEF SplitsDisjoint
  <2>2. \A j \in A, k \in B : Truncate(j, MaxSplitLen) # Truncate(k, MaxSplitLen)
    BY <1>6 DEF Apart
  <2>3. CASE p \in pool /\ p # r /\ q \in pool /\ q # r
    BY <2>1, <2>3
  <2>4. CASE p \in {a, b} /\ q \in pool /\ q # r
    <3>1. x \in R
      BY <2>4, <1>5, <1>6
    <3> QED BY <3>1, <2>1, <2>4, <1>5
  <2>5. CASE q \in {a, b} /\ p \in pool /\ p # r
    <3>1. y \in R
      BY <2>5, <1>5, <1>6
    <3> QED BY <3>1, <2>1, <2>5, <1>5
  <2>6. CASE p \in {a, b} /\ q \in {a, b}
    BY <2>2, <2>6, <1>5
  <2> QED BY <2>3, <2>4, <2>5, <2>6, <1>7
<1>13. AssertsHold'
  BY <1>1, <1>4, <1>6 DEF AssertsHold
<1>14. trie' \subseteq Keys /\ kind' \in Kinds \cup {"none"} /\ (kind' = "none" => pool' = {})
  BY <1>1, <1>2, <1>4
<1> QED BY <1>8, <1>10, <1>11, <1>12, <1>13, <1>14 DEF RangesInv

\* A worker visits each key of its range once, and accumulate writes it where
\* its place in the order of the trie is.
LEMMA WritesFact ==
    ASSUME trie \subseteq Keys, NEW r, RangeOK(r)
    PROVE  /\ \A k : Cardinality({q \in DOMAIN r.work_list : k \in r.work_list[q].keys})
                     = IF k \in KeysOf(r.work_list) THEN 1 ELSE 0
           /\ kind = "accumulate" =>
                 Writes(r) = {[at |-> Rank(trie, k) + 1, key |-> k] : k \in KeysOf(r.work_list)}
<1>1. PICK w : w = r.work_list
  OBVIOUS
<1>2. /\ w \in Seq(NodeSet(trie)) /\ InOrder(w) /\ r.vector_offset \in Nat
      /\ ListOK(w) /\ (kind = "accumulate" => Placed(KeysOf(w), r.vector_offset))
  BY <1>1, RangeFact, ListFact DEF Sized, RangeSet
<1>3. trie \in SUBSET Key /\ IsFiniteSet(trie)
  BY TrieFact
<1>4. ASSUME NEW q \in DOMAIN w, NEW k \in w[q].keys
      PROVE  /\ Advance(w, q) + Place(w[q], k) = Rank(KeysOf(w), k)
             /\ k \in KeysOf(w)
             /\ \A p \in DOMAIN w : k \in w[p].keys => p = q
  BY <1>2, <1>3, ListPlace
<1>5. ASSUME NEW k
      PROVE  Cardinality({q \in DOMAIN w : k \in w[q].keys}) = IF k \in KeysOf(w) THEN 1 ELSE 0
  <2>1. CASE k \in KeysOf(w)
    <3>1. PICK q \in DOMAIN w : k \in w[q].keys
      BY <2>1 DEF KeysOf
    <3>2. {p \in DOMAIN w : k \in w[p].keys} = {q}
      BY <3>1, <1>4
    <3> QED BY <2>1, <3>2, FS_Singleton
  <2>2. CASE k \notin KeysOf(w)
    <3>1. {p \in DOMAIN w : k \in w[p].keys} = {}
      BY <2>2 DEF KeysOf
    <3> QED BY <2>2, <3>1, FS_EmptySet
  <2> QED BY <2>1, <2>2
<1>6. ASSUME kind = "accumulate"
      PROVE  Writes(r) = {[at |-> Rank(trie, k) + 1, key |-> k] : k \in KeysOf(w)}
  <2>1. ASSUME NEW q \in DOMAIN w, NEW k \in w[q].keys
        PROVE  r.vector_offset + Advance(w, q) + Place(w[q], k) + 1 = Rank(trie, k) + 1
    <3>1. Advance(w, q) + Place(w[q], k) = Rank(KeysOf(w), k) /\ k \in KeysOf(w)
      BY <1>4
    <3>2. Rank(trie, k) = r.vector_offset + Rank(KeysOf(w), k)
      BY <1>2, <1>6, <3>1 DEF Placed
    <3>3. Advance(w, q) \in Nat
      <4>1. Advance(w, q) = Cardinality(Part(w, 1, q - 1))
        BY <1>2, <1>3, AdvanceFact
      <4>2. 1 \in Nat /\ 1 >= 1 /\ q - 1 \in Nat /\ q - 1 <= Len(w)
        BY <1>2
      <4>3. IsFiniteSet(Part(w, 1, q - 1))
        BY <1>2, <1>3, <4>2, PartFacts
      <4> QED BY <4>1, <4>3, FS_CardinalityType
    <3>4. Place(w[q], k) \in Nat
      <4>1. w[q].keys \in SUBSET Key /\ IsFiniteSet(w[q].keys)
        BY <1>2, ListKeys
      <4>2. Place(w[q], k) = Rank(w[q].keys, k)
        BY <4>1, PlaceFact
      <4> QED BY <4>1, <4>2, RankFact
    <3> QED BY <3>1, <3>2, <3>3, <3>4, <1>2
  <2>2. Writes(r) = UNION {{[at |-> Rank(trie, k) + 1, key |-> k] : k \in w[q].keys} : q \in DOMAIN w}
    BY <1>1, <2>1 DEF Writes
  <2> QED BY <2>2 DEF KeysOf
<1> QED BY <1>1, <1>5, <1>6

LEMMA RangesExecute ==
    ASSUME RangesInv, NEW r \in pool, Execute(r)
    PROVE  RangesInv'
<1>1. /\ trie \subseteq Keys /\ kind \in Kinds \cup {"none"} /\ (kind = "none" => pool = {})
      /\ \A q \in pool : RangeOK(q)
      /\ PoolOK /\ OutOK /\ SplitsDisjoint /\ ~failed
  BY DEF RangesInv, AssertsHold
<1>2. /\ pool' = pool \ {r} /\ trie' = trie /\ kind' = kind /\ failed' = failed
      /\ out' = [i \in DOMAIN out |->
                    IF \E x \in Writes(r) : x.at = i
                    THEN (CHOOSE x \in Writes(r) : x.at = i).key ELSE out[i]]
      /\ visited' = [k \in Keys |->
                        visited[k] + Cardinality({q \in DOMAIN r.work_list :
                                                     k \in r.work_list[q].keys})]
  BY DEF Execute
<1>3. PICK R : R = KeysOf(r.work_list)
  OBVIOUS
<1>4. /\ \A k : Cardinality({q \in DOMAIN r.work_list : k \in r.work_list[q].keys})
                = IF k \in R THEN 1 ELSE 0
      /\ kind = "accumulate" => Writes(r) = {[at |-> Rank(trie, k) + 1, key |-> k] : k \in R}
  BY <1>1, <1>3, WritesFact
<1>5. R \in SUBSET trie
  <2>1. ListOK(r.work_list)
    BY <1>1 DEF RangeOK
  <2> QED BY <1>1, <1>3, <2>1, ListKeys
<1>6. \A k \in Keys : /\ visited[k] \in {0, 1}
                      /\ visited'[k] = visited[k] + (IF k \in R THEN 1 ELSE 0)
                      /\ k \in R => visited[k] = 0
  BY <1>1, <1>2, <1>3, <1>4 DEF PoolOK
<1>7. \A k \in Keys : /\ visited'[k] \in {0, 1}
                      /\ visited'[k] = 1 <=> visited[k] = 1 \/ k \in R
  BY <1>6
<1>8. \A q \in pool' : RangeOK(q)'
  BY <1>1, <1>2, RangeSame
<1>9. PoolOK'
  <2>1. \A p, q \in pool' : p # q => KeysOf(p.work_list) \cap KeysOf(q.work_list) = {}
    BY <1>1, <1>2 DEF PoolOK
  <2>2. ASSUME NEW k \in Keys, visited'[k] = 1
        PROVE  k \in trie /\ \A q \in pool' : k \notin KeysOf(q.work_list)
    <3>1. CASE visited[k] = 1
      BY <3>1, <1>1, <1>2 DEF PoolOK
    <3>2. CASE k \in R
      BY <3>2, <1>1, <1>2, <1>3, <1>5 DEF PoolOK
    <3> QED BY <2>2, <1>7, <3>1, <3>2
  <2>3. ASSUME NEW k \in Keys, visited'[k] = 0, k \in trie, kind # "none"
        PROVE  \E q \in pool' : k \in KeysOf(q.work_list)
    <3>1. k \notin R /\ visited[k] = 0
      BY <2>3, <1>6, <1>7
    <3>2. PICK q \in pool : k \in KeysOf(q.work_list)
      BY <2>3, <3>1, <1>1 DEF PoolOK
    <3> QED BY <3>1, <3>2, <1>2, <1>3
  <2> QED BY <2>1, <2>2, <2>3, <1>2, <1>7 DEF PoolOK
<1>10. OutOK'
  <2> SUFFICES ASSUME kind = "accumulate"
               PROVE  /\ DOMAIN out' = 1 .. Cardinality(trie) /\ out' = [i \in DOMAIN out' |-> out'[i]]
                      /\ \A k \in trie : visited'[k] = 1 => out'[Rank(trie, k) + 1] = k
    BY <1>2 DEF OutOK, Rank, Before
  <2>1. /\ DOMAIN out = 1 .. Cardinality(trie)
        /\ \A k \in trie : visited[k] = 1 => out[Rank(trie, k) + 1] = k
    BY <1>1 DEF OutOK
  <2>2. trie \in SUBSET Key /\ IsFiniteSet(trie) /\ Cardinality(trie) \in Nat
    BY <1>1, TrieFact
  <2>3. \A k \in trie : Rank(trie, k) \in Nat /\ Rank(trie, k) + 1 \in DOMAIN out
    BY <2>1, <2>2, RankFact
  <2>4. \A j, k \in trie : Rank(trie, j) + 1 = Rank(trie, k) + 1 => j = k
    BY <2>2, <2>3, RankInjective
  <2>5. Writes(r) = {[at |-> Rank(trie, k) + 1, key |-> k] : k \in R}
    BY <1>4
  <2>6. \A x \in Writes(r) : x.key \in R /\ x.at = Rank(trie, x.key) + 1
    BY <2>5
  <2>7. ASSUME NEW k \in trie, visited'[k] = 1 PROVE out'[Rank(trie, k) + 1] = k
    <3>1. PICK i : i = Rank(trie, k) + 1 /\ i \in DOMAIN out
      BY <2>3
    <3>2. out'[i] = IF \E x \in Writes(r) : x.at = i
                    THEN (CHOOSE x \in Writes(r) : x.at = i).key ELSE out[i]
      BY <1>2, <3>1
    <3>3. \A x \in Writes(r) : x.at = i => x.key = k
      BY <2>4, <2>6, <3>1, <1>5
    <3>4. CASE \E x \in Writes(r) : x.at = i
      <4>1. PICK x \in Writes(r) : x = (CHOOSE y \in Writes(r) : y.at = i) /\ x.at = i
        BY <3>4
      <4> QED BY <4>1, <3>1, <3>2, <3>3, <3>4
    <3>5. CASE ~(\E x \in Writes(r) : x.at = i)
      <4>1. k \notin R
        <5>1. k \in R => [at |-> Rank(trie, k) + 1, key |-> k] \in Writes(r)
          BY <2>5
        <5> QED BY <5>1, <3>1, <3>5
      <4>2. visited[k] = 1
        BY <4>1, <2>7, <1>1, <1>7
      <4> QED BY <4>2, <3>1, <3>2, <3>5, <2>1
    <3> QED BY <3>4, <3>5
  <2>8. DOMAIN out' = DOMAIN out /\ out' = [i \in DOMAIN out' |-> out'[i]]
    BY <1>2
  <2> QED BY <2>1, <2>7, <2>8
<1>11. SplitsDisjoint'
  BY <1>1, <1>2 DEF SplitsDisjoint
<1>12. trie' \subseteq Keys /\ kind' \in Kinds \cup {"none"} /\ (kind' = "none" => pool' = {}) /\ AssertsHold'
  BY <1>1, <1>2 DEF AssertsHold
<1> QED BY <1>8, <1>9, <1>10, <1>11, <1>12 DEF RangesInv

LEMMA RangesStutter ==
    ASSUME RangesInv, UNCHANGED vars
    PROVE  RangesInv'
<1>1. /\ trie' = trie /\ kind' = kind /\ pool' = pool /\ out' = out /\ visited' = visited
      /\ failed' = failed
  BY DEF vars
<1>2. \A q \in pool' : RangeOK(q)'
  BY <1>1, RangeSame DEF RangesInv
<1>3. PoolOK' /\ SplitsDisjoint'
  BY <1>1 DEF RangesInv, PoolOK, SplitsDisjoint
<1>4. OutOK'
  BY <1>1 DEF RangesInv, OutOK, Rank, Before
<1> QED BY <1>1, <1>2, <1>3, <1>4 DEF RangesInv, AssertsHold

\* What is left to do and what was done are the keys of the trie, each once.
LEMMA InvPartition ==
    ASSUME RangesInv
    PROVE  Partition
<1> SUFFICES ASSUME kind # "none"
             PROVE  /\ \A r \in pool : r.work_size = Cardinality(KeysOf(r.work_list))
                    /\ \A k \in Keys :
                          visited[k] + Cardinality({ri \in UNION {{r} \X DOMAIN r.work_list : r \in pool} :
                                                        k \in ri[1].work_list[ri[2]].keys})
                              = IF k \in trie THEN 1 ELSE 0
  BY DEF Partition
<1>1. trie \subseteq Keys /\ PoolOK /\ \A r \in pool : RangeOK(r)
  BY DEF RangesInv
<1>2. \A r \in pool : r.work_size = Cardinality(KeysOf(r.work_list))
  BY <1>1 DEF RangeOK
<1>3. ASSUME NEW k \in Keys
      PROVE  visited[k] + Cardinality({ri \in UNION {{r} \X DOMAIN r.work_list : r \in pool} :
                                           k \in ri[1].work_list[ri[2]].keys})
             = IF k \in trie THEN 1 ELSE 0
  <2> DEFINE P == {ri \in UNION {{r} \X DOMAIN r.work_list : r \in pool} :
                      k \in ri[1].work_list[ri[2]].keys}
  <2>1. \A ri : ri \in P <=> \E r \in pool : \E q \in DOMAIN r.work_list :
                                ri = <<r, q>> /\ k \in r.work_list[q].keys
    OBVIOUS
  <2> HIDE DEF P
  <2>2. visited[k] \in {0, 1}
    BY <1>1 DEF PoolOK
  <2>3. CASE \E r \in pool : k \in KeysOf(r.work_list)
    <3>1. PICK r \in pool : k \in KeysOf(r.work_list)
      BY <2>3
    <3>2. PICK q \in DOMAIN r.work_list : k \in r.work_list[q].keys
      BY <3>1 DEF KeysOf
    <3>3. \A s \in pool : k \in KeysOf(s.work_list) => s = r
      BY <3>1, <1>1 DEF PoolOK
    <3>4. ListOK(r.work_list)
      BY <1>1 DEF RangeOK
    <3>5. \A p \in DOMAIN r.work_list : k \in r.work_list[p].keys => p = q
      <4>1. r.work_list \in Seq(NodeSet(trie)) /\ InOrder(r.work_list)
        BY <3>4, ListFact
      <4> QED BY <4>1, <3>2, <1>1, TrieFact, ListPlace
    <3>6. P = {<<r, q>>}
      BY <2>1, <3>2, <3>3, <3>5 DEF KeysOf
    <3>7. k \in trie
      BY <3>1, <3>4, <1>1, ListKeys
    <3>8. visited[k] = 0
      BY <3>1, <2>2, <1>1 DEF PoolOK
    <3>9. Cardinality(P) = 1
      BY <3>6, FS_Singleton
    <3> QED BY <3>7, <3>8, <3>9 DEF P
  <2>4. CASE ~(\E r \in pool : k \in KeysOf(r.work_list))
    <3>1. P = {}
      BY <2>1, <2>4 DEF KeysOf
    <3>2. Cardinality(P) = 0
      BY <3>1, FS_EmptySet
    <3>3. visited[k] = IF k \in trie THEN 1 ELSE 0
      BY <2>2, <2>4, <1>1 DEF PoolOK
    <3> QED BY <3>2, <3>3 DEF P
  <2> QED BY <2>3, <2>4
<1> QED BY <1>2, <1>3

\* At the end the vector holds the keys in their order.
LEMMA InvSorted ==
    ASSUME RangesInv
    PROVE  VectorSorted
<1> SUFFICES ASSUME kind = "accumulate", pool = {}
             PROVE  /\ {out[i] : i \in DOMAIN out} = trie
                    /\ \A i \in 1 .. Len(out) - 1 : LexBefore(out[i], out[i + 1])
  BY DEF VectorSorted
<1>1. trie \subseteq Keys /\ PoolOK /\ OutOK
  BY DEF RangesInv
<1>2. PICK N : N = Cardinality(trie)
  OBVIOUS
<1>3. trie \in SUBSET Key /\ IsFiniteSet(trie) /\ N \in Nat
  BY <1>1, <1>2, TrieFact
<1>4. /\ \A k \in trie : Rank(trie, k) \in 0 .. N - 1
      /\ \A j, k \in trie : LexBefore(j, k) => Rank(trie, j) < Rank(trie, k)
      /\ \A i \in 0 .. N - 1 : \E k \in trie : Rank(trie, k) = i
  BY <1>2, <1>3, RankFact
<1>5. \A k \in trie : visited[k] = 1
  BY <1>1 DEF PoolOK
<1>6. /\ DOMAIN out = 1 .. N /\ out = [i \in DOMAIN out |-> out[i]]
      /\ \A k \in trie : out[Rank(trie, k) + 1] = k
  BY <1>1, <1>2, <1>5 DEF OutOK
<1>7. ASSUME NEW i \in 1 .. N PROVE out[i] \in trie /\ Rank(trie, out[i]) = i - 1
  <2>1. i - 1 \in 0 .. N - 1 /\ (i - 1) + 1 = i
    BY <1>3
  <2>2. PICK k \in trie : Rank(trie, k) = i - 1
    BY <2>1, <1>4
  <2>3. out[i] = k
    BY <2>1, <2>2, <1>6
  <2> QED BY <2>2, <2>3
<1>8. {out[i] : i \in DOMAIN out} = trie
  <2>1. ASSUME NEW k \in trie PROVE \E i \in DOMAIN out : out[i] = k
    <3>1. Rank(trie, k) + 1 \in 1 .. N
      BY <1>3, <1>4
    <3> QED BY <3>1, <1>6
  <2> QED BY <2>1, <1>6, <1>7
<1>9. Len(out) = N
  <2>1. out \in Seq(trie)
    <3>1. out = [i \in 1 .. N |-> out[i]]
      BY <1>6
    <3> QED BY <3>1, <1>3, <1>7
  <2> QED BY <2>1, <1>3, <1>6
<1>10. ASSUME NEW i \in 1 .. N - 1 PROVE LexBefore(out[i], out[i + 1])
  <2>1. i \in 1 .. N /\ i + 1 \in 1 .. N /\ i \in Nat
    BY <1>3
  <2>2. PICK j, k : j = out[i] /\ k = out[i + 1]
    OBVIOUS
  <2>3. j \in trie /\ k \in trie /\ Rank(trie, j) = i - 1 /\ Rank(trie, k) = (i + 1) - 1
    BY <2>1, <2>2, <1>7
  <2>4. j # k /\ ~LexBefore(k, j)
    BY <2>1, <2>3, <1>4
  <2>5. j \in Key /\ k \in Key
    BY <2>3, <1>3
  <2>6. LexBefore(j, k)
    BY <2>4, <2>5, LexTotal
  <2> QED BY <2>2, <2>6
<1> QED BY <1>8, <1>9, <1>10

\* However TBB divides the ranges over a finished ephemeral trie and executes
\* them, for every trie, grain size and max_split_len: the ranges and what was
\* visited partition the keys, accumulate_values_parallel fills the vector in
\* order, the workers of parallel_batch_value_modify stay in different subtries
\* of length max_split_len, no assertion of a splitting constructor fails and
\* every splitting constructor ends.  The children of the root are handed out
\* without a test of its length, hence the condition on max_split_len.
THEOREM RangesShareWork ==
    ASSUME "apply" \in Kinds => MaxSplitLen > 0
    PROVE  Spec => []WorkPartitioned
<1>1. Init => RangesInv
  BY RangesInit
<1>2. RangesInv /\ [Next]_vars => RangesInv'
  <2> SUFFICES ASSUME RangesInv, [Next]_vars PROVE RangesInv'
    OBVIOUS
  <2>1. ASSUME NEW kd \in Kinds, Start(kd) PROVE RangesInv'
    BY <2>1, RangesStart
  <2>2. ASSUME NEW r \in pool, Divide(r) PROVE RangesInv'
    BY <2>2, RangesDivide
  <2>3. ASSUME NEW r \in pool, Execute(r) PROVE RangesInv'
    BY <2>3, RangesExecute
  <2>4. CASE Finish
    BY <2>4, RangesFinish
  <2>5. CASE UNCHANGED vars
    BY <2>5, RangesStutter
  <2> QED BY <2>1, <2>2, <2>3, <2>4, <2>5 DEF Next
<1>3. RangesInv => WorkPartitioned
  <2> SUFFICES ASSUME RangesInv PROVE WorkPartitioned
    OBVIOUS
  <2>1. Partition /\ VectorSorted
    BY InvPartition, InvSorted
  <2> QED BY <2>1 DEF RangesInv, WorkPartitioned
<1> QED BY <1>1, <1>2, <1>3, PTL DEF Spec

=============================================================================
