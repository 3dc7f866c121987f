------------------------- MODULE TriePrefixTheorems -------------------------
(***************************************************************************)
(* Facts about prefixes, tries of nodes and their digests, for keys of     *)
(* every length and every branching.                                       *)
(***************************************************************************)
EXTENDS TrieShapes, TrieDigest, TLAPS, NaturalsInduction, WellFoundedInduction

\* Every set of naturals that is not empty has a least element.
LEMMA LeastNat ==
    ASSUME NEW S \in SUBSET Nat, S # {}
    PROVE  \E m \in S : \A n \in S : m <= n
<1> DEFINE R == {ss \in Nat \X Nat : ss[1] < ss[2]}
<1>1. IsWellFoundedOn(R, Nat)
  BY NatLessThanWellFounded DEF OpToRel
<1>2. \E x \in S : \A y \in S : ~ (<<y, x>> \in R)
  <2> HIDE DEF R
  <2> QED BY <1>1, WFMin
<1>3. PICK x \in S : \A y \in S : ~ (<<y, x>> \in R)
  BY <1>2
<1>4. \A y \in S : ~ (y < x)
  BY <1>3
<1> QED BY <1>4

\* FirstDifference of two different keys is the position before the first
\* digit on which they differ.
LEMMA FirstDifferenceFact ==
    ASSUME NEW p \in Key, NEW q \in Key
    PROVE  /\ FirstDifference(p, q) \in PrefixLen
           /\ \A i \in 1 .. FirstDifference(p, q) : p[i] = q[i]
           /\ FirstDifference(p, q) < KeyLen =>
                p[FirstDifference(p, q) + 1] # q[FirstDifference(p, q) + 1]
<1>1. CASE p = q
  BY <1>1, KeyLenAssumption DEF FirstDifference, PrefixLen
<1>2. CASE p # q
  <2> DEFINE D == {i \in 1 .. KeyLen : p[i] # q[i]}
  <2>1. D # {}
    <3>1. SUFFICES ASSUME D = {} PROVE FALSE
      OBVIOUS
    <3>2. \A i \in 1 .. KeyLen : p[i] = q[i]
      BY <3>1
    <3>3. p = q
      <4>1. /\ p = [i \in 1 .. KeyLen |-> p[i]]
            /\ q = [i \in 1 .. KeyLen |-> q[i]]
        BY Zenon DEF Key
      <4>2. [i \in 1 .. KeyLen |-> p[i]] = [i \in 1 .. KeyLen |-> q[i]]
        BY <3>2, Zenon
      <4> QED BY <4>1, <4>2, Zenon
    <3> QED BY <3>3, <1>2
  <2>2. PICK m \in D : \A n \in D : m <= n
    <3>1. D \in SUBSET Nat
      BY KeyLenAssumption
    <3> QED BY <2>1, <3>1, LeastNat
  <2> DEFINE P(d) == /\ p[d + 1] # q[d + 1]
                     /\ \A i \in 1 .. d : p[i] = q[i]
  <2>3. m - 1 \in 0 .. KeyLen - 1 /\ P(m - 1)
    BY <2>2, KeyLenAssumption
  <2>4. FirstDifference(p, q) = CHOOSE d \in 0 .. KeyLen - 1 : P(d)
    BY <1>2 DEF FirstDifference
  <2>5. FirstDifference(p, q) \in 0 .. KeyLen - 1 /\ P(FirstDifference(p, q))
    <3> HIDE DEF P
    <3> QED BY <2>3, <2>4
  <2> QED BY <2>5, KeyLenAssumption DEF PrefixLen
<1> QED BY <1>1, <1>2

\* get_prefix_match_len returns the length of the longest common prefix.
THEOREM MatchLenFact ==
    ASSUME NEW p \in Key, NEW q \in Key,
           NEW a \in PrefixLen, NEW b \in PrefixLen
    PROVE  /\ MatchLen(p, a, q, b) \in PrefixLen
           /\ MatchLen(p, a, q, b) <= a
           /\ MatchLen(p, a, q, b) <= b
           /\ \A i \in 1 .. MatchLen(p, a, q, b) : p[i] = q[i]
           /\ \A m \in PrefixLen :
                /\ m <= a
                /\ m <= b
                /\ \A i \in 1 .. m : p[i] = q[i]
                => m <= MatchLen(p, a, q, b)
           /\ MatchLen(p, a, q, b) < a /\ MatchLen(p, a, q, b) < b =>
                p[MatchLen(p, a, q, b) + 1] # q[MatchLen(p, a, q, b) + 1]
<1> DEFINE f == FirstDifference(p, q)
<1> DEFINE M == MatchLen(p, a, q, b)
<1>1. /\ f \in PrefixLen
      /\ \A i \in 1 .. f : p[i] = q[i]
      /\ f < KeyLen => p[f + 1] # q[f + 1]
  BY FirstDifferenceFact
<1>2. M = IF f <= (IF a <= b THEN a ELSE b) THEN f ELSE IF a <= b THEN a ELSE b
  BY DEF MatchLen, min
<1> HIDE DEF f, M
<1>3. M \in PrefixLen /\ M <= a /\ M <= b /\ M <= f
  BY <1>1, <1>2, KeyLenAssumption DEF PrefixLen
<1>4. \A i \in 1 .. M : p[i] = q[i]
  BY <1>1, <1>3, KeyLenAssumption DEF PrefixLen
<1>5. ASSUME NEW m \in PrefixLen, m <= a, m <= b, \A i \in 1 .. m : p[i] = q[i]
      PROVE  m <= M
  <2>1. ~ (f + 1 <= m)
    BY <1>1, <1>5, KeyLenAssumption DEF PrefixLen
  <2> QED BY <2>1, <1>1, <1>2, <1>5, KeyLenAssumption DEF PrefixLen
<1>6. M < a /\ M < b => p[M + 1] # q[M + 1]
  BY <1>1, <1>2, KeyLenAssumption DEF PrefixLen
<1> QED BY <1>3, <1>4, <1>5, <1>6 DEF M

\* The test that the tries use to recurse into a child, a match of at least
\* the child's length, holds exactly when the child's prefix is an initial
\* part of the key.
THEOREM CoversFact ==
    ASSUME NEW p \in Key, NEW q \in Key,
           NEW a \in PrefixLen, NEW b \in PrefixLen
    PROVE  MatchLen(p, a, q, b) >= a <=> IsPrefixOf(p, a, q, b)
<1>1. MatchLen(p, a, q, b) >= a => IsPrefixOf(p, a, q, b)
  <2>1. ASSUME MatchLen(p, a, q, b) >= a
        PROVE  MatchLen(p, a, q, b) = a /\ a <= b
    <3> DEFINE M == MatchLen(p, a, q, b)
    <3>1. M \in PrefixLen /\ M <= a /\ M <= b
      BY MatchLenFact
    <3> HIDE DEF M
    <3> QED BY <2>1, <3>1, KeyLenAssumption DEF PrefixLen, M
  <2> QED BY <2>1, MatchLenFact DEF IsPrefixOf
<1>2. IsPrefixOf(p, a, q, b) => MatchLen(p, a, q, b) >= a
  BY MatchLenFact DEF IsPrefixOf, PrefixLen
<1> QED BY <1>1, <1>2

\* Where the match ends, inside both prefixes, the digits differ.
LEMMA MatchEnds ==
    ASSUME NEW p \in Key, NEW q \in Key,
           NEW a \in PrefixLen, NEW b \in PrefixLen,
           MatchLen(p, a, q, b) < a, MatchLen(p, a, q, b) < b
    PROVE  BranchBits(p, MatchLen(p, a, q, b)) # BranchBits(q, MatchLen(p, a, q, b))
<1> DEFINE m == MatchLen(p, a, q, b)
<1>1. /\ m \in PrefixLen /\ m < a /\ m < b
      /\ \A i \in 1 .. m : p[i] = q[i]
      /\ \A l \in PrefixLen :
            l <= a /\ l <= b /\ (\A i \in 1 .. l : p[i] = q[i]) => l <= m
  BY MatchLenFact
<1> HIDE DEF m
<1>2. m + 1 \in PrefixLen /\ m + 1 <= a /\ m + 1 <= b /\ ~(m + 1 <= m)
  BY <1>1, KeyLenAssumption DEF PrefixLen
<1>3. p[m + 1] = q[m + 1] => \A i \in 1 .. m + 1 : p[i] = q[i]
  BY <1>1 DEF PrefixLen
<1>4. p[m + 1] # q[m + 1]
  BY <1>1, <1>2, <1>3
<1> QED BY <1>4 DEF BranchBits, m

LEMMA PrefixRefl ==
    ASSUME NEW p \in Key, NEW a \in PrefixLen
    PROVE  IsPrefixOf(p, a, p, a)
BY DEF IsPrefixOf, PrefixLen

LEMMA PrefixTrans ==
    ASSUME NEW p, NEW q, NEW r,
           NEW a \in PrefixLen, NEW b \in PrefixLen, NEW c \in PrefixLen,
           IsPrefixOf(p, a, q, b), IsPrefixOf(q, b, r, c)
    PROVE  IsPrefixOf(p, a, r, c)
BY DEF IsPrefixOf, PrefixLen

\* Two prefixes of the same key are comparable.
LEMMA PrefixCompare ==
    ASSUME NEW p, NEW q, NEW r,
           NEW a \in PrefixLen, NEW b \in PrefixLen, NEW c \in PrefixLen,
           IsPrefixOf(p, a, r, c), IsPrefixOf(q, b, r, c), a <= b
    PROVE  IsPrefixOf(p, a, q, b)
BY DEF IsPrefixOf, PrefixLen

\* The digit that follows a proper prefix is the same in every extension.
LEMMA PrefixDigit ==
    ASSUME NEW q, NEW r,
           NEW a \in PrefixLen, NEW b \in PrefixLen, NEW c \in PrefixLen,
           a < b, IsPrefixOf(q, b, r, c)
    PROVE  BranchBits(q, a) = BranchBits(r, a)
BY DEF IsPrefixOf, PrefixLen, BranchBits

LEMMA BranchBitsType ==
    ASSUME NEW k \in Key, NEW a \in PrefixLen, a < KeyLen
    PROVE  BranchBits(k, a) \in Branch
BY KeyLenAssumption DEF BranchBits, Key, PrefixLen

LEMMA TruncateFact ==
    ASSUME NEW k \in Key, NEW a \in PrefixLen
    PROVE  /\ Truncate(k, a) \in Key
           /\ \A b \in PrefixLen : a <= b => IsPrefixOf(Truncate(k, a), a, k, b)
           /\ \A b \in PrefixLen : \A p : IsPrefixOf(p, b, k, a)
                                       => IsPrefixOf(p, b, Truncate(k, a), a)
BY KeyLenAssumption, BranchAssumption DEF Truncate, Key, PrefixLen, IsPrefixOf

\* A full-length prefix of a key is the key.
LEMMA FullPrefix ==
    ASSUME NEW p \in Key, NEW q \in Key, IsPrefixOf(p, KeyLen, q, KeyLen)
    PROVE  p = q
<1>1. \A i \in 1 .. KeyLen : p[i] = q[i]
  BY DEF IsPrefixOf
<1>2. p = [i \in 1 .. KeyLen |-> p[i]] /\ q = [i \in 1 .. KeyLen |-> q[i]]
  BY Zenon DEF Key
<1>3. [i \in 1 .. KeyLen |-> p[i]] = [i \in 1 .. KeyLen |-> q[i]]
  BY <1>1
<1> QED BY <1>2, <1>3, Zenon

-----------------------------------------------------------------------------
(* The shape of a trie, and what adding a node does to it *)

\* The node a for the first m digits of p is added in slot b of node n.
Added(L, P, N, C, n, b, a, p, m, L2, P2, N2, C2) ==
    /\ L2 = L \cup {a}
    /\ P2[a] = p /\ N2[a] = m
    /\ \A x \in L : P2[x] = P[x] /\ N2[x] = N[x]
    /\ \A x \in L, e \in Branch :
          C2[x][e] = IF x = n /\ e = b THEN a ELSE C[x][e]

\* It has no children, and the slot was empty.
Attached(L, P, N, C, nul, n, k, m, a, L2, P2, N2, C2) ==
    /\ C[n][BranchBits(k, N[n])] = nul
    /\ Added(L, P, N, C, n, BranchBits(k, N[n]), a, k, m, L2, P2, N2, C2)
    /\ \A e \in Branch : C2[a][e] = nul

\* Its only child is the child c that was in the slot, and its prefix is what
\* c shares with the first m digits of k.
SplitAt(L, P, N, C, nul, n, k, m, c, j, a, L2, P2, N2, C2) ==
    /\ c = C[n][BranchBits(k, N[n])] /\ c # nul
    /\ j = MatchLen(P[c], N[c], k, m) /\ ~ (j >= N[c])
    /\ Added(L, P, N, C, n, BranchBits(k, N[n]), a, Truncate(k, j), j,
             L2, P2, N2, C2)
    /\ \A e \in Branch : C2[a][e] = IF e = BranchBits(P[c], j) THEN c ELSE nul

\* A new node without children in a slot that is empty.
LEMMA ShapeAttach ==
    ASSUME NEW L, NEW P, NEW N, NEW C, NEW nul,
           NodesTyped(L, P, N), TrieShape(L, P, N, C, nul),
           NEW n \in L, NEW k \in Key, NEW m \in PrefixLen,
           IsPrefixOf(P[n], N[n], k, m), N[n] < m,
           NEW a, a \notin L, a # nul,
           NEW L2, NEW P2, NEW N2, NEW C2,
           Attached(L, P, N, C, nul, n, k, m, a, L2, P2, N2, C2)
    PROVE  TrieShape(L2, P2, N2, C2, nul)
<1> DEFINE b == BranchBits(k, N[n])
<1>1. /\ \A x \in L : N[x] \in PrefixLen /\ P[x] \in Key
      /\ b \in Branch
  BY BranchBitsType, KeyLenAssumption DEF NodesTyped, PrefixLen
<1>2. /\ L2 = L \cup {a}
      /\ \A x \in L : P2[x] = P[x] /\ N2[x] = N[x]
      /\ P2[a] = k /\ N2[a] = m
      /\ \A c \in Branch : C2[a][c] = nul
      /\ \A x \in L, c \in Branch :
            C2[x][c] = IF x = n /\ c = b THEN a ELSE C[x][c]
  BY DEF Attached, Added
<1> HIDE DEF b
<1>3. \A x \in L :
        IsPrefixOf(P[n], N[n], P[x], N[x]) /\ N[n] < N[x]
        => BranchBits(P[x], N[n]) # b
  BY DEF Attached, TrieShape, ShapePaths, b
<1>4. ShapeEdges(L2, P2, N2, C2, nul)
  <2> SUFFICES ASSUME NEW x \in L2, NEW c \in Branch, C2[x][c] # nul
               PROVE  /\ C2[x][c] \in L2
                      /\ N2[x] < N2[C2[x][c]]
                      /\ IsPrefixOf(P2[x], N2[x], P2[C2[x][c]],
                                    N2[C2[x][c]])
                      /\ BranchBits(P2[C2[x][c]], N2[x]) = c
    BY DEF ShapeEdges
  <2>1. x \in L
    BY <1>2
  <2>2. CASE x = n /\ c = b
    BY <2>1, <2>2, <1>2 DEF b
  <2>3. CASE ~(x = n /\ c = b)
    BY <2>1, <2>3, <1>2 DEF TrieShape, ShapeEdges
  <2> QED BY <2>2, <2>3
<1>5. \A x \in L :
        N[n] < N[x] /\ (\/ IsPrefixOf(k, m, P[x], N[x])
                            \/ IsPrefixOf(P[x], N[x], k, m)) => FALSE
  <2> SUFFICES ASSUME NEW x \in L, N[n] < N[x],
                      \/ IsPrefixOf(k, m, P[x], N[x])
                      \/ IsPrefixOf(P[x], N[x], k, m)
               PROVE  FALSE
    OBVIOUS
  <2>1. N[n] \in PrefixLen /\ N[x] \in PrefixLen /\ N[n] <= N[x]
    BY <1>1 DEF PrefixLen
  <2>2. CASE IsPrefixOf(k, m, P[x], N[x])
    <3>1. IsPrefixOf(P[n], N[n], P[x], N[x])
      BY <2>1, <2>2, PrefixTrans
    <3>2. BranchBits(P[x], N[n]) = b
      BY <2>1, <2>2, PrefixDigit DEF b
    <3> QED BY <3>1, <3>2, <1>3
  <2>3. CASE IsPrefixOf(P[x], N[x], k, m)
    <3>1. IsPrefixOf(P[n], N[n], P[x], N[x])
      BY <2>1, <2>3, PrefixCompare
    <3>2. BranchBits(P[x], N[n]) = b
      BY <2>1, <2>3, PrefixDigit DEF b
    <3> QED BY <3>1, <3>2, <1>3
  <2> QED BY <2>2, <2>3
<1>6. ShapeUnique(L2, P2, N2)
  <2> SUFFICES ASSUME NEW x \in L2, NEW y \in L2,
                      IsPrefixOf(P2[x], N2[x], P2[y], N2[y]),
                      N2[x] = N2[y]
               PROVE  x = y
    BY DEF ShapeUnique
  <2>1. CASE x \in L /\ y \in L
    BY <2>1, <1>2 DEF TrieShape, ShapeUnique
  <2>2. CASE x = a /\ y \in L
    BY <2>2, <1>2, <1>5
  <2>3. CASE y = a /\ x \in L
    BY <2>3, <1>2, <1>5
  <2> QED BY <2>1, <2>2, <2>3, <1>2
<1>7. ShapePaths(L2, P2, N2, C2, nul)
  <2> SUFFICES ASSUME NEW x \in L2, NEW y \in L2,
                      IsPrefixOf(P2[x], N2[x], P2[y], N2[y]),
                      N2[x] < N2[y]
               PROVE  LET c == C2[x][BranchBits(P2[y], N2[x])]
                      IN  /\ c # nul
                          /\ IsPrefixOf(P2[c], N2[c], P2[y], N2[y])
    BY DEF ShapePaths
  <2>1. CASE x \in L /\ y \in L
    <3> DEFINE c == C[x][BranchBits(P[y], N[x])]
    <3>1. c # nul /\ IsPrefixOf(P[c], N[c], P[y], N[y])
      BY <2>1, <1>2 DEF TrieShape, ShapePaths
    <3>2. ~ (x = n /\ BranchBits(P[y], N[x]) = b)
      BY <2>1, <1>2, <1>3
    <3>3. BranchBits(P[y], N[x]) \in Branch
      BY <2>1, <1>1, <1>2, BranchBitsType, KeyLenAssumption DEF PrefixLen
    <3>4. c \in L
      BY <3>1, <3>3, <2>1 DEF TrieShape, ShapeEdges
    <3>5. C2[x][BranchBits(P2[y], N2[x])] = c
      BY <3>2, <3>3, <2>1, <1>2
    <3> QED BY <3>1, <3>4, <3>5, <2>1, <1>2
  <2>2. CASE x = a /\ y \in L
    <3>1. N[n] < N[y]
      BY <2>2, <1>1, <1>2 DEF PrefixLen
    <3> QED BY <3>1, <2>2, <1>2, <1>5
  <2>3. CASE x \in L /\ y = a
    <3>1. IsPrefixOf(P[x], N[x], k, m) /\ N[x] < m
      BY <2>3, <1>2
    <3>2. CASE N[x] < N[n]
      <4>1. IsPrefixOf(P[x], N[x], P[n], N[n])
        BY <3>1, <3>2, <2>3, <1>1, PrefixCompare DEF PrefixLen
      <4>2. BranchBits(k, N[x]) = BranchBits(P[n], N[x])
        BY <3>2, <2>3, <1>1, PrefixDigit
      <4> DEFINE c == C[x][BranchBits(P[n], N[x])]
      <4>3. c # nul /\ IsPrefixOf(P[c], N[c], P[n], N[n])
        BY <4>1, <3>2, <2>3 DEF TrieShape, ShapePaths
      <4>4. BranchBits(P[n], N[x]) \in Branch
        BY <3>2, <2>3, <1>1, BranchBitsType, KeyLenAssumption DEF PrefixLen
      <4>5. c \in L
        BY <4>3, <4>4, <2>3 DEF TrieShape, ShapeEdges
      <4>6. x # n
        BY <3>2, <1>1 DEF PrefixLen
      <4>7. C2[x][BranchBits(P2[y], N2[x])] = c
        BY <4>2, <4>4, <4>6, <2>3, <1>2
      <4>8. IsPrefixOf(P[c], N[c], k, m)
        BY <4>3, <4>5, <1>1, PrefixTrans
      <4> QED BY <4>3, <4>5, <4>7, <4>8, <2>3, <1>2
    <3>3. CASE N[x] = N[n]
      <4>1. IsPrefixOf(P[x], N[x], P[n], N[n])
        BY <3>1, <3>3, <2>3, <1>1, PrefixCompare DEF PrefixLen
      <4>2. x = n
        BY <4>1, <3>3, <2>3 DEF TrieShape, ShapeUnique
      <4> QED BY <4>2, <2>3, <1>1, <1>2, PrefixRefl DEF b
    <3>4. CASE N[n] < N[x]
      BY <3>1, <3>4, <1>5, <2>3
    <3> QED BY <3>2, <3>3, <3>4, <1>1, <2>3 DEF PrefixLen
  <2>4. ~ (x = a /\ y = a)
    BY <1>2 DEF PrefixLen
  <2> QED BY <2>1, <2>2, <2>3, <2>4, <1>2
<1> QED BY <1>4, <1>6, <1>7 DEF TrieShape

\* A new node between a node and its child c, for the j digits that c shares
\* with the first m digits of k.
LEMMA ShapeSplit ==
    ASSUME NEW L, NEW P, NEW N, NEW C, NEW nul,
           NodesTyped(L, P, N), TrieShape(L, P, N, C, nul),
           NEW n \in L, NEW k \in Key, NEW m \in PrefixLen,
           IsPrefixOf(P[n], N[n], k, m), N[n] < m,
           NEW a, a \notin L, a # nul, NEW c, NEW j,
           NEW L2, NEW P2, NEW N2, NEW C2,
           SplitAt(L, P, N, C, nul, n, k, m, c, j, a, L2, P2, N2, C2)
    PROVE  /\ TrieShape(L2, P2, N2, C2, nul)
           /\ j \in PrefixLen /\ N[n] < j /\ j < N[c] /\ j <= m /\ j < KeyLen
           /\ Truncate(k, j) \in Key
           /\ IsPrefixOf(Truncate(k, j), j, k, m)
           /\ IsPrefixOf(Truncate(k, j), j, P[c], N[c])
           /\ BranchBits(P[c], j) \in Branch
<1> DEFINE b == BranchBits(k, N[n])
           p == Truncate(k, j)
           d == BranchBits(P[c], j)
<1>1. /\ \A x \in L : N[x] \in PrefixLen /\ P[x] \in Key
      /\ b \in Branch
  BY BranchBitsType, KeyLenAssumption DEF NodesTyped, PrefixLen
<1>0. /\ c = C[n][BranchBits(k, N[n])] /\ c # nul
      /\ j = MatchLen(P[c], N[c], k, m) /\ ~ (j >= N[c])
  BY DEF SplitAt
<1>2. /\ c \in L /\ N[n] < N[c]
      /\ IsPrefixOf(P[n], N[n], P[c], N[c])
      /\ BranchBits(P[c], N[n]) = b
  BY <1>0, <1>1 DEF TrieShape, ShapeEdges
<1>3. /\ j \in PrefixLen /\ N[n] < j /\ j < N[c] /\ j <= m
      /\ \A i \in 1 .. j : P[c][i] = k[i]
  <2>1. /\ j \in PrefixLen /\ j <= N[c] /\ j <= m
        /\ \A i \in 1 .. j : P[c][i] = k[i]
        /\ \A l \in PrefixLen :
              l <= N[c] /\ l <= m /\ (\A i \in 1 .. l : P[c][i] = k[i]) => l <= j
    BY <1>0, <1>1, <1>2, MatchLenFact
  <2>2. N[n] + 1 <= j
    <3>1. \A i \in 1 .. N[n] + 1 : P[c][i] = k[i]
      BY <1>1, <1>2 DEF IsPrefixOf, BranchBits, b, PrefixLen
    <3>2. N[n] + 1 \in PrefixLen /\ N[n] + 1 <= N[c] /\ N[n] + 1 <= m
      BY <1>1, <1>2, KeyLenAssumption DEF PrefixLen
    <3> QED BY <3>1, <3>2, <2>1
  <2>3. j # N[c]
    BY <1>0, <1>1, <1>2, <2>1 DEF PrefixLen
  <2> QED BY <1>1, <1>2, <2>1, <2>2, <2>3 DEF PrefixLen
<1>4. /\ p \in Key
      /\ IsPrefixOf(p, j, k, m)
      /\ IsPrefixOf(p, j, P[c], N[c])
      /\ IsPrefixOf(P[n], N[n], p, j)
      /\ BranchBits(p, N[n]) = b
      /\ d \in Branch
      /\ j < KeyLen
  <2>1. p \in Key
    BY <1>3, TruncateFact
  <2>2. IsPrefixOf(p, j, k, m) /\ IsPrefixOf(p, j, k, j)
    BY <1>3, TruncateFact DEF PrefixLen
  <2>3. IsPrefixOf(p, j, P[c], N[c])
    BY <2>2, <1>1, <1>2, <1>3 DEF IsPrefixOf, PrefixLen
  <2>4. IsPrefixOf(P[n], N[n], p, j)
    BY <2>2, <1>1, <1>3, PrefixCompare DEF PrefixLen
  <2>5. BranchBits(p, N[n]) = b
    BY <2>2, <1>1, <1>3, PrefixDigit DEF b
  <2>6. j < KeyLen
    BY <1>1, <1>2, <1>3, KeyLenAssumption DEF PrefixLen
  <2>7. d \in Branch
    BY <2>6, <1>1, <1>2, <1>3, BranchBitsType
  <2> QED BY <2>1, <2>2, <2>3, <2>4, <2>5, <2>6, <2>7
<1>5. /\ L2 = L \cup {a}
      /\ \A x \in L : P2[x] = P[x] /\ N2[x] = N[x]
      /\ P2[a] = p /\ N2[a] = j
      /\ \A e \in Branch : C2[a][e] = IF e = d THEN c ELSE nul
      /\ \A x \in L, e \in Branch :
            C2[x][e] = IF x = n /\ e = b THEN a ELSE C[x][e]
  BY DEF SplitAt, Added
<1> HIDE DEF p, d, b
\* The nodes below n towards k are the nodes below c.
<1>6. ASSUME NEW x \in L, N[n] < N[x],
             IsPrefixOf(P[n], N[n], P[x], N[x]),
             BranchBits(P[x], N[n]) = b
      PROVE  IsPrefixOf(P[c], N[c], P[x], N[x])
  BY <1>0, <1>6 DEF TrieShape, ShapePaths, b
\* Nothing that is comparable with the new node lies between n and c.
<1>7. ASSUME NEW x \in L, N[n] < N[x],
             \/ IsPrefixOf(p, j, P[x], N[x])
             \/ IsPrefixOf(P[x], N[x], p, j)
      PROVE  IsPrefixOf(P[c], N[c], P[x], N[x]) /\ j < N[x]
  <2>1. N[n] \in PrefixLen /\ N[x] \in PrefixLen /\ N[n] <= N[x]
    BY <1>1, <1>7 DEF PrefixLen
  <2>2. IsPrefixOf(P[n], N[n], P[x], N[x]) /\ BranchBits(P[x], N[n]) = b
    <3>1. CASE IsPrefixOf(p, j, P[x], N[x])
      BY <3>1, <2>1, <1>3, <1>4, PrefixTrans, PrefixDigit
    <3>2. CASE IsPrefixOf(P[x], N[x], p, j)
      BY <3>2, <2>1, <1>3, <1>4, <1>7, PrefixCompare, PrefixDigit
    <3> QED BY <3>1, <3>2, <1>7
  <2>3. IsPrefixOf(P[c], N[c], P[x], N[x])
    BY <2>2, <1>6, <1>7
  <2>4. N[c] <= N[x]
    BY <2>3 DEF IsPrefixOf
  <2> QED BY <2>1, <2>3, <2>4, <1>1, <1>2, <1>3 DEF PrefixLen
<1>8. ShapeEdges(L2, P2, N2, C2, nul)
  <2> SUFFICES ASSUME NEW x \in L2, NEW e \in Branch, C2[x][e] # nul
               PROVE  /\ C2[x][e] \in L2
                      /\ N2[x] < N2[C2[x][e]]
                      /\ IsPrefixOf(P2[x], N2[x], P2[C2[x][e]],
                                    N2[C2[x][e]])
                      /\ BranchBits(P2[C2[x][e]], N2[x]) = e
    BY DEF ShapeEdges
  <2>1. CASE x = a
    BY <2>1, <1>2, <1>3, <1>4, <1>5 DEF d
  <2>2. CASE x = n /\ e = b
    BY <2>2, <1>3, <1>4, <1>5
  <2>3. CASE x \in L /\ ~(x = n /\ e = b)
    BY <2>3, <1>5 DEF TrieShape, ShapeEdges
  <2> QED BY <2>1, <2>2, <2>3, <1>5
<1>9. ShapeUnique(L2, P2, N2)
  <2> SUFFICES ASSUME NEW x \in L2, NEW y \in L2,
                      IsPrefixOf(P2[x], N2[x], P2[y], N2[y]),
                      N2[x] = N2[y]
               PROVE  x = y
    BY DEF ShapeUnique
  <2>1. CASE x \in L /\ y \in L
    BY <2>1, <1>5 DEF TrieShape, ShapeUnique
  <2>2. CASE x = a /\ y \in L
    <3>1. N[y] = j /\ IsPrefixOf(p, j, P[y], N[y])
      BY <2>2, <1>5
    <3> QED BY <3>1, <2>2, <1>1, <1>3, <1>7 DEF PrefixLen
  <2>3. CASE y = a /\ x \in L
    <3>1. N[x] = j /\ IsPrefixOf(P[x], N[x], p, j)
      BY <2>3, <1>5
    <3> QED BY <3>1, <2>3, <1>1, <1>3, <1>7 DEF PrefixLen
  <2> QED BY <2>1, <2>2, <2>3, <1>5
<1>10. ShapePaths(L2, P2, N2, C2, nul)
  <2> SUFFICES ASSUME NEW x \in L2, NEW y \in L2,
                      IsPrefixOf(P2[x], N2[x], P2[y], N2[y]),
                      N2[x] < N2[y]
               PROVE  LET e == C2[x][BranchBits(P2[y], N2[x])]
                      IN  /\ e # nul
                          /\ IsPrefixOf(P2[e], N2[e], P2[y], N2[y])
    BY DEF ShapePaths
  <2>1. CASE x \in L /\ y \in L
    <3> DEFINE e == C[x][BranchBits(P[y], N[x])]
    <3>1. e # nul /\ IsPrefixOf(P[e], N[e], P[y], N[y])
      BY <2>1, <1>5 DEF TrieShape, ShapePaths
    <3>2. BranchBits(P[y], N[x]) \in Branch
      BY <2>1, <1>1, <1>5, BranchBitsType, KeyLenAssumption DEF PrefixLen
    <3>3. e \in L
      BY <3>1, <3>2, <2>1 DEF TrieShape, ShapeEdges
    <3>4. CASE x = n /\ BranchBits(P[y], N[x]) = b
      <4>1. IsPrefixOf(P[c], N[c], P[y], N[y])
        BY <3>4, <2>1, <1>5, <1>6
      <4>2. IsPrefixOf(p, j, P[y], N[y])
        BY <4>1, <2>1, <1>1, <1>2, <1>3, <1>4, PrefixTrans
      <4> QED BY <4>2, <3>2, <3>4, <2>1, <1>5
    <3>5. CASE ~ (x = n /\ BranchBits(P[y], N[x]) = b)
      <4>1. C2[x][BranchBits(P2[y], N2[x])] = e
        BY <3>2, <3>5, <2>1, <1>5
      <4> QED BY <4>1, <3>1, <3>3, <2>1, <1>5
    <3> QED BY <3>4, <3>5
  <2>2. CASE x = a /\ y \in L
    <3>1. IsPrefixOf(p, j, P[y], N[y]) /\ j < N[y]
      BY <2>2, <1>5
    <3>2. IsPrefixOf(P[c], N[c], P[y], N[y])
      <4>1. N[n] < N[y]
        BY <3>1, <2>2, <1>1, <1>3 DEF PrefixLen
      <4> QED BY <4>1, <3>1, <2>2, <1>7
    <3>3. BranchBits(P[y], j) = d
      BY <3>2, <2>2, <1>1, <1>2, <1>3, PrefixDigit DEF d
    <3>4. C2[x][BranchBits(P2[y], N2[x])] = c
      BY <3>3, <2>2, <1>4, <1>5
    <3> QED BY <3>2, <3>4, <2>2, <1>0, <1>2, <1>5
  <2>3. CASE x \in L /\ y = a
    <3>1. IsPrefixOf(P[x], N[x], p, j) /\ N[x] < j
      BY <2>3, <1>5
    <3>2. CASE N[x] < N[n]
      <4>1. IsPrefixOf(P[x], N[x], P[n], N[n])
        BY <3>1, <3>2, <2>3, <1>1, <1>3, <1>4, PrefixCompare DEF PrefixLen
      <4>2. BranchBits(p, N[x]) = BranchBits(P[n], N[x])
        BY <3>2, <2>3, <1>1, <1>3, <1>4, PrefixDigit
      <4> DEFINE e == C[x][BranchBits(P[n], N[x])]
      <4>3. e # nul /\ IsPrefixOf(P[e], N[e], P[n], N[n])
        BY <4>1, <3>2, <2>3 DEF TrieShape, ShapePaths
      <4>4. BranchBits(P[n], N[x]) \in Branch
        BY <3>2, <2>3, <1>1, BranchBitsType, KeyLenAssumption DEF PrefixLen
      <4>5. e \in L
        BY <4>3, <4>4, <2>3 DEF TrieShape, ShapeEdges
      <4>6. x # n
        BY <3>2, <1>1 DEF PrefixLen
      <4>7. C2[x][BranchBits(P2[y], N2[x])] = e
        BY <4>2, <4>4, <4>6, <2>3, <1>5
      <4>8. IsPrefixOf(P[e], N[e], p, j)
        BY <4>3, <4>5, <1>1, <1>3, <1>4, PrefixTrans
      <4> QED BY <4>3, <4>5, <4>7, <4>8, <2>3, <1>5
    <3>3. CASE N[x] = N[n]
      <4>1. IsPrefixOf(P[x], N[x], P[n], N[n])
        BY <3>1, <3>3, <2>3, <1>1, <1>3, <1>4, PrefixCompare DEF PrefixLen
      <4>2. x = n
        BY <4>1, <3>3, <2>3 DEF TrieShape, ShapeUnique
      <4>3. C2[x][BranchBits(P2[y], N2[x])] = a
        BY <4>2, <2>3, <1>1, <1>4, <1>5
      <4> QED BY <4>3, <2>3, <1>3, <1>4, <1>5, PrefixRefl
    <3>4. CASE N[n] < N[x]
      <4>1. j < N[x]
        BY <3>1, <3>4, <1>7, <2>3
      <4> QED BY <4>1, <3>1, <2>3, <1>1, <1>3 DEF PrefixLen
    <3> QED BY <3>2, <3>3, <3>4, <1>1, <2>3 DEF PrefixLen
  <2>4. ~ (x = a /\ y = a)
    BY <1>3, <1>5 DEF PrefixLen
  <2> QED BY <2>1, <2>2, <2>3, <2>4, <1>5
<1> QED BY <1>3, <1>4, <1>8, <1>9, <1>10 DEF TrieShape, p, d

\* Induction over a range of numbers, for a set.
LEMMA RangeInduction ==
    ASSUME NEW lo \in Nat, NEW hi \in Nat, NEW S, lo \in S,
           \A i \in lo .. hi : i + 1 <= hi /\ i \in S => i + 1 \in S
    PROVE  \A i \in lo .. hi : i \in S
<1> SUFFICES ASSUME NEW z \in lo .. hi, z \notin S
             PROVE  FALSE
  OBVIOUS
<1> DEFINE T == {i \in lo .. hi : i \notin S}
<1>1. T \in SUBSET Nat /\ T # {}
  OBVIOUS
<1>2. PICK m \in T : \A n \in T : m <= n
  <2> HIDE DEF T
  <2> QED BY <1>1, LeastNat
<1>3. m # lo /\ m - 1 \in lo .. hi /\ m - 1 \notin T /\ m - 1 + 1 = m
  BY <1>2
<1>4. m - 1 \in S
  BY <1>3
<1>5. m - 1 + 1 \in S
  BY <1>3, <1>4
<1> QED BY <1>2, <1>3, <1>5

-----------------------------------------------------------------------------
(* Parents, and taking nodes out of a trie *)

\* A node is in one slot of one node.
LEMMA ShapeOneParent ==
    ASSUME NEW L, NEW P, NEW N, NEW C, NEW nul,
           NodesTyped(L, P, N), TrieShape(L, P, N, C, nul),
           NEW x \in L, NEW y \in L, NEW e \in Branch, NEW f \in Branch,
           C[x][e] # nul, C[x][e] = C[y][f]
    PROVE  x = y /\ e = f
<1>1. \A u, v \in L : \A g, h \in Branch :
         C[u][g] # nul /\ C[u][g] = C[v][h] /\ N[u] < N[v] => FALSE
  <2> SUFFICES ASSUME NEW u \in L, NEW v \in L, NEW g \in Branch, NEW h \in Branch,
                      C[u][g] # nul, C[u][g] = C[v][h], N[u] < N[v]
               PROVE  FALSE
    OBVIOUS
  <2> DEFINE c == C[u][g]
  <2>1. /\ c \in L /\ N[v] < N[c]
        /\ IsPrefixOf(P[u], N[u], P[c], N[c])
        /\ IsPrefixOf(P[v], N[v], P[c], N[c])
        /\ BranchBits(P[c], N[u]) = g
    BY DEF TrieShape, ShapeEdges
  <2>2. N[u] \in PrefixLen /\ N[v] \in PrefixLen /\ N[c] \in PrefixLen
    BY <2>1 DEF NodesTyped
  <2>3. IsPrefixOf(P[u], N[u], P[v], N[v])
    <3>1. N[u] <= N[v]
      BY <2>2 DEF PrefixLen
    <3> QED BY <3>1, <2>1, <2>2, PrefixCompare
  <2>4. BranchBits(P[v], N[u]) = g
    BY <2>1, <2>2, PrefixDigit
  <2>5. IsPrefixOf(P[c], N[c], P[v], N[v])
    BY <2>3, <2>4 DEF TrieShape, ShapePaths
  <2> QED BY <2>1, <2>2, <2>5 DEF IsPrefixOf, PrefixLen
<1>2. N[x] \in PrefixLen /\ N[y] \in PrefixLen
  BY DEF NodesTyped
<1>3. N[x] = N[y]
  <2>1. ~ (N[x] < N[y])
    BY <1>1
  <2>2. ~ (N[y] < N[x])
    BY <1>1
  <2> QED BY <1>2, <2>1, <2>2 DEF PrefixLen
<1> DEFINE d == C[x][e]
<1>4. /\ d \in L
      /\ IsPrefixOf(P[x], N[x], P[d], N[d])
      /\ IsPrefixOf(P[y], N[y], P[d], N[d])
      /\ BranchBits(P[d], N[x]) = e
      /\ BranchBits(P[d], N[y]) = f
  BY DEF TrieShape, ShapeEdges
<1>5. N[d] \in PrefixLen /\ N[x] <= N[y]
  BY <1>2, <1>3, <1>4 DEF NodesTyped, PrefixLen
<1>6. IsPrefixOf(P[x], N[x], P[y], N[y])
  <2> HIDE DEF d
  <2> QED BY <1>2, <1>4, <1>5, PrefixCompare
<1> QED BY <1>3, <1>4, <1>6 DEF TrieShape, ShapeUnique

\* Every node below a node r has a parent there.
LEMMA ShapeHasParent ==
    ASSUME NEW L, NEW P, NEW N, NEW C, NEW nul,
           NodesTyped(L, P, N), TrieShape(L, P, N, C, nul),
           NEW r \in L, NEW n \in L,
           IsPrefixOf(P[r], N[r], P[n], N[n]), N[r] < N[n]
    PROVE  \E p \in L, b \in Branch : C[p][b] = n /\ n # nul /\ N[p] < N[n]
<1> DEFINE Above == {x \in L : IsPrefixOf(P[x], N[x], P[n], N[n]) /\ N[x] < N[n]}
           Gaps  == {N[n] - N[x] : x \in Above}
<1>1. \A x \in L : N[x] \in PrefixLen
  BY DEF NodesTyped
<1>2. Gaps \in SUBSET Nat /\ Gaps # {}
  BY <1>1 DEF PrefixLen
<1>3. PICK g \in Gaps : \A h \in Gaps : g <= h
  <2> HIDE DEF Gaps
  <2> QED BY <1>2, LeastNat
<1>4. PICK p \in Above : g = N[n] - N[p]
  OBVIOUS
<1>5. \A x \in Above : N[x] <= N[p]
  <2> SUFFICES ASSUME NEW x \in Above PROVE N[x] <= N[p]
    OBVIOUS
  <2>1. N[n] - N[p] <= N[n] - N[x]
    BY <1>3, <1>4
  <2> QED BY <2>1, <1>1 DEF PrefixLen
<1> DEFINE b == BranchBits(P[n], N[p])
           c == C[p][b]
<1>6. p \in L /\ IsPrefixOf(P[p], N[p], P[n], N[n]) /\ N[p] < N[n]
  OBVIOUS
<1>7. b \in Branch
  BY <1>1, <1>6, BranchBitsType, KeyLenAssumption DEF NodesTyped, PrefixLen
<1> HIDE DEF Above, Gaps
<1>8. c # nul /\ IsPrefixOf(P[c], N[c], P[n], N[n])
  BY <1>6 DEF TrieShape, ShapePaths
<1>9. c \in L /\ N[p] < N[c]
  BY <1>6, <1>7, <1>8 DEF TrieShape, ShapeEdges
<1>10. ~ (N[c] < N[n])
  <2>1. ~ (N[c] <= N[p])
    BY <1>1, <1>6, <1>9 DEF PrefixLen
  <2> QED BY <1>5, <1>8, <1>9, <2>1 DEF Above
<1>11. N[c] = N[n]
  BY <1>1, <1>8, <1>9, <1>10 DEF IsPrefixOf, PrefixLen
<1>12. c = n
  BY <1>8, <1>9, <1>11 DEF TrieShape, ShapeUnique
<1> QED BY <1>6, <1>7, <1>8, <1>12

\* Only what the nodes of the trie are matters.
LEMMA ShapeSame ==
    ASSUME NEW L, NEW P, NEW N, NEW C, NEW nul,
           NodesTyped(L, P, N), TrieShape(L, P, N, C, nul),
           NEW P2, NEW N2, NEW C2,
           \A x \in L : P2[x] = P[x] /\ N2[x] = N[x],
           \A x \in L, e \in Branch : C2[x][e] = C[x][e]
    PROVE  TrieShape(L, P2, N2, C2, nul)
<1>1. ShapeEdges(L, P2, N2, C2, nul)
  <2> SUFFICES ASSUME NEW x \in L, NEW e \in Branch, C2[x][e] # nul
               PROVE  /\ C2[x][e] \in L
                      /\ N2[x] < N2[C2[x][e]]
                      /\ IsPrefixOf(P2[x], N2[x], P2[C2[x][e]], N2[C2[x][e]])
                      /\ BranchBits(P2[C2[x][e]], N2[x]) = e
    BY DEF ShapeEdges
  <2> QED BY DEF TrieShape, ShapeEdges
<1>2. ShapePaths(L, P2, N2, C2, nul)
  <2> SUFFICES ASSUME NEW x \in L, NEW y \in L,
                      IsPrefixOf(P2[x], N2[x], P2[y], N2[y]),
                      N2[x] < N2[y]
               PROVE  LET c == C2[x][BranchBits(P2[y], N2[x])]
                      IN  c # nul /\ IsPrefixOf(P2[c], N2[c], P2[y], N2[y])
    BY DEF ShapePaths
  <2> DEFINE c == C[x][BranchBits(P[y], N[x])]
  <2>1. c # nul /\ IsPrefixOf(P[c], N[c], P[y], N[y])
    BY DEF TrieShape, ShapePaths
  <2>2. BranchBits(P[y], N[x]) \in Branch
    BY BranchBitsType, KeyLenAssumption DEF NodesTyped, PrefixLen
  <2>3. c \in L
    BY <2>1, <2>2 DEF TrieShape, ShapeEdges
  <2> QED BY <2>1, <2>2, <2>3
<1>3. ShapeUnique(L, P2, N2)
  BY DEF TrieShape, ShapeUnique
<1> QED BY <1>1, <1>2, <1>3 DEF TrieShape

\* A node without children is taken out of its slot.
LEMMA ShapeRemove ==
    ASSUME NEW L, NEW P, NEW N, NEW C, NEW nul,
           NodesTyped(L, P, N), TrieShape(L, P, N, C, nul),
           NEW n \in L, NEW b \in Branch, NEW c, c = C[n][b], c # nul,
           \A e \in Branch : C[c][e] = nul,
           NEW C2,
           \A x \in L \ {c}, e \in Branch :
              C2[x][e] = IF x = n /\ e = b THEN nul ELSE C[x][e]
    PROVE  TrieShape(L \ {c}, P, N, C2, nul)
<1>1. c \in L
  BY DEF TrieShape, ShapeEdges
<1>2. ASSUME NEW x \in L, NEW e \in Branch, C[x][e] = c
      PROVE  x = n /\ e = b
  BY <1>2, ShapeOneParent
<1>3. ShapeEdges(L \ {c}, P, N, C2, nul)
  <2> SUFFICES ASSUME NEW x \in L \ {c}, NEW e \in Branch, C2[x][e] # nul
               PROVE  /\ C2[x][e] \in L \ {c}
                      /\ N[x] < N[C2[x][e]]
                      /\ IsPrefixOf(P[x], N[x], P[C2[x][e]], N[C2[x][e]])
                      /\ BranchBits(P[C2[x][e]], N[x]) = e
    BY DEF ShapeEdges
  <2> QED BY <1>2 DEF TrieShape, ShapeEdges
<1>4. ShapePaths(L \ {c}, P, N, C2, nul)
  <2> SUFFICES ASSUME NEW x \in L \ {c}, NEW y \in L \ {c},
                      IsPrefixOf(P[x], N[x], P[y], N[y]),
                      N[x] < N[y]
               PROVE  LET d == C2[x][BranchBits(P[y], N[x])]
                      IN  d # nul /\ IsPrefixOf(P[d], N[d], P[y], N[y])
    BY DEF ShapePaths
  <2> DEFINE d == C[x][BranchBits(P[y], N[x])]
  <2>1. d # nul /\ IsPrefixOf(P[d], N[d], P[y], N[y])
    BY DEF TrieShape, ShapePaths
  <2>2. BranchBits(P[y], N[x]) \in Branch
    BY BranchBitsType, KeyLenAssumption DEF NodesTyped, PrefixLen
  <2>3. d # c
    <3> SUFFICES ASSUME d = c PROVE FALSE
      OBVIOUS
    <3>1. N[c] = N[y] \/ N[c] < N[y]
      BY <1>1, <2>1 DEF IsPrefixOf, NodesTyped, PrefixLen
    <3>2. CASE N[c] = N[y]
      BY <3>2, <1>1, <2>1 DEF TrieShape, ShapeUnique
    <3>3. CASE N[c] < N[y]
      <4>1. C[c][BranchBits(P[y], N[c])] # nul
        BY <3>3, <1>1, <2>1 DEF TrieShape, ShapePaths
      <4>2. BranchBits(P[y], N[c]) \in Branch
        BY <3>3, <1>1, BranchBitsType, KeyLenAssumption DEF NodesTyped, PrefixLen
      <4> QED BY <4>1, <4>2
    <3> QED BY <3>1, <3>2, <3>3
  <2> QED BY <2>1, <2>2, <2>3
<1>5. ShapeUnique(L \ {c}, P, N)
  BY DEF TrieShape, ShapeUnique
<1> QED BY <1>3, <1>4, <1>5 DEF TrieShape

\* Node a takes the place of node e, with its prefix and its children.
Copied(L, P, N, C, e, a, P2, N2, C2) ==
    /\ P2[a] = P[e] /\ N2[a] = N[e]
    /\ \A x \in L \ {e} : P2[x] = P[x] /\ N2[x] = N[x]
    /\ \A f \in Branch : C2[a][f] = C[e][f]
    /\ \A x \in L \ {e}, f \in Branch :
          C2[x][f] = IF C[x][f] = e THEN a ELSE C[x][f]

LEMMA ShapeCopy ==
    ASSUME NEW L, NEW P, NEW N, NEW C, NEW nul,
           NodesTyped(L, P, N), TrieShape(L, P, N, C, nul),
           NEW e \in L, NEW a, a \notin L, a # nul, e # nul,
           NEW P2, NEW N2, NEW C2,
           Copied(L, P, N, C, e, a, P2, N2, C2)
    PROVE  TrieShape((L \ {e}) \cup {a}, P2, N2, C2, nul)
<1> DEFINE L2   == (L \ {e}) \cup {a}
           o(x) == IF x = a THEN e ELSE x
           w(x) == IF x = e THEN a ELSE x
<1>1. \A x \in L2 : o(x) \in L /\ w(o(x)) = x /\ P2[x] = P[o(x)] /\ N2[x] = N[o(x)]
  BY DEF Copied
<1>2. \A x \in L : w(x) \in L2 /\ o(w(x)) = x /\ P2[w(x)] = P[x] /\ N2[w(x)] = N[x]
  BY DEF Copied
<1>3. \A x \in L2, f \in Branch :
         /\ C2[x][f] # nul <=> C[o(x)][f] # nul
         /\ C[o(x)][f] # nul => C2[x][f] = w(C[o(x)][f])
  <2> SUFFICES ASSUME NEW x \in L2, NEW f \in Branch
               PROVE  /\ C2[x][f] # nul <=> C[o(x)][f] # nul
                      /\ C[o(x)][f] # nul => C2[x][f] = w(C[o(x)][f])
    OBVIOUS
  <2>1. CASE x = a
    <3>1. C2[x][f] = C[e][f]
      BY <2>1 DEF Copied
    <3>2. C[e][f] # nul => C[e][f] \in L /\ N[e] < N[C[e][f]]
      BY DEF TrieShape, ShapeEdges
    <3>3. C[e][f] # e \/ C[e][f] = nul
      BY <3>2 DEF NodesTyped, PrefixLen
    <3> QED BY <2>1, <3>1, <3>3
  <2>2. CASE x # a
    BY <2>2 DEF Copied
  <2> QED BY <2>1, <2>2
<1> HIDE DEF o, w, L2
<1>4. ShapeEdges(L2, P2, N2, C2, nul)
  <2> SUFFICES ASSUME NEW x \in L2, NEW f \in Branch, C2[x][f] # nul
               PROVE  /\ C2[x][f] \in L2
                      /\ N2[x] < N2[C2[x][f]]
                      /\ IsPrefixOf(P2[x], N2[x], P2[C2[x][f]], N2[C2[x][f]])
                      /\ BranchBits(P2[C2[x][f]], N2[x]) = f
    BY DEF ShapeEdges
  <2> DEFINE d == C[o(x)][f]
  <2>1. o(x) \in L /\ d # nul /\ C2[x][f] = w(d)
    BY <1>1, <1>3
  <2>2. /\ d \in L
        /\ N[o(x)] < N[d]
        /\ IsPrefixOf(P[o(x)], N[o(x)], P[d], N[d])
        /\ BranchBits(P[d], N[o(x)]) = f
    BY <2>1 DEF TrieShape, ShapeEdges
  <2> HIDE DEF d
  <2> QED BY <2>1, <2>2, <1>1, <1>2
<1>5. ShapePaths(L2, P2, N2, C2, nul)
  <2> SUFFICES ASSUME NEW x \in L2, NEW y \in L2,
                      IsPrefixOf(P2[x], N2[x], P2[y], N2[y]),
                      N2[x] < N2[y]
               PROVE  LET d == C2[x][BranchBits(P2[y], N2[x])]
                      IN  d # nul /\ IsPrefixOf(P2[d], N2[d], P2[y], N2[y])
    BY DEF ShapePaths
  <2> DEFINE b == BranchBits(P[o(y)], N[o(x)])
             d == C[o(x)][b]
  <2>1. /\ o(x) \in L /\ o(y) \in L
        /\ IsPrefixOf(P[o(x)], N[o(x)], P[o(y)], N[o(y)])
        /\ N[o(x)] < N[o(y)]
        /\ BranchBits(P2[y], N2[x]) = b
    BY <1>1
  <2>2. d # nul /\ IsPrefixOf(P[d], N[d], P[o(y)], N[o(y)])
    BY <2>1 DEF TrieShape, ShapePaths
  <2>3. b \in Branch
    BY <2>1, BranchBitsType, KeyLenAssumption DEF NodesTyped, PrefixLen
  <2>4. d \in L
    BY <2>1, <2>2, <2>3 DEF TrieShape, ShapeEdges
  <2>5. C2[x][b] = w(d) /\ C2[x][b] # nul
    BY <2>2, <2>3, <1>3
  <2> HIDE DEF d, b
  <2>6. P2[w(d)] = P[d] /\ N2[w(d)] = N[d] /\ P2[y] = P[o(y)] /\ N2[y] = N[o(y)]
    BY <2>4, <1>1, <1>2
  <2> QED BY <2>1, <2>2, <2>5, <2>6
<1>6. ShapeUnique(L2, P2, N2)
  <2> SUFFICES ASSUME NEW x \in L2, NEW y \in L2,
                      IsPrefixOf(P2[x], N2[x], P2[y], N2[y]), N2[x] = N2[y]
               PROVE  x = y
    BY DEF ShapeUnique
  <2>1. o(x) = o(y)
    BY <1>1 DEF TrieShape, ShapeUnique
  <2> QED BY <2>1, <1>1
<1> QED BY <1>4, <1>5, <1>6 DEF TrieShape, L2

\* A chain s of z nodes from slot b of node n on, each but the last with the
\* next one as its only child.
IsChain(L, C, nul, n, b, s, z) ==
    /\ z \in Nat \ {0}
    /\ \A j \in 1 .. z : s[j] \in L
    /\ s[1] = C[n][b] /\ s[1] # nul
    /\ \A j \in 1 .. z - 1 :
          /\ \E f \in Branch : C[s[j]][f] = s[j + 1]
          /\ \A f \in Branch : C[s[j]][f] \in {nul, s[j + 1]}
          /\ s[j + 1] # nul

\* What a chain is in a trie.
LEMMA ChainFacts ==
    ASSUME NEW L, NEW P, NEW N, NEW C, NEW nul,
           NodesTyped(L, P, N), TrieShape(L, P, N, C, nul),
           NEW n \in L, NEW b \in Branch, NEW s, NEW z,
           IsChain(L, C, nul, n, b, s, z)
    PROVE  /\ \A j \in 1 .. z : /\ N[n] < N[s[j]]
                                /\ IsPrefixOf(P[s[1]], N[s[1]], P[s[j]], N[s[j]])
           /\ \A j \in 1 .. z - 1 : N[s[j]] < N[s[z]]
           /\ \A x \in L, f \in Branch, j \in 2 .. z : C[x][f] = s[j] => x = s[j - 1]
           /\ \A y \in L : IsPrefixOf(P[s[1]], N[s[1]], P[y], N[y])
                           => \/ \E j \in 1 .. z - 1 : y = s[j]
                              \/ IsPrefixOf(P[s[z]], N[s[z]], P[y], N[y])
<1>1. /\ z \in Nat \ {0} /\ 1 \in 1 .. z /\ z \in 1 .. z
      /\ \A j \in 1 .. z : s[j] \in L
      /\ s[1] = C[n][b] /\ s[1] # nul
      /\ \A j \in 1 .. z : j + 1 <= z =>
            /\ \E f \in Branch : C[s[j]][f] = s[j + 1]
            /\ \A f \in Branch : C[s[j]][f] \in {nul, s[j + 1]}
            /\ s[j + 1] # nul
  BY DEF IsChain
<1>2. \A x \in L : N[x] \in PrefixLen /\ P[x] \in Key
  BY DEF NodesTyped
<1>3. \A j \in 1 .. z : j + 1 <= z =>
         /\ j + 1 \in 1 .. z
         /\ N[s[j]] < N[s[j + 1]]
         /\ IsPrefixOf(P[s[j]], N[s[j]], P[s[j + 1]], N[s[j + 1]])
  BY <1>1 DEF TrieShape, ShapeEdges
<1>4. \A j \in 1 .. z : /\ N[n] < N[s[j]]
                        /\ IsPrefixOf(P[s[1]], N[s[1]], P[s[j]], N[s[j]])
  <2> DEFINE S == {j \in 1 .. z : /\ N[n] < N[s[j]]
                                  /\ IsPrefixOf(P[s[1]], N[s[1]], P[s[j]], N[s[j]])}
  <2>1. 1 \in S
    BY <1>1, <1>2, PrefixRefl DEF TrieShape, ShapeEdges
  <2>2. ASSUME NEW j \in 1 .. z, j + 1 <= z, j \in S
        PROVE  j + 1 \in S
    <3>1. N[n] < N[s[j + 1]]
      BY <2>2, <1>1, <1>2, <1>3 DEF PrefixLen
    <3>2. IsPrefixOf(P[s[1]], N[s[1]], P[s[j + 1]], N[s[j + 1]])
      BY <2>2, <1>1, <1>2, <1>3, PrefixTrans
    <3> QED BY <2>2, <1>3, <3>1, <3>2
  <2>3. 1 \in Nat /\ z \in Nat
    BY <1>1
  <2>4. \A j \in 1 .. z : j \in S
    <3> HIDE DEF S
    <3> QED BY <2>1, <2>2, <2>3, RangeInduction
  <2> QED BY <2>4
<1>5. \A j \in 1 .. z - 1 : N[s[j]] < N[s[z]]
  <2> SUFFICES ASSUME NEW j \in 1 .. z - 1
               PROVE  N[s[j]] < N[s[z]]
    OBVIOUS
  <2> DEFINE S == {i \in j + 1 .. z : N[s[j]] < N[s[i]]}
  <2>1. j + 1 \in S
    BY <1>1, <1>3
  <2>2. ASSUME NEW i \in j + 1 .. z, i + 1 <= z, i \in S
        PROVE  i + 1 \in S
    <3>1. i \in 1 .. z /\ j \in 1 .. z /\ i + 1 \in j + 1 .. z
      BY <2>2, <1>1
    <3>2. s[i] \in L /\ s[j] \in L /\ s[i + 1] \in L
      BY <3>1, <2>2, <1>1, <1>3
    <3>3. N[s[j]] < N[s[i + 1]]
      BY <2>2, <3>1, <3>2, <1>2, <1>3 DEF PrefixLen
    <3> QED BY <3>1, <3>3
  <2>3. j + 1 \in Nat /\ z \in Nat
    BY <1>1
  <2>4. \A i \in j + 1 .. z : i \in S
    <3> HIDE DEF S
    <3> QED BY <2>1, <2>2, <2>3, RangeInduction
  <2> QED BY <2>4, <1>1
<1>6. \A x \in L, f \in Branch, j \in 2 .. z : C[x][f] = s[j] => x = s[j - 1]
  <2> SUFFICES ASSUME NEW x \in L, NEW f \in Branch, NEW j \in 2 .. z, C[x][f] = s[j]
               PROVE  x = s[j - 1]
    OBVIOUS
  <2>1. j - 1 \in 1 .. z /\ j - 1 + 1 = j /\ j <= z
    BY <1>1
  <2>2. PICK g \in Branch : C[s[j - 1]][g] = s[j]
    BY <2>1, <1>1
  <2>3. s[j] # nul /\ s[j - 1] \in L
    BY <2>1, <1>1
  <2> QED BY <2>2, <2>3, ShapeOneParent
<1>7. ASSUME NEW y \in L, IsPrefixOf(P[s[1]], N[s[1]], P[y], N[y]),
             \A j \in 1 .. z - 1 : y # s[j]
      PROVE  IsPrefixOf(P[s[z]], N[s[z]], P[y], N[y])
  <2> DEFINE S == {j \in 1 .. z : IsPrefixOf(P[s[j]], N[s[j]], P[y], N[y])}
  <2>1. 1 \in S
    BY <1>1, <1>7
  <2>2. ASSUME NEW j \in 1 .. z, j + 1 <= z, j \in S
        PROVE  j + 1 \in S
    <3>1. y # s[j] /\ s[j] \in L /\ j + 1 \in 1 .. z
      BY <2>2, <1>1, <1>7
    <3>2. N[s[j]] < N[y]
      <4>1. N[s[j]] # N[y]
        BY <3>1, <2>2 DEF TrieShape, ShapeUnique
      <4> QED BY <4>1, <3>1, <2>2, <1>2 DEF IsPrefixOf, PrefixLen
    <3> DEFINE d == C[s[j]][BranchBits(P[y], N[s[j]])]
    <3>3. d # nul /\ IsPrefixOf(P[d], N[d], P[y], N[y])
      BY <3>1, <3>2, <2>2 DEF TrieShape, ShapePaths
    <3>4. BranchBits(P[y], N[s[j]]) \in Branch
      BY <3>1, <3>2, <1>2, BranchBitsType, KeyLenAssumption DEF PrefixLen
    <3>5. d = s[j + 1]
      BY <3>3, <3>4, <2>2, <1>1
    <3> QED BY <3>1, <3>3, <3>5
  <2>3. 1 \in Nat /\ z \in Nat
    BY <1>1
  <2>4. \A j \in 1 .. z : j \in S
    <3> HIDE DEF S
    <3> QED BY <2>1, <2>2, <2>3, RangeInduction
  <2> QED BY <2>4, <1>1
<1>8. \A y \in L : IsPrefixOf(P[s[1]], N[s[1]], P[y], N[y])
                   => \/ \E j \in 1 .. z - 1 : y = s[j]
                      \/ IsPrefixOf(P[s[z]], N[s[z]], P[y], N[y])
  BY <1>7
<1> QED BY <1>4, <1>5, <1>6, <1>8

FirstOf(s, z) == {s[j] : j \in 1 .. z}

\* Slot b of node n gets e; the other slots of the nodes of L stay.
Rewired(L, C, n, b, e, C2) ==
    \A x \in L, f \in Branch : C2[x][f] = IF x = n /\ f = b THEN e ELSE C[x][f]

\* The chain is bypassed: its last node takes the place of the first.
LEMMA ShapeBypass ==
    ASSUME NEW L, NEW P, NEW N, NEW C, NEW nul,
           NodesTyped(L, P, N), TrieShape(L, P, N, C, nul),
           NEW n \in L, NEW b \in Branch, NEW s, NEW z,
           IsChain(L, C, nul, n, b, s, z), s[z] # nul,
           NEW L2, L2 = L \ FirstOf(s, z - 1), NEW C2,
           Rewired(L2, C, n, b, s[z], C2)
    PROVE  TrieShape(L2, P, N, C2, nul) /\ n \in L2 /\ s[z] \in L2
<1>0. \A x \in L2, e \in Branch : C2[x][e] = IF x = n /\ e = b THEN s[z] ELSE C[x][e]
  BY DEF Rewired
<1>1. /\ z \in Nat \ {0} /\ 1 \in 1 .. z /\ z \in 1 .. z
      /\ \A j \in 1 .. z : s[j] \in L
      /\ s[1] = C[n][b] /\ s[1] # nul
  BY DEF IsChain
<1>2. \A x \in L : N[x] \in PrefixLen /\ P[x] \in Key
  BY DEF NodesTyped
<1>3. /\ \A j \in 1 .. z : /\ N[n] < N[s[j]]
                           /\ IsPrefixOf(P[s[1]], N[s[1]], P[s[j]], N[s[j]])
      /\ \A j \in 1 .. z - 1 : N[s[j]] < N[s[z]]
      /\ \A x \in L, f \in Branch, j \in 2 .. z : C[x][f] = s[j] => x = s[j - 1]
      /\ \A y \in L : IsPrefixOf(P[s[1]], N[s[1]], P[y], N[y])
                      => \/ \E j \in 1 .. z - 1 : y = s[j]
                         \/ IsPrefixOf(P[s[z]], N[s[z]], P[y], N[y])
  BY ChainFacts
<1>4. /\ \A x : x \in L2 <=> x \in L /\ \A j \in 1 .. z - 1 : x # s[j]
      /\ L2 \subseteq L
  BY DEF FirstOf
<1>5. n \in L2 /\ s[z] \in L2
  <2>1. \A j \in 1 .. z - 1 : j \in 1 .. z
    BY <1>1
  <2>2. \A j \in 1 .. z - 1 : n # s[j] /\ s[z] # s[j]
    BY <2>1, <1>1, <1>2, <1>3 DEF PrefixLen
  <2> QED BY <2>2, <1>1, <1>4
<1>6. ASSUME NEW x \in L2, NEW e \in Branch, C[x][e] # nul, ~ (x = n /\ e = b)
      PROVE  C[x][e] \in L2
  <2>1. C[x][e] \in L
    BY <1>4, <1>6 DEF TrieShape, ShapeEdges
  <2>2. ASSUME NEW j \in 1 .. z - 1, C[x][e] = s[j]
        PROVE  FALSE
    <3>1. CASE j = 1
      BY <3>1, <2>2, <1>1, <1>4, <1>6, ShapeOneParent
    <3>2. CASE j # 1
      <4>1. j \in 2 .. z /\ j - 1 \in 1 .. z - 1
        BY <3>2, <1>1
      <4>2. x = s[j - 1]
        BY <4>1, <2>2, <1>3, <1>4
      <4> QED BY <4>1, <4>2, <1>4
    <3> QED BY <3>1, <3>2
  <2> QED BY <2>1, <2>2, <1>4
<1>7. /\ N[n] < N[s[z]]
      /\ IsPrefixOf(P[n], N[n], P[s[z]], N[s[z]])
      /\ BranchBits(P[s[z]], N[n]) = b
  <2>1. /\ N[n] < N[s[1]]
        /\ IsPrefixOf(P[n], N[n], P[s[1]], N[s[1]])
        /\ BranchBits(P[s[1]], N[n]) = b
    BY <1>1 DEF TrieShape, ShapeEdges
  <2>2. IsPrefixOf(P[s[1]], N[s[1]], P[s[z]], N[s[z]])
    BY <1>1, <1>3
  <2>3. IsPrefixOf(P[n], N[n], P[s[z]], N[s[z]])
    BY <2>1, <2>2, <1>1, <1>2, PrefixTrans
  <2>4. BranchBits(P[s[1]], N[n]) = BranchBits(P[s[z]], N[n])
    BY <2>1, <2>2, <1>1, <1>2, PrefixDigit
  <2> QED BY <2>1, <2>3, <2>4, <1>1, <1>3
<1>8. ShapeEdges(L2, P, N, C2, nul)
  <2> SUFFICES ASSUME NEW x \in L2, NEW e \in Branch, C2[x][e] # nul
               PROVE  /\ C2[x][e] \in L2
                      /\ N[x] < N[C2[x][e]]
                      /\ IsPrefixOf(P[x], N[x], P[C2[x][e]], N[C2[x][e]])
                      /\ BranchBits(P[C2[x][e]], N[x]) = e
    BY DEF ShapeEdges
  <2>1. CASE x = n /\ e = b
    BY <1>0, <2>1, <1>5, <1>7
  <2>2. CASE ~(x = n /\ e = b)
    <3>1. C2[x][e] = C[x][e] /\ x \in L
      BY <1>0, <2>2, <1>4
    <3> QED BY <3>1, <2>2, <1>6 DEF TrieShape, ShapeEdges
  <2> QED BY <2>1, <2>2
<1>9. ShapePaths(L2, P, N, C2, nul)
  <2> SUFFICES ASSUME NEW x \in L2, NEW y \in L2,
                      IsPrefixOf(P[x], N[x], P[y], N[y]),
                      N[x] < N[y]
               PROVE  LET d == C2[x][BranchBits(P[y], N[x])]
                      IN  d # nul /\ IsPrefixOf(P[d], N[d], P[y], N[y])
    BY DEF ShapePaths
  <2> DEFINE d == C[x][BranchBits(P[y], N[x])]
  <2>1. d # nul /\ IsPrefixOf(P[d], N[d], P[y], N[y])
    BY <1>4 DEF TrieShape, ShapePaths
  <2>2. BranchBits(P[y], N[x]) \in Branch
    BY <1>2, <1>4, BranchBitsType, KeyLenAssumption DEF PrefixLen
  <2>3. CASE x = n /\ BranchBits(P[y], N[x]) = b
    <3>1. IsPrefixOf(P[s[1]], N[s[1]], P[y], N[y])
      BY <2>1, <2>3, <1>1
    <3>2. IsPrefixOf(P[s[z]], N[s[z]], P[y], N[y])
      BY <3>1, <1>3, <1>4
    <3> QED BY <1>0, <3>2, <2>2, <2>3
  <2>4. CASE ~(x = n /\ BranchBits(P[y], N[x]) = b)
    BY <1>0, <2>1, <2>2, <2>4
  <2> QED BY <2>3, <2>4
<1>10. ShapeUnique(L2, P, N)
  BY <1>4 DEF TrieShape, ShapeUnique
<1> QED BY <1>5, <1>8, <1>9, <1>10 DEF TrieShape

\* Two prefixes that share their first a + 1 digits, and where they part.
LEMMA PartFact ==
    ASSUME NEW p \in Key, NEW a \in PrefixLen, NEW q \in Key, NEW m \in PrefixLen,
           NEW k \in Key, NEW l,
           IsPrefixOf(p, a, k, KeyLen), IsPrefixOf(p, a, q, m), a < m,
           BranchBits(q, a) = BranchBits(k, a),
           l = MatchLen(q, m, k, KeyLen), l # m
    PROVE  /\ l \in PrefixLen /\ a < l /\ l < m /\ l < KeyLen
           /\ IsPrefixOf(p, a, Truncate(k, l), l)
           /\ BranchBits(Truncate(k, l), a) = BranchBits(k, a)
           /\ BranchBits(q, l) \in Branch
<1>1. KeyLen \in PrefixLen /\ KeyLen \in Nat /\ a \in Nat /\ m \in Nat /\ m <= KeyLen
  BY KeyLenAssumption DEF PrefixLen
<1>2. /\ l \in PrefixLen /\ l <= m
      /\ \A i \in 1 .. l : q[i] = k[i]
      /\ \A j \in PrefixLen : /\ j <= m /\ j <= KeyLen
                              /\ \A i \in 1 .. j : q[i] = k[i]
                              => j <= l
  BY <1>1, MatchLenFact
<1>3. l < m /\ l < KeyLen /\ l \in Nat
  BY <1>1, <1>2 DEF PrefixLen
<1>4. a < l
  <2>1. a + 1 \in PrefixLen /\ a + 1 <= m /\ a + 1 <= KeyLen
    BY <1>1 DEF PrefixLen
  <2>2. ASSUME NEW i \in 1 .. a + 1 PROVE q[i] = k[i]
    <3>1. CASE i = a + 1
      BY <3>1 DEF BranchBits
    <3>2. CASE i # a + 1
      <4>1. i \in 1 .. a
        BY <3>2, <1>1
      <4> QED BY <4>1 DEF IsPrefixOf
    <3> QED BY <3>1, <3>2
  <2>3. a + 1 <= l
    BY <2>1, <2>2, <1>2
  <2> QED BY <2>3, <1>1, <1>3
<1>5. IsPrefixOf(p, a, Truncate(k, l), l)
  <2>1. IsPrefixOf(p, a, k, l)
    BY <1>1, <1>3, <1>4 DEF IsPrefixOf
  <2> QED BY <2>1, <1>2, TruncateFact
<1>6. BranchBits(Truncate(k, l), a) = BranchBits(k, a)
  BY <1>1, <1>3, <1>4 DEF BranchBits, Truncate
<1>7. BranchBits(q, l) \in Branch
  BY <1>2, <1>3, BranchBitsType
<1> QED BY <1>2, <1>3, <1>4, <1>5, <1>6, <1>7

-----------------------------------------------------------------------------
(* The reference digest *)

\* l is the number of digits that the keys of K have in common.
Shares(K, l) ==
    /\ l \in PrefixLen
    /\ \A j, k \in K : \A i \in 1 .. l : j[i] = k[i]
    /\ l < KeyLen => \E j, k \in K : j[l + 1] # k[l + 1]

LEMMA SharesUnique ==
    ASSUME NEW K, NEW l, NEW m, Shares(K, l), Shares(K, m)
    PROVE  l = m
<1>1. ASSUME NEW a, NEW b, Shares(K, a), Shares(K, b), a < b PROVE FALSE
  <2>1. a \in Nat /\ b \in Nat /\ a + 1 \in 1 .. b /\ a < KeyLen
    BY <1>1, KeyLenAssumption DEF Shares, PrefixLen
  <2>2. PICK j \in K, k \in K : j[a + 1] # k[a + 1]
    BY <1>1, <2>1 DEF Shares
  <2> QED BY <1>1, <2>1, <2>2 DEF Shares
<1>2. l \in Nat /\ m \in Nat
  BY KeyLenAssumption DEF Shares, PrefixLen
<1> QED BY <1>1, <1>2

LEMMA SharedLenFact ==
    ASSUME NEW K \in SUBSET Key, K # {}
    PROVE  Shares(K, SharedLen(K))
<1> DEFINE S == {l \in PrefixLen : l = KeyLen \/ \E j, k \in K : j[l + 1] # k[l + 1]}
<1>1. KeyLen \in Nat /\ S \in SUBSET Nat /\ KeyLen \in S
  BY KeyLenAssumption DEF PrefixLen
<1>2. PICK m \in S : \A n \in S : m <= n
  BY <1>1, LeastNat
<1>3. m \in PrefixLen /\ m \in Nat /\ m <= KeyLen
  BY <1>1, <1>2 DEF PrefixLen
<1>4. ASSUME NEW j \in K, NEW k \in K, NEW i \in 1 .. m, j[i] # k[i] PROVE FALSE
  <2>1. i - 1 \in PrefixLen /\ (i - 1) + 1 = i /\ i - 1 < m
    BY <1>1, <1>3 DEF PrefixLen
  <2>2. i - 1 \in S
    BY <2>1, <1>4
  <2> QED BY <2>1, <2>2, <1>1, <1>2
<1>5. Shares(K, m)
  BY <1>2, <1>3, <1>4 DEF Shares
<1>6. SharedLen(K) = CHOOSE l : l \in PrefixLen /\ Shares(K, l)
  BY DEF SharedLen, Shares
<1>7. \E l : l \in PrefixLen /\ Shares(K, l)
  BY <1>3, <1>5
<1> QED BY <1>6, <1>7

\* Keys with the same next digit have more in common.
LEMMA TowardsFact ==
    ASSUME NEW K \in SUBSET Key, NEW l, Shares(K, l), l < KeyLen, NEW b
    PROVE  /\ Towards(K, l, b) \in SUBSET K
           /\ Towards(K, l, b) # {} => l < SharedLen(Towards(K, l, b))
<1>1. PICK T : T = Towards(K, l, b)
  OBVIOUS
<1>2. T \in SUBSET K /\ \A k \in T : k[l + 1] = b
  BY <1>1 DEF Towards
<1>3. ASSUME T # {} PROVE l < SharedLen(T)
  <2>1. PICK m : m = SharedLen(T)
    OBVIOUS
  <2>2. Shares(T, m)
    BY <1>2, <1>3, <2>1, SharedLenFact
  <2>3. l \in Nat /\ m \in Nat /\ m <= KeyLen
    BY <2>2, KeyLenAssumption DEF Shares, PrefixLen
  <2>4. ASSUME m <= l PROVE FALSE
    <3>1. PICK j \in T, k \in T : j[m + 1] # k[m + 1]
      BY <2>2, <2>3, <2>4, KeyLenAssumption DEF Shares
    <3>2. CASE m = l
      BY <3>1, <3>2, <1>2
    <3>3. CASE m < l
      <4>1. m + 1 \in 1 .. l
        BY <2>3, <3>3
      <4> QED BY <3>1, <4>1, <1>2 DEF Shares
    <3> QED BY <2>3, <2>4, <3>2, <3>3
  <2> QED BY <2>1, <2>3, <2>4
<1> QED BY <1>1, <1>2, <1>3

LEMMA FromSame ==
    ASSUME NEW kv, NEW nohash, NEW K, NEW d, NEW e,
           K # {} /\ SharedLen(K) # KeyLen =>
               \A b \in Branch : d[Towards(K, SharedLen(K), b)] = e[Towards(K, SharedLen(K), b)]
    PROVE  DigestFrom(kv, nohash, K, d) = DigestFrom(kv, nohash, K, e)
<1>1. CASE K = {}
  BY <1>1 DEF DigestFrom
<1>2. CASE SharedLen(K) = KeyLen
  BY <1>2 DEF DigestFrom
<1>3. CASE K # {} /\ SharedLen(K) # KeyLen
  <2>1. [b \in Branch |-> d[Towards(K, SharedLen(K), b)]]
        = [b \in Branch |-> e[Towards(K, SharedLen(K), b)]]
    BY <1>3
  <2> QED BY <1>3, <2>1 DEF DigestFrom
<1> QED BY <1>1, <1>2, <1>3

\* The digests of the sets of keys are what their definition says.
LEMMA DigestsFact ==
    ASSUME NEW kv, NEW none, NEW nohash, DOMAIN kv \subseteq Key, NEW K \in SUBSET Active(kv, none)
    PROVE  Digests(kv, none, nohash)[K] = DigestFrom(kv, nohash, K, Digests(kv, none, nohash))
<1>1. PICK all : all = Active(kv, none) /\ all \subseteq Key
  BY DEF Active
<1> DEFINE D == SUBSET all
           R(f) == f = [S \in D |-> DigestFrom(kv, nohash, S, f)]
           Due(S, h) == S = {} \/ SharedLen(S) >= KeyLen - h
           H(g, h) == \A S \in D : Due(S, h) => g[S] = DigestFrom(kv, nohash, S, g)
           G == {h \in 0 .. KeyLen : \E g : H(g, h)}
<1>2. KeyLen \in Nat /\ 0 \in Nat /\ 0 \in 0 .. KeyLen /\ KeyLen \in 0 .. KeyLen
  BY KeyLenAssumption
<1>3. \A S \in D : S # {} => Shares(S, SharedLen(S)) /\ SharedLen(S) \in 0 .. KeyLen
  <2> SUFFICES ASSUME NEW S \in D, S # {}
               PROVE  Shares(S, SharedLen(S)) /\ SharedLen(S) \in 0 .. KeyLen
    OBVIOUS
  <2>1. S \in SUBSET Key
    BY <1>1
  <2>2. Shares(S, SharedLen(S))
    BY <2>1, SharedLenFact
  <2> QED BY <2>2 DEF Shares, PrefixLen
<1>4. \A S \in D, b \in Branch : S # {} /\ SharedLen(S) # KeyLen =>
         LET T == Towards(S, SharedLen(S), b)
         IN  T \in D /\ (T # {} => SharedLen(S) < SharedLen(T))
  <2> SUFFICES ASSUME NEW S \in D, NEW b \in Branch, S # {}, SharedLen(S) # KeyLen
               PROVE  LET T == Towards(S, SharedLen(S), b)
                      IN  T \in D /\ (T # {} => SharedLen(S) < SharedLen(T))
    OBVIOUS
  <2>1. S \in SUBSET Key /\ Shares(S, SharedLen(S)) /\ SharedLen(S) < KeyLen
    BY <1>1, <1>2, <1>3
  <2> QED BY <2>1, TowardsFact
<1>5. 0 \in G
  <2> DEFINE g == [S \in D |-> DigestFrom(kv, nohash, S, <<>>)]
  <2>1. ASSUME NEW S \in D, Due(S, 0) PROVE g[S] = DigestFrom(kv, nohash, S, g)
    <3>1. g[S] = DigestFrom(kv, nohash, S, <<>>)
      OBVIOUS
    <3> HIDE DEF g
    <3>2. S = {} \/ SharedLen(S) = KeyLen
      BY <2>1, <1>2, <1>3
    <3>3. DigestFrom(kv, nohash, S, <<>>) = DigestFrom(kv, nohash, S, g)
      BY <3>2, FromSame
    <3> QED BY <3>1, <3>3
  <2>2. H(g, 0)
    BY <2>1
  <2> HIDE DEF g, H
  <2> QED BY <2>2, <1>2
<1>6. ASSUME NEW h \in 0 .. KeyLen, h + 1 <= KeyLen, h \in G
      PROVE  h + 1 \in G
  <2>1. PICK g : H(g, h)
    BY <1>6
  <2> DEFINE g2 == [S \in D |-> IF Due(S, h) THEN g[S] ELSE DigestFrom(kv, nohash, S, g)]
  <2>2. \A S \in D : g2[S] = IF Due(S, h) THEN g[S] ELSE DigestFrom(kv, nohash, S, g)
    OBVIOUS
  <2> HIDE DEF g2
  <2>3. ASSUME NEW S \in D, Due(S, h + 1)
        PROVE  g2[S] = DigestFrom(kv, nohash, S, g2)
    <3>1. g2[S] = DigestFrom(kv, nohash, S, g)
      BY <2>1, <2>2
    <3>2. ASSUME S # {}, SharedLen(S) # KeyLen, NEW b \in Branch
          PROVE  g[Towards(S, SharedLen(S), b)] = g2[Towards(S, SharedLen(S), b)]
      <4>1. PICK T : T = Towards(S, SharedLen(S), b)
        OBVIOUS
      <4>2. T \in D /\ (T # {} => SharedLen(S) < SharedLen(T) /\ SharedLen(T) \in 0 .. KeyLen)
        BY <4>1, <3>2, <1>3, <1>4
      <4>3. SharedLen(S) \in 0 .. KeyLen /\ SharedLen(S) >= KeyLen - (h + 1)
        BY <2>3, <3>2, <1>3
      <4>4. Due(T, h)
        BY <4>2, <4>3, <1>2
      <4>5. g2[T] = g[T]
        BY <4>2, <4>4, <2>2
      <4> QED BY <4>1, <4>5
    <3>3. DigestFrom(kv, nohash, S, g) = DigestFrom(kv, nohash, S, g2)
      BY <3>2, FromSame
    <3> QED BY <3>1, <3>3
  <2>4. H(g2, h + 1)
    BY <2>3
  <2>5. h + 1 \in 0 .. KeyLen
    BY <1>2, <1>6
  <2> HIDE DEF H
  <2> QED BY <2>4, <2>5
<1>7. KeyLen \in G
  <2> HIDE DEF G
  <2> QED BY <1>2, <1>5, <1>6, RangeInduction
<1>8. PICK g : \A S \in D : g[S] = DigestFrom(kv, nohash, S, g)
  <2>1. PICK g : H(g, KeyLen)
    BY <1>7
  <2>2. ASSUME NEW S \in D PROVE Due(S, KeyLen)
    BY <1>2, <1>3
  <2> QED BY <2>1, <2>2
<1>9. \E f : R(f)
  <2> DEFINE f == [S \in D |-> g[S]]
  <2>1. \A S \in D : f[S] = g[S]
    OBVIOUS
  <2>2. ASSUME NEW S \in D PROVE g[S] = DigestFrom(kv, nohash, S, f)
    <3> HIDE DEF f
    <3>1. ASSUME S # {}, SharedLen(S) # KeyLen, NEW b \in Branch
          PROVE  g[Towards(S, SharedLen(S), b)] = f[Towards(S, SharedLen(S), b)]
      BY <3>1, <2>1, <1>4
    <3>2. DigestFrom(kv, nohash, S, g) = DigestFrom(kv, nohash, S, f)
      BY <3>1, FromSame
    <3> QED BY <3>2, <1>8
  <2>3. f = [S \in D |-> DigestFrom(kv, nohash, S, f)]
    <3>1. f = [S \in D |-> g[S]]
      OBVIOUS
    <3> HIDE DEF f
    <3> QED BY <3>1, <2>2
  <2> QED BY <2>3
<1>10. PICK f : f = (CHOOSE h : R(h)) /\ R(f)
  BY <1>9
<1>11. Digests(kv, none, nohash) = f
  BY <1>1, <1>10 DEF Digests
<1>12. K \in D
  BY <1>1
<1>13. f[K] = DigestFrom(kv, nohash, K, f)
  <2>1. f = [S \in D |-> DigestFrom(kv, nohash, S, f)]
    BY <1>10
  <2> QED BY <2>1, <1>12
<1> QED BY <1>11, <1>13

LEMMA FullTruncate ==
    ASSUME NEW p \in Key
    PROVE  Truncate(p, KeyLen) = p
<1>1. p = [i \in 1 .. KeyLen |-> p[i]]
  BY Zenon DEF Key
<1>2. \A i \in 1 .. KeyLen : (IF i <= KeyLen THEN p[i] ELSE 0) = p[i]
  BY KeyLenAssumption
<1> QED BY <1>1, <1>2 DEF Truncate

\* What stands for no trie is not the digest of one.
Distinct(nohash) == \A p, l, d : nohash # [pfx |-> p, len |-> l, body |-> d]

LEMMA DigestCases ==
    ASSUME NEW kv, NEW none, NEW nohash, DOMAIN kv \subseteq Key, Distinct(nohash),
           NEW K \in SUBSET Active(kv, none)
    PROVE  Digests(kv, none, nohash)[K] = nohash <=> K = {}
<1>1. PICK D : D = Digests(kv, none, nohash)
  OBVIOUS
<1>2. D[K] = DigestFrom(kv, nohash, K, D)
  BY <1>1, DigestsFact
<1>3. CASE K = {}
  BY <1>1, <1>2, <1>3 DEF DigestFrom
<1>4. CASE K # {}
  <2>1. D[K] # nohash
    BY <1>2, <1>4 DEF DigestFrom, Distinct
  <2> QED BY <2>1, <1>1, <1>4
<1> QED BY <1>3, <1>4

\* The keys of A below the prefix (p, l).
KeysUnder(A, p, l) == {k \in A : IsPrefixOf(p, l, k, KeyLen)}

\* The trie has a leaf for every key of A.
HasLeaves(L, P, N, A) == \A k \in A : \E x \in L : P[x] = k /\ N[x] = KeyLen

\* The keys below a child are those of its node with its digit next.
LEMMA ShapeTowards ==
    ASSUME NEW L, NEW P, NEW N, NEW C, NEW nul,
           NodesTyped(L, P, N), TrieShape(L, P, N, C, nul),
           NEW A \in SUBSET Key, HasLeaves(L, P, N, A),
           NEW n \in L, N[n] < KeyLen, NEW b \in Branch
    PROVE  LET K == KeysUnder(A, P[n], N[n])
               c == C[n][b]
           IN  /\ c = nul => Towards(K, N[n], b) = {}
               /\ c # nul => Towards(K, N[n], b) = KeysUnder(A, P[c], N[c])
<1>1. PICK l, p, c : l = N[n] /\ p = P[n] /\ c = C[n][b]
  OBVIOUS
<1>2. l \in PrefixLen /\ p \in Key /\ KeyLen \in PrefixLen /\ l < KeyLen
  BY <1>1, KeyLenAssumption DEF NodesTyped, PrefixLen
<1>3. PICK T : T = Towards(KeysUnder(A, p, l), l, b)
  OBVIOUS
<1>4. \A k : k \in T <=> k \in A /\ IsPrefixOf(p, l, k, KeyLen) /\ BranchBits(k, l) = b
  BY <1>3 DEF Towards, KeysUnder, BranchBits
<1>5. ASSUME NEW k \in T PROVE c # nul /\ IsPrefixOf(P[c], N[c], k, KeyLen)
  <2>1. PICK x \in L : P[x] = k /\ N[x] = KeyLen
    BY <1>4, <1>5 DEF HasLeaves
  <2> QED BY <1>1, <1>2, <1>4, <1>5, <2>1 DEF TrieShape, ShapePaths
<1>6. ASSUME c # nul, NEW k \in A, IsPrefixOf(P[c], N[c], k, KeyLen) PROVE k \in T
  <2>1. /\ c \in L /\ l < N[c] /\ IsPrefixOf(p, l, P[c], N[c])
        /\ BranchBits(P[c], l) = b
    BY <1>1, <1>6 DEF TrieShape, ShapeEdges
  <2>2. N[c] \in PrefixLen
    BY <2>1 DEF NodesTyped
  <2>3. IsPrefixOf(p, l, k, KeyLen)
    BY <1>2, <1>6, <2>1, <2>2, PrefixTrans
  <2>4. BranchBits(k, l) = b
    BY <1>2, <1>6, <2>1, <2>2, PrefixDigit
  <2> QED BY <1>4, <1>6, <2>3, <2>4
<1>7. c = nul => T = {}
  BY <1>5
<1>8. c # nul => T = KeysUnder(A, P[c], N[c])
  BY <1>4, <1>5, <1>6 DEF KeysUnder
<1> QED BY <1>1, <1>3, <1>7, <1>8

\* The digest h of a node with the digests of in its slots: nothing, that of
\* the only child with one, or the record of all.
Summary(p, l, of, nohash, h) ==
    /\ (\A b \in Branch : of[b] = nohash) => h = nohash
    /\ \A b \in Branch : of[b] # nohash /\ (\A e \in Branch \ {b} : of[e] = nohash) => h = of[b]
    /\ \A b, e \in Branch :
          b # e /\ of[b] # nohash /\ of[e] # nohash => h = [pfx |-> p, len |-> l, body |-> of]

\* Keys below (p, l) that differ in the next digit share just l digits.
LEMMA SharesBelow ==
    ASSUME NEW A \in SUBSET Key, NEW p \in Key, NEW l \in PrefixLen, l < KeyLen,
           NEW K, K = KeysUnder(A, p, l), NEW b, NEW e, b # e,
           Towards(K, l, b) # {}, Towards(K, l, e) # {}
    PROVE  /\ SharedLen(K) = l
           /\ Truncate(CHOOSE j \in K : TRUE, l) = Truncate(p, l)
<1>1. K \in SUBSET Key /\ K # {} /\ \A k \in K : \A i \in 1 .. l : k[i] = p[i]
  BY DEF KeysUnder, IsPrefixOf, Towards
<1>2. Shares(K, l)
  <2>1. PICK j \in K, k \in K : j[l + 1] = b /\ k[l + 1] = e
    BY DEF Towards
  <2>2. \A i, j2 \in K : \A d \in 1 .. l : i[d] = j2[d]
    BY <1>1
  <2> QED BY <2>1, <2>2 DEF Shares
<1>3. SharedLen(K) = l
  BY <1>1, <1>2, SharedLenFact, SharesUnique
<1>4. PICK k : k = (CHOOSE j \in K : TRUE) /\ k \in K
  BY <1>1
<1>5. Truncate(k, l) = Truncate(p, l)
  <2>1. \A i \in 1 .. KeyLen : i <= l => i \in 1 .. l
    BY KeyLenAssumption DEF PrefixLen
  <2>2. \A i \in 1 .. KeyLen : (IF i <= l THEN k[i] ELSE 0) = (IF i <= l THEN p[i] ELSE 0)
    BY <1>1, <1>4, <2>1
  <2> QED BY <2>2 DEF Truncate
<1> QED BY <1>3, <1>4, <1>5

\* A summary of the digests of the parts is the digest of the whole.
LEMMA SummaryDigest ==
    ASSUME NEW kv, NEW none, NEW nohash, DOMAIN kv \subseteq Key, Distinct(nohash),
           NEW p \in Key, NEW l \in PrefixLen, l < KeyLen, p = Truncate(p, l),
           NEW K, K = KeysUnder(Active(kv, none), p, l),
           NEW of, of = [b \in Branch |-> Digests(kv, none, nohash)[Towards(K, l, b)]],
           NEW h, Summary(p, l, of, nohash, h)
    PROVE  h = Digests(kv, none, nohash)[K]
<1>1. PICK D, A : D = Digests(kv, none, nohash) /\ A = Active(kv, none)
  OBVIOUS
<1>2. A \in SUBSET Key /\ K \in SUBSET A
  BY <1>1 DEF Active, KeysUnder
<1>3. \A b : Towards(K, l, b) \in SUBSET K
  BY DEF Towards
<1>4. \A b \in Branch : of[b] = D[Towards(K, l, b)] /\ (of[b] = nohash <=> Towards(K, l, b) = {})
  <2>1. ASSUME NEW b \in Branch
        PROVE  D[Towards(K, l, b)] = nohash <=> Towards(K, l, b) = {}
    <3>1. Towards(K, l, b) \in SUBSET A
      BY <1>2, <1>3
    <3> QED BY <1>1, <3>1, DigestCases
  <2> QED BY <1>1, <2>1
<1>5. \A k \in K : \E b \in Branch : k \in Towards(K, l, b) /\ k[l + 1] = b
  <2> SUFFICES ASSUME NEW k \in K PROVE k[l + 1] \in Branch
    BY DEF Towards
  <2> QED BY <1>2, BranchBitsType DEF BranchBits
<1>6. CASE \A b \in Branch : of[b] = nohash
  <2>1. K = {}
    BY <1>4, <1>5, <1>6
  <2>2. D[K] = nohash
    BY <1>1, <1>2, <2>1, DigestCases
  <2> QED BY <1>1, <1>6, <2>2 DEF Summary
<1>7. ASSUME NEW b \in Branch, of[b] # nohash, \A e \in Branch \ {b} : of[e] = nohash
      PROVE  h = D[K]
  <2>1. K \in SUBSET Towards(K, l, b)
    BY <1>4, <1>5, <1>7
  <2>2. K = Towards(K, l, b)
    BY <2>1, <1>3
  <2> QED BY <2>2, <1>4, <1>7 DEF Summary
<1>8. ASSUME NEW b \in Branch, NEW e \in Branch, b # e, of[b] # nohash, of[e] # nohash
      PROVE  h = D[K]
  <2>1. Towards(K, l, b) # {} /\ Towards(K, l, e) # {}
    BY <1>4, <1>8
  <2>2. SharedLen(K) = l /\ Truncate(CHOOSE j \in K : TRUE, l) = p
    BY <1>1, <1>2, <1>8, <2>1, SharesBelow
  <2>3. K # {}
    BY <2>1, <1>3
  <2>4. D[K] = DigestFrom(kv, nohash, K, D)
    BY <1>1, <1>2, DigestsFact
  <2>5. DigestFrom(kv, nohash, K, D)
        = [pfx |-> Truncate(CHOOSE j \in K : TRUE, SharedLen(K)), len |-> SharedLen(K),
           body |-> [d \in Branch |-> D[Towards(K, SharedLen(K), d)]]]
    <3>1. SharedLen(K) # KeyLen
      BY <2>2, KeyLenAssumption DEF PrefixLen
    <3> QED BY <2>3, <3>1 DEF DigestFrom
  <2>6. of = [d \in Branch |-> D[Towards(K, l, d)]]
    BY <1>1
  <2>7. D[K] = [pfx |-> p, len |-> l, body |-> of]
    BY <2>2, <2>4, <2>5, <2>6
  <2>8. h = [pfx |-> p, len |-> l, body |-> of]
    BY <1>8 DEF Summary
  <2> QED BY <2>7, <2>8
<1> QED BY <1>1, <1>6, <1>7, <1>8

LEMMA LeafDigest ==
    ASSUME NEW kv, NEW none, NEW nohash, DOMAIN kv \subseteq Key, Distinct(nohash),
           NEW p \in Key, NEW K, K = KeysUnder(Active(kv, none), p, KeyLen)
    PROVE  Digests(kv, none, nohash)[K]
           = IF p \in Active(kv, none) THEN [pfx |-> p, len |-> KeyLen, body |-> <<kv[p]>>]
             ELSE nohash
<1>1. PICK D, A : D = Digests(kv, none, nohash) /\ A = Active(kv, none)
  OBVIOUS
<1>2. A \in SUBSET Key /\ K \in SUBSET A /\ \A k \in K : k = p
  BY <1>1, FullPrefix DEF Active, KeysUnder
<1>3. D[K] = DigestFrom(kv, nohash, K, D)
  BY <1>1, <1>2, DigestsFact
<1>4. CASE p \notin A
  <2>1. K = {}
    BY <1>2, <1>4
  <2> QED BY <1>1, <1>3, <1>4, <2>1 DEF DigestFrom
<1>5. CASE p \in A
  <2>1. K = {p}
    BY <1>1, <1>2, <1>5, PrefixRefl, KeyLenAssumption DEF KeysUnder, IsPrefixOf, PrefixLen
  <2>2. Shares(K, KeyLen)
    BY <2>1, KeyLenAssumption DEF Shares, PrefixLen
  <2>3. SharedLen(K) = KeyLen
    <3>1. K \in SUBSET Key /\ K # {}
      BY <2>1
    <3> QED BY <3>1, <2>2, SharedLenFact, SharesUnique
  <2>4. (CHOOSE j \in K : TRUE) = p
    BY <2>1
  <2>5. Truncate(p, KeyLen) = p
    BY FullTruncate
  <2>6. K # {}
    BY <2>1
  <2>7. DigestFrom(kv, nohash, K, D) = [pfx |-> p, len |-> KeyLen, body |-> <<kv[p]>>]
    BY <2>3, <2>4, <2>5, <2>6 DEF DigestFrom
  <2> QED BY <1>1, <1>3, <1>5, <2>7
<1> QED BY <1>1, <1>4, <1>5

\* h gives the nodes M of a trie the digests of what is below them: a leaf
\* that of its value, another node a summary of those of its children.
ChildHashes(C, nul, h, nohash, n) ==
    [b \in Branch |-> IF C[n][b] = nul THEN nohash ELSE h[C[n][b]]]
NodeHash(P, N, C, nul, kv, none, nohash, h, n) ==
    IF N[n] = KeyLen
    THEN h[n] = IF P[n] \in Active(kv, none)
                THEN [pfx |-> P[n], len |-> KeyLen, body |-> <<kv[P[n]]>>] ELSE nohash
    ELSE Summary(P[n], N[n], ChildHashes(C, nul, h, nohash, n), nohash, h[n])

\* When the children have their digests, the slots of the node hold those of
\* its keys by next digit.
LEMMA SlotDigests ==
    ASSUME NEW L, NEW P, NEW N, NEW C, NEW nul,
           NodesTyped(L, P, N), TrieShape(L, P, N, C, nul),
           NEW kv, NEW none, NEW nohash, DOMAIN kv \subseteq Key, Distinct(nohash),
           HasLeaves(L, P, N, Active(kv, none)),
           NEW h, NEW n \in L, N[n] < KeyLen,
           \A b \in Branch : C[n][b] # nul =>
               h[C[n][b]] = Digests(kv, none, nohash)[KeysUnder(Active(kv, none), P[C[n][b]], N[C[n][b]])]
    PROVE  ChildHashes(C, nul, h, nohash, n)
           = [b \in Branch |->
                Digests(kv, none, nohash)[Towards(KeysUnder(Active(kv, none), P[n], N[n]), N[n], b)]]
<1>1. PICK D, A : D = Digests(kv, none, nohash) /\ A = Active(kv, none) /\ A \in SUBSET Key
  BY DEF Active
<1>2. PICK l, K : l = N[n] /\ K = KeysUnder(A, P[n], N[n])
  OBVIOUS
<1>3. ASSUME NEW b \in Branch
      PROVE  (IF C[n][b] = nul THEN nohash ELSE h[C[n][b]]) = D[Towards(K, l, b)]
  <2>1. CASE C[n][b] = nul
    <3>1. Towards(K, l, b) = {}
      BY <1>1, <1>2, <2>1, ShapeTowards
    <3>2. {} \in SUBSET A /\ D[{}] = nohash
      BY <1>1, DigestCases
    <3> QED BY <2>1, <3>1, <3>2
  <2>2. CASE C[n][b] # nul
    <3>1. PICK c : c = C[n][b] /\ c # nul
      BY <2>2
    <3>2. Towards(K, l, b) = KeysUnder(A, P[c], N[c])
      BY <1>1, <1>2, <3>1, ShapeTowards
    <3>3. h[c] = D[KeysUnder(A, P[c], N[c])]
      BY <1>1, <3>1
    <3> QED BY <3>1, <3>2, <3>3
  <2> QED BY <2>1, <2>2
<1> QED BY <1>1, <1>2, <1>3 DEF ChildHashes

\* The digest of a node is that of the compressed trie of the keys below it.
LEMMA ShapeDigest ==
    ASSUME NEW L, NEW P, NEW N, NEW C, NEW nul,
           NodesTyped(L, P, N), TrieShape(L, P, N, C, nul),
           NEW kv, NEW none, NEW nohash, DOMAIN kv \subseteq Key, Distinct(nohash),
           HasLeaves(L, P, N, Active(kv, none)),
           \A x \in L : P[x] = Truncate(P[x], N[x]),
           NEW M \in SUBSET L,
           \A n \in M, b \in Branch : C[n][b] # nul => C[n][b] \in M,
           NEW h, \A n \in M : NodeHash(P, N, C, nul, kv, none, nohash, h, n),
           NEW n \in M
    PROVE  h[n] = Digests(kv, none, nohash)[KeysUnder(Active(kv, none), P[n], N[n])]
<1>1. PICK D, A : D = Digests(kv, none, nohash) /\ A = Active(kv, none) /\ A \in SUBSET Key
  BY DEF Active
<1> DEFINE Right(x) == h[x] = D[KeysUnder(A, P[x], N[x])]
           G == {i \in 0 .. KeyLen : \A x \in M : N[x] >= KeyLen - i => Right(x)}
<1>2. KeyLen \in Nat /\ 0 \in Nat /\ 0 \in 0 .. KeyLen /\ KeyLen \in 0 .. KeyLen
  BY KeyLenAssumption
<1>3. \A x \in L : N[x] \in Nat /\ N[x] <= KeyLen /\ N[x] \in PrefixLen /\ P[x] \in Key
  BY <1>2 DEF NodesTyped, PrefixLen
<1>4. ASSUME NEW x \in M, N[x] = KeyLen PROVE Right(x)
  <2>1. NodeHash(P, N, C, nul, kv, none, nohash, h, x) /\ P[x] \in Key
    BY <1>3
  <2>2. h[x] = IF P[x] \in Active(kv, none)
               THEN [pfx |-> P[x], len |-> KeyLen, body |-> <<kv[P[x]]>>] ELSE nohash
    BY <1>4, <2>1 DEF NodeHash
  <2>3. PICK K : K = KeysUnder(Active(kv, none), P[x], KeyLen)
    OBVIOUS
  <2>4. h[x] = Digests(kv, none, nohash)[K]
    BY <2>1, <2>2, <2>3, LeafDigest
  <2> QED BY <1>1, <1>4, <2>3, <2>4
<1>5. 0 \in G
  <2>1. ASSUME NEW x \in M, N[x] >= KeyLen - 0 PROVE Right(x)
    <3>1. N[x] = KeyLen
      BY <1>2, <1>3, <2>1
    <3> QED BY <1>4, <3>1
  <2> QED BY <1>2, <2>1
<1>6. ASSUME NEW i \in 0 .. KeyLen, i + 1 <= KeyLen, i \in G PROVE i + 1 \in G
  <2>1. ASSUME NEW x \in M, N[x] >= KeyLen - (i + 1) PROVE Right(x)
    <3>1. CASE N[x] = KeyLen
      BY <3>1, <1>4
    <3>2. CASE N[x] # KeyLen
      <4>1. x \in L /\ N[x] < KeyLen /\ N[x] \in PrefixLen /\ P[x] \in Key
        BY <3>2, <1>2, <1>3
      <4>2. ASSUME NEW b \in Branch, C[x][b] # nul PROVE Right(C[x][b])
        <5>1. PICK c : c = C[x][b]
          OBVIOUS
        <5>2. c \in M /\ c \in L /\ N[x] < N[c]
          BY <4>1, <4>2, <5>1 DEF TrieShape, ShapeEdges
        <5>3. N[c] >= KeyLen - i
          BY <1>2, <1>3, <2>1, <4>1, <5>2
        <5>4. Right(c)
          BY <1>6, <5>2, <5>3
        <5> QED BY <5>1, <5>4
      <4>3. PICK K : K = KeysUnder(Active(kv, none), P[x], N[x])
        OBVIOUS
      <4>4. ChildHashes(C, nul, h, nohash, x)
            = [b \in Branch |-> Digests(kv, none, nohash)[Towards(K, N[x], b)]]
        BY <1>1, <4>1, <4>2, <4>3, SlotDigests
      <4>5. Summary(P[x], N[x], ChildHashes(C, nul, h, nohash, x), nohash, h[x])
        <5>1. NodeHash(P, N, C, nul, kv, none, nohash, h, x)
          OBVIOUS
        <5> QED BY <3>2, <5>1 DEF NodeHash
      <4>6. P[x] = Truncate(P[x], N[x])
        BY <4>1
      <4>7. h[x] = Digests(kv, none, nohash)[K]
        BY <4>1, <4>3, <4>4, <4>5, <4>6, SummaryDigest
      <4> QED BY <1>1, <4>3, <4>7
    <3> QED BY <3>1, <3>2
  <2>2. i + 1 \in 0 .. KeyLen
    BY <1>2, <1>6
  <2> QED BY <2>1, <2>2
<1>7. KeyLen \in G
  <2> HIDE DEF G
  <2> QED BY <1>2, <1>5, <1>6, RangeInduction
<1>8. N[n] >= KeyLen - KeyLen
  BY <1>2, <1>3
<1>9. Right(n)
  BY <1>7, <1>8
<1> QED BY <1>1, <1>9

-----------------------------------------------------------------------------
(* What a digest commits to *)

LEMMA SameDigest ==
    ASSUME NEW p, NEW l, NEW d, NEW q, NEW m, NEW e,
           [pfx |-> p, len |-> l, body |-> d] = [pfx |-> q, len |-> m, body |-> e]
    PROVE  p = q /\ l = m /\ d = e
<1>1. PICK r : r = [pfx |-> p, len |-> l, body |-> d]
  OBVIOUS
<1>2. r = [pfx |-> q, len |-> m, body |-> e]
  BY <1>1
<1>3. r.pfx = p /\ r.len = l /\ r.body = d
  BY <1>1
<1>4. r.pfx = q /\ r.len = m /\ r.body = e
  BY <1>2
<1> QED BY <1>3, <1>4

\* What is in the digest of the keys K.
PartsOf(kv, D, A, K, p, l, d) ==
    /\ K \in SUBSET Key /\ Shares(K, l)
    /\ \A k \in K : p = Truncate(k, l)
    /\ l = KeyLen => \A k \in K : K = {k} /\ p = k /\ d = <<kv[k]>>
    /\ l # KeyLen =>
         /\ d = [b \in Branch |-> D[Towards(K, l, b)]]
         /\ l < KeyLen
         /\ \A b : /\ Towards(K, l, b) \in SUBSET A
                   /\ Towards(K, l, b) # {} => l < SharedLen(Towards(K, l, b))

LEMMA DigestParts ==
    ASSUME NEW kv, NEW none, NEW nohash, DOMAIN kv \subseteq Key,
           NEW D, D = Digests(kv, none, nohash), NEW A, A = Active(kv, none),
           NEW K \in SUBSET A, K # {},
           NEW p, NEW l, NEW d, D[K] = [pfx |-> p, len |-> l, body |-> d]
    PROVE  PartsOf(kv, D, A, K, p, l, d)
<1>1. PICK h, k0 : h = SharedLen(K) /\ k0 = CHOOSE j \in K : TRUE
  OBVIOUS
<1>2. K \in SUBSET Key /\ k0 \in K
  BY <1>1 DEF Active
<1>3. Shares(K, h)
  BY <1>1, <1>2, SharedLenFact
<1>4. D[K] = DigestFrom(kv, nohash, K, D)
  BY <1>1, DigestsFact
<1>5. PICK e : /\ e = IF h = KeyLen THEN <<kv[k0]>> ELSE [b \in Branch |-> D[Towards(K, h, b)]]
               /\ D[K] = [pfx |-> Truncate(k0, h), len |-> h, body |-> e]
  BY <1>1, <1>4 DEF DigestFrom
<1>6. Truncate(k0, h) = p /\ h = l /\ e = d
  BY <1>1, <1>5, SameDigest
<1>7. ASSUME NEW k \in K PROVE p = Truncate(k, l)
  <2>1. \A i \in 1 .. KeyLen : i <= l => k0[i] = k[i]
    BY <1>2, <1>3, <1>6, KeyLenAssumption DEF Shares, PrefixLen
  <2> QED BY <1>6, <2>1 DEF Truncate
<1>8. ASSUME l = KeyLen, NEW k \in K PROVE K = {k} /\ p = k /\ d = <<kv[k]>>
  <2>1. \A j \in K : j \in Key /\ Truncate(j, KeyLen) = j
    BY <1>2, FullTruncate
  <2>2. \A j \in K : j = p
    BY <1>7, <1>8, <2>1
  <2> QED BY <1>2, <1>5, <1>6, <1>8, <2>2
<1>9. ASSUME l # KeyLen
      PROVE  /\ d = [b \in Branch |-> D[Towards(K, l, b)]]
             /\ l < KeyLen
             /\ \A b : /\ Towards(K, l, b) \in SUBSET A
                       /\ Towards(K, l, b) # {} => l < SharedLen(Towards(K, l, b))
  <2>1. l < KeyLen
    BY <1>3, <1>6, <1>9, KeyLenAssumption DEF Shares, PrefixLen
  <2>2. \A b : /\ Towards(K, l, b) \in SUBSET K
               /\ Towards(K, l, b) # {} => l < SharedLen(Towards(K, l, b))
    BY <1>2, <1>3, <1>6, <2>1, TowardsFact
  <2> QED BY <1>5, <1>6, <1>9, <2>1, <2>2
<1> QED BY <1>2, <1>3, <1>6, <1>7, <1>8, <1>9 DEF PartsOf

\* Sets of keys with the same digest are the same, and so are their values.
LEMMA DigestSame ==
    ASSUME NEW kv, NEW kw, NEW none, NEW nohash, Distinct(nohash),
           DOMAIN kv \subseteq Key, DOMAIN kw \subseteq Key,
           NEW K0 \in SUBSET Active(kv, none), NEW J0 \in SUBSET Active(kw, none),
           Digests(kv, none, nohash)[K0] = Digests(kw, none, nohash)[J0]
    PROVE  K0 = J0 /\ \A k \in K0 : kv[k] = kw[k]
<1>0. PICK D, E, A, B : /\ D = Digests(kv, none, nohash) /\ E = Digests(kw, none, nohash)
                        /\ A = Active(kv, none) /\ B = Active(kw, none)
  OBVIOUS
<1>1. /\ D = Digests(kv, none, nohash) /\ E = Digests(kw, none, nohash)
      /\ A = Active(kv, none) /\ B = Active(kw, none)
      /\ A \subseteq Key /\ B \subseteq Key
  BY <1>0 DEF Active
<1> DEFINE Due(K, h) == K = {} \/ SharedLen(K) >= KeyLen - h
           Same(K, J) == K = J /\ \A k \in K : kv[k] = kw[k]
           G == {h \in 0 .. KeyLen : \A K \in SUBSET A, J \in SUBSET B :
                                        Due(K, h) /\ D[K] = E[J] => Same(K, J)}
<1>2. \A K \in SUBSET A : K # {} => SharedLen(K) \in 0 .. KeyLen
  <2> SUFFICES ASSUME NEW K \in SUBSET A, K # {} PROVE SharedLen(K) \in 0 .. KeyLen
    OBVIOUS
  <2>1. K \in SUBSET Key
    BY <1>1
  <2> QED BY <2>1, SharedLenFact DEF Shares, PrefixLen
<1>3. ASSUME NEW K \in SUBSET A, NEW J \in SUBSET B, D[K] = E[J],
             \A b \in Branch : \A T \in SUBSET A, U \in SUBSET B :
                 /\ K # {} /\ SharedLen(K) # KeyLen
                 /\ T = Towards(K, SharedLen(K), b) /\ D[T] = E[U]
                 => Same(T, U)
      PROVE  Same(K, J)
  <2>1. (D[K] = nohash <=> K = {}) /\ (E[J] = nohash <=> J = {})
    BY <1>1, DigestCases
  <2>2. CASE K = {}
    BY <1>3, <2>1, <2>2
  <2>3. CASE K # {}
    <3>1. J # {}
      BY <1>3, <2>1, <2>3
    <3>2. PICK p, l, d : D[K] = [pfx |-> p, len |-> l, body |-> d]
      <4>1. D[K] = DigestFrom(kv, nohash, K, D)
        BY <1>1, DigestsFact
      <4> QED BY <2>3, <4>1 DEF DigestFrom
    <3>3. /\ K \in SUBSET Key /\ Shares(K, l)
          /\ l = KeyLen => \A k \in K : K = {k} /\ p = k /\ d = <<kv[k]>>
          /\ l # KeyLen =>
               /\ d = [b \in Branch |-> D[Towards(K, l, b)]]
               /\ l < KeyLen
               /\ \A b : Towards(K, l, b) \in SUBSET A
      <4>1. PartsOf(kv, D, A, K, p, l, d)
        BY <1>1, <2>3, <3>2, DigestParts
      <4> QED BY <4>1 DEF PartsOf
    <3>4. /\ J \in SUBSET Key
          /\ l = KeyLen => \A k \in J : J = {k} /\ p = k /\ d = <<kw[k]>>
          /\ l # KeyLen =>
               /\ d = [b \in Branch |-> E[Towards(J, l, b)]]
               /\ \A b : Towards(J, l, b) \in SUBSET B
      <4>1. E[J] = [pfx |-> p, len |-> l, body |-> d]
        BY <1>3, <3>2
      <4>2. PartsOf(kw, E, B, J, p, l, d)
        BY <1>1, <3>1, <4>1, DigestParts
      <4> QED BY <4>2 DEF PartsOf
    <3>5. CASE l = KeyLen
      <4>1. PICK k \in K, j \in J : K = {k} /\ p = k /\ d = <<kv[k]>> /\ J = {j} /\ p = j /\ d = <<kw[j]>>
        BY <2>3, <3>1, <3>3, <3>4, <3>5
      <4>2. <<kv[k]>> = <<kw[k]>>
        BY <4>1
      <4> QED BY <4>1, <4>2
    <3>6. CASE l # KeyLen
      <4>1. l = SharedLen(K) /\ l < KeyLen /\ l \in PrefixLen
        <5>1. Shares(K, SharedLen(K))
          BY <2>3, <3>3, SharedLenFact
        <5> QED BY <3>3, <3>6, <5>1, SharesUnique DEF Shares
      <4>2. ASSUME NEW b \in Branch PROVE Same(Towards(K, l, b), Towards(J, l, b))
        <5>1. D[Towards(K, l, b)] = E[Towards(J, l, b)]
          <6>1. d[b] = D[Towards(K, l, b)]
            BY <3>3, <3>6
          <6>2. d[b] = E[Towards(J, l, b)]
            BY <3>4, <3>6
          <6> QED BY <6>1, <6>2
        <5>2. PICK T, U : T = Towards(K, l, b) /\ U = Towards(J, l, b)
          OBVIOUS
        <5>3. T \in SUBSET A /\ U \in SUBSET B /\ D[T] = E[U]
          BY <3>3, <3>4, <3>6, <5>1, <5>2
        <5>4. Same(T, U)
          <6> HIDE DEF Same
          <6> QED BY <1>3, <2>3, <3>6, <4>1, <5>2, <5>3
        <5> QED BY <5>2, <5>4
      <4>3. ASSUME NEW k \in Key PROVE k[l + 1] \in Branch
        BY <4>1, BranchBitsType DEF BranchBits
      <4>4. ASSUME NEW k \in K PROVE k \in J /\ kv[k] = kw[k]
        <5>1. k[l + 1] \in Branch /\ k \in Towards(K, l, k[l + 1])
          BY <3>3, <4>3 DEF Towards
        <5>2. k \in Towards(J, l, k[l + 1]) /\ kv[k] = kw[k]
          BY <4>2, <5>1
        <5> QED BY <5>2 DEF Towards
      <4>5. ASSUME NEW k \in J PROVE k \in K
        <5>1. k[l + 1] \in Branch /\ k \in Towards(J, l, k[l + 1])
          BY <3>4, <4>3 DEF Towards
        <5>2. k \in Towards(K, l, k[l + 1])
          BY <4>2, <5>1
        <5> QED BY <5>2 DEF Towards
      <4> QED BY <4>4, <4>5
    <3> QED BY <3>5, <3>6
  <2> QED BY <2>2, <2>3
<1> HIDE DEF Same
<1>4. 0 \in G
  <2>1. ASSUME NEW K \in SUBSET A, NEW J \in SUBSET B, Due(K, 0), D[K] = E[J] PROVE Same(K, J)
    <3>1. K = {} \/ SharedLen(K) = KeyLen
      BY <1>2, <2>1, KeyLenAssumption
    <3> QED BY <1>3, <2>1, <3>1
  <2> QED BY <2>1, KeyLenAssumption
<1>5. ASSUME NEW h \in 0 .. KeyLen, h + 1 <= KeyLen, h \in G PROVE h + 1 \in G
  <2>1. ASSUME NEW K \in SUBSET A, NEW J \in SUBSET B, Due(K, h + 1), D[K] = E[J]
        PROVE  Same(K, J)
    <3>1. ASSUME NEW b \in Branch, NEW T \in SUBSET A, NEW U \in SUBSET B,
                 K # {}, SharedLen(K) # KeyLen, T = Towards(K, SharedLen(K), b), D[T] = E[U]
          PROVE  Same(T, U)
      <4>1. K \in SUBSET Key /\ Shares(K, SharedLen(K)) /\ SharedLen(K) \in 0 .. KeyLen
        BY <1>1, <1>2, <3>1, SharedLenFact
      <4>2. T # {} => SharedLen(K) < SharedLen(T)
        BY <3>1, <4>1, TowardsFact, KeyLenAssumption
      <4>3. Due(T, h)
        BY <1>2, <1>5, <2>1, <3>1, <4>1, <4>2, KeyLenAssumption
      <4> QED BY <1>5, <3>1, <4>3
    <3> QED BY <1>3, <2>1, <3>1
  <2>2. h + 1 \in 0 .. KeyLen
    BY <1>5, KeyLenAssumption
  <2> QED BY <2>1, <2>2
<1>6. KeyLen \in G
  <2> HIDE DEF G
  <2>1. 0 \in Nat /\ KeyLen \in Nat /\ KeyLen \in 0 .. KeyLen
    BY KeyLenAssumption
  <2> QED BY <1>4, <1>5, <2>1, RangeInduction
<1>7. Due(K0, KeyLen)
  BY <1>1, <1>2, KeyLenAssumption
<1>8. Same(K0, J0)
  BY <1>1, <1>6, <1>7
<1> QED BY <1>8 DEF Same

\* The digest of a trie commits to what the trie holds: two maps over the same
\* keys that have the same digest are the same map.
THEOREM DigestCommits ==
    ASSUME NEW kv, NEW kw, NEW none, NEW nohash, Distinct(nohash),
           DOMAIN kv \subseteq Key, DOMAIN kw = DOMAIN kv,
           CanonicalDigest(kv, none, nohash) = CanonicalDigest(kw, none, nohash)
    PROVE  \A k \in DOMAIN kv : kv[k] = kw[k]
<1>0. PICK D, E, A, B : /\ D = Digests(kv, none, nohash) /\ E = Digests(kw, none, nohash)
                        /\ A = Active(kv, none) /\ B = Active(kw, none)
  OBVIOUS
<1>1. /\ D = Digests(kv, none, nohash) /\ E = Digests(kw, none, nohash)
      /\ A = Active(kv, none) /\ B = Active(kw, none)
      /\ A \subseteq Key /\ B \subseteq Key
  BY <1>0 DEF Active
<1>2. PICK z, d, e : /\ d = [b \in Branch |-> D[Towards(A, 0, b)]]
                     /\ e = [b \in Branch |-> E[Towards(B, 0, b)]]
                     /\ [pfx |-> z, len |-> 0, body |-> d] = [pfx |-> z, len |-> 0, body |-> e]
  BY <1>1 DEF CanonicalDigest
<1>3. d = e
  BY <1>2, SameDigest
<1>4. ASSUME NEW b \in Branch
      PROVE  /\ Towards(A, 0, b) = Towards(B, 0, b)
             /\ \A k \in Towards(A, 0, b) : kv[k] = kw[k]
  <2>1. d[b] = D[Towards(A, 0, b)] /\ e[b] = E[Towards(B, 0, b)]
    BY <1>2
  <2>2. PICK T, U : T = Towards(A, 0, b) /\ U = Towards(B, 0, b)
    OBVIOUS
  <2>3. T \in SUBSET Active(kv, none) /\ U \in SUBSET Active(kw, none)
    BY <1>1, <2>2 DEF Towards
  <2>4. Digests(kv, none, nohash)[T] = Digests(kw, none, nohash)[U]
    BY <1>1, <1>3, <2>1, <2>2
  <2>5. T = U /\ \A k \in T : kv[k] = kw[k]
    BY <2>3, <2>4, DigestSame
  <2> QED BY <2>2, <2>5
<1>5. ASSUME NEW k \in Key PROVE k[0 + 1] \in Branch
  BY KeyLenAssumption, BranchBitsType DEF BranchBits, PrefixLen
<1>6. ASSUME NEW k \in DOMAIN kv PROVE kv[k] = kw[k]
  <2>1. CASE k \in A
    <3>1. k[0 + 1] \in Branch /\ k \in Towards(A, 0, k[0 + 1])
      BY <1>1, <1>5, <2>1 DEF Towards
    <3> QED BY <1>4, <3>1
  <2>2. CASE k \in B
    <3>1. k[0 + 1] \in Branch /\ k \in Towards(B, 0, k[0 + 1])
      BY <1>1, <1>5, <2>2 DEF Towards
    <3> QED BY <1>4, <3>1
  <2>3. CASE k \notin A /\ k \notin B
    BY <1>1, <1>6, <2>3 DEF Active
  <2> QED BY <2>1, <2>2, <2>3
<1> QED BY <1>6

=============================================================================
