------------------------- MODULE SnapshotTrieProofs -------------------------
(***************************************************************************)
(* Proofs about the snapshot trie, for every number of threads, keys,      *)
(* nodes, every branching and every key length: that its nodes form a trie *)
(* at all times, and that it implements the map of KVMap.                  *)
(***************************************************************************)
EXTENDS SnapshotTrieInv, TriePrefixTheorems

-----------------------------------------------------------------------------
(* What a step that changes the tree does to the shape of the tree *)

\* The types of the tree, which the lemmas need of TypeOK.
TreeType ==
    /\ live \in SUBSET Addr
    /\ gc \in SUBSET Addr
    /\ pfx \in [Addr -> Key]
    /\ len \in [Addr -> PrefixLen]
    /\ child \in [Addr -> [Branch -> Pointer]]

\* A new node without children in a slot that is empty.
LEMMA AttachTree ==
    ASSUME TreeType, TreeOK,
           NEW n \in live, NEW k \in Key, NEW m \in PrefixLen,
           IsPrefixOf(pfx[n], len[n], k, m), len[n] < m,
           child[n][Slot(n, k)] = NULL,
           NEW a \in Free, NEW v, Publish(n, Slot(n, k), a, k, m, NoChildren, v)
    PROVE  TreeOK'
<1> DEFINE b == BranchBits(k, len[n])
<1>0. /\ live \subseteq Addr /\ n \in Addr /\ a \in Addr /\ a \notin live
      /\ a \notin gc /\ a # NULL
  BY AddrAssumption DEF TreeType, Free
<1>1. /\ \A x \in live : len[x] \in PrefixLen /\ pfx[x] \in Key /\ x \in Addr
      /\ b \in Branch
  BY <1>0, BranchBitsType, KeyLenAssumption DEF TreeType, PrefixLen
<1>2. /\ live' = live \cup {a}
      /\ \A x \in live : pfx'[x] = pfx[x] /\ len'[x] = len[x]
      /\ pfx'[a] = k /\ len'[a] = m
      /\ \A c \in Branch : child'[a][c] = NULL
      /\ \A x \in live, c \in Branch :
            child'[x][c] = IF x = n /\ c = b THEN a ELSE child[x][c]
  BY <1>0, <1>1 DEF Publish, NoChildren, TreeType, Slot
<1> HIDE DEF b
<1>3. \A x \in live :
        IsPrefixOf(pfx[n], len[n], pfx[x], len[x]) /\ len[n] < len[x]
        => BranchBits(pfx[x], len[n]) # b
  BY DEF TreeOK, PathsComplete, Above, Slot, b
<1>4. EdgesDescend'
  <2> SUFFICES ASSUME NEW x \in live', NEW c \in Branch, child'[x][c] # NULL
               PROVE  /\ child'[x][c] \in live'
                      /\ len'[x] < len'[child'[x][c]]
                      /\ IsPrefixOf(pfx'[x], len'[x], pfx'[child'[x][c]],
                                    len'[child'[x][c]])
                      /\ BranchBits(pfx'[child'[x][c]], len'[x]) = c
    BY DEF EdgesDescend, Above
  <2>1. x \in live
    BY <1>2
  <2>2. CASE x = n /\ c = b
    BY <2>1, <2>2, <1>2 DEF b
  <2>3. CASE ~(x = n /\ c = b)
    BY <2>1, <2>3, <1>2 DEF TreeOK, EdgesDescend, Above
  <2> QED BY <2>2, <2>3
<1>5. \A x \in live :
        len[n] < len[x] /\ (\/ IsPrefixOf(k, m, pfx[x], len[x])
                            \/ IsPrefixOf(pfx[x], len[x], k, m)) => FALSE
  <2> SUFFICES ASSUME NEW x \in live, len[n] < len[x],
                      \/ IsPrefixOf(k, m, pfx[x], len[x])
                      \/ IsPrefixOf(pfx[x], len[x], k, m)
               PROVE  FALSE
    OBVIOUS
  <2>1. len[n] \in PrefixLen /\ len[x] \in PrefixLen /\ len[n] <= len[x]
    BY <1>1 DEF PrefixLen
  <2>2. CASE IsPrefixOf(k, m, pfx[x], len[x])
    <3>1. IsPrefixOf(pfx[n], len[n], pfx[x], len[x])
      BY <2>1, <2>2, PrefixTrans
    <3>2. BranchBits(pfx[x], len[n]) = b
      BY <2>1, <2>2, PrefixDigit DEF b
    <3> QED BY <3>1, <3>2, <1>3
  <2>3. CASE IsPrefixOf(pfx[x], len[x], k, m)
    <3>1. IsPrefixOf(pfx[n], len[n], pfx[x], len[x])
      BY <2>1, <2>3, PrefixCompare
    <3>2. BranchBits(pfx[x], len[n]) = b
      BY <2>1, <2>3, PrefixDigit DEF b
    <3> QED BY <3>1, <3>2, <1>3
  <2> QED BY <2>2, <2>3
<1>6. NoDuplicates'
  <2> SUFFICES ASSUME NEW x \in live', NEW y \in live',
                      IsPrefixOf(pfx'[x], len'[x], pfx'[y], len'[y]),
                      len'[x] = len'[y]
               PROVE  x = y
    BY DEF NoDuplicates, Above
  <2>1. CASE x \in live /\ y \in live
    BY <2>1, <1>2 DEF TreeOK, NoDuplicates, Above
  <2>2. CASE x = a /\ y \in live
    BY <2>2, <1>2, <1>5
  <2>3. CASE y = a /\ x \in live
    BY <2>3, <1>2, <1>5
  <2> QED BY <2>1, <2>2, <2>3, <1>2
<1>7. PathsComplete'
  <2> SUFFICES ASSUME NEW x \in live', NEW y \in live',
                      IsPrefixOf(pfx'[x], len'[x], pfx'[y], len'[y]),
                      len'[x] < len'[y]
               PROVE  LET c == child'[x][BranchBits(pfx'[y], len'[x])]
                      IN  /\ c # NULL
                          /\ IsPrefixOf(pfx'[c], len'[c], pfx'[y], len'[y])
    BY DEF PathsComplete, Above, Slot
  <2>1. CASE x \in live /\ y \in live
    <3> DEFINE c == child[x][BranchBits(pfx[y], len[x])]
    <3>1. c # NULL /\ IsPrefixOf(pfx[c], len[c], pfx[y], len[y])
      BY <2>1, <1>2 DEF TreeOK, PathsComplete, Above, Slot
    <3>2. ~ (x = n /\ BranchBits(pfx[y], len[x]) = b)
      BY <2>1, <1>2, <1>3
    <3>3. BranchBits(pfx[y], len[x]) \in Branch
      BY <2>1, <1>1, <1>2, BranchBitsType, KeyLenAssumption DEF PrefixLen
    <3>4. c \in live
      BY <3>1, <3>3, <2>1 DEF TreeOK, EdgesDescend
    <3>5. child'[x][BranchBits(pfx'[y], len'[x])] = c
      BY <3>2, <3>3, <2>1, <1>2
    <3> QED BY <3>1, <3>4, <3>5, <2>1, <1>2
  <2>2. CASE x = a /\ y \in live
    <3>1. len[n] < len[y]
      BY <2>2, <1>1, <1>2 DEF PrefixLen
    <3> QED BY <3>1, <2>2, <1>2, <1>5
  <2>3. CASE x \in live /\ y = a
    <3>1. IsPrefixOf(pfx[x], len[x], k, m) /\ len[x] < m
      BY <2>3, <1>2
    <3>2. CASE len[x] < len[n]
      <4>1. IsPrefixOf(pfx[x], len[x], pfx[n], len[n])
        BY <3>1, <3>2, <2>3, <1>1, PrefixCompare DEF PrefixLen
      <4>2. BranchBits(k, len[x]) = BranchBits(pfx[n], len[x])
        BY <3>2, <2>3, <1>1, PrefixDigit
      <4> DEFINE c == child[x][BranchBits(pfx[n], len[x])]
      <4>3. c # NULL /\ IsPrefixOf(pfx[c], len[c], pfx[n], len[n])
        BY <4>1, <3>2, <2>3 DEF TreeOK, PathsComplete, Above, Slot
      <4>4. BranchBits(pfx[n], len[x]) \in Branch
        BY <3>2, <2>3, <1>1, BranchBitsType, KeyLenAssumption DEF PrefixLen
      <4>5. c \in live
        BY <4>3, <4>4, <2>3 DEF TreeOK, EdgesDescend
      <4>6. x # n
        BY <3>2, <1>1 DEF PrefixLen
      <4>7. child'[x][BranchBits(pfx'[y], len'[x])] = c
        BY <4>2, <4>4, <4>6, <2>3, <1>2
      <4>8. IsPrefixOf(pfx[c], len[c], k, m)
        BY <4>3, <4>5, <1>1, PrefixTrans
      <4> QED BY <4>3, <4>5, <4>7, <4>8, <2>3, <1>2
    <3>3. CASE len[x] = len[n]
      <4>1. IsPrefixOf(pfx[x], len[x], pfx[n], len[n])
        BY <3>1, <3>3, <2>3, <1>1, PrefixCompare DEF PrefixLen
      <4>2. x = n
        BY <4>1, <3>3, <2>3 DEF TreeOK, NoDuplicates, Above
      <4> QED BY <4>2, <2>3, <1>0, <1>1, <1>2, PrefixRefl DEF b
    <3>4. CASE len[n] < len[x]
      BY <3>1, <3>4, <1>5, <2>3
    <3> QED BY <3>2, <3>3, <3>4, <1>1, <2>3 DEF PrefixLen
  <2>4. ~ (x = a /\ y = a)
    BY <1>2 DEF PrefixLen
  <2> QED BY <2>1, <2>2, <2>3, <2>4, <1>2
<1> QED BY <1>4, <1>6, <1>7 DEF TreeOK

\* A new node between a node and its child.
LEMMA SplitTree ==
    ASSUME TreeType, TreeOK,
           NEW n \in live, NEW k \in Key, NEW m \in PrefixLen,
           IsPrefixOf(pfx[n], len[n], k, m), len[n] < m,
           NEW c, c = child[n][Slot(n, k)], c # NULL, ~Covers(c, k, m),
           SplitAddr(c, k, m) \in Free, PublishSplit(n, c, k, m)
    PROVE  /\ TreeOK'
           /\ len'[SplitAddr(c, k, m)] \in PrefixLen
           /\ len[n] < len'[SplitAddr(c, k, m)]
           /\ len'[SplitAddr(c, k, m)] <= m
           /\ len'[SplitAddr(c, k, m)] < KeyLen
           /\ pfx'[SplitAddr(c, k, m)] \in Key
           /\ IsPrefixOf(pfx'[SplitAddr(c, k, m)], len'[SplitAddr(c, k, m)], k, m)
<1> DEFINE b == BranchBits(k, len[n])
           a == SplitAddr(c, k, m)
           j == JoinLen(c, k, m)
           p == Truncate(k, j)
           d == BranchBits(pfx[c], j)
<1>0. /\ live \subseteq Addr /\ n \in Addr /\ a \in Addr /\ a \notin live
      /\ a \notin gc /\ a # NULL
  BY AddrAssumption DEF TreeType, Free
<1>1. /\ \A x \in live : len[x] \in PrefixLen /\ pfx[x] \in Key /\ x \in Addr
      /\ b \in Branch
  BY <1>0, BranchBitsType, KeyLenAssumption DEF TreeType, PrefixLen
<1>2. /\ c \in live /\ len[n] < len[c]
      /\ IsPrefixOf(pfx[n], len[n], pfx[c], len[c])
      /\ BranchBits(pfx[c], len[n]) = b
  BY <1>1 DEF TreeOK, EdgesDescend, Above, Slot
<1>3. /\ j \in PrefixLen /\ len[n] < j /\ j < len[c] /\ j <= m
      /\ \A i \in 1 .. j : pfx[c][i] = k[i]
  <2>1. /\ j \in PrefixLen /\ j <= len[c] /\ j <= m
        /\ \A i \in 1 .. j : pfx[c][i] = k[i]
        /\ \A l \in PrefixLen :
              l <= len[c] /\ l <= m /\ (\A i \in 1 .. l : pfx[c][i] = k[i]) => l <= j
    BY <1>1, <1>2, MatchLenFact DEF JoinLen
  <2> HIDE DEF j
  <2>2. len[n] + 1 <= j
    <3>1. \A i \in 1 .. len[n] + 1 : pfx[c][i] = k[i]
      BY <1>1, <1>2 DEF IsPrefixOf, BranchBits, b, PrefixLen
    <3>2. len[n] + 1 \in PrefixLen /\ len[n] + 1 <= len[c] /\ len[n] + 1 <= m
      BY <1>1, <1>2, KeyLenAssumption DEF PrefixLen
    <3> QED BY <3>1, <3>2, <2>1
  <2>3. j # len[c]
    BY <1>1, <1>2, <2>1 DEF Covers, JoinLen, j, PrefixLen
  <2> QED BY <1>1, <1>2, <2>1, <2>2, <2>3 DEF PrefixLen
<1>4. /\ p \in Key
      /\ IsPrefixOf(p, j, k, m)
      /\ IsPrefixOf(p, j, pfx[c], len[c])
      /\ IsPrefixOf(pfx[n], len[n], p, j)
      /\ BranchBits(p, len[n]) = b
      /\ d \in Branch
      /\ j < KeyLen
  <2> HIDE DEF j
  <2>1. p \in Key
    BY <1>3, TruncateFact
  <2>2. IsPrefixOf(p, j, k, m) /\ IsPrefixOf(p, j, k, j)
    BY <1>3, TruncateFact DEF PrefixLen
  <2>3. IsPrefixOf(p, j, pfx[c], len[c])
    BY <2>2, <1>1, <1>2, <1>3 DEF IsPrefixOf, PrefixLen
  <2>4. IsPrefixOf(pfx[n], len[n], p, j)
    BY <2>2, <1>1, <1>3, PrefixCompare DEF PrefixLen
  <2>5. BranchBits(p, len[n]) = b
    BY <2>2, <1>1, <1>3, PrefixDigit DEF b
  <2>6. j < KeyLen
    BY <1>1, <1>2, <1>3, KeyLenAssumption DEF PrefixLen
  <2>7. d \in Branch
    BY <2>6, <1>1, <1>2, <1>3, BranchBitsType
  <2> QED BY <2>1, <2>2, <2>3, <2>4, <2>5, <2>6, <2>7
<1>5. /\ live' = live \cup {a}
      /\ \A x \in live : pfx'[x] = pfx[x] /\ len'[x] = len[x]
      /\ pfx'[a] = p /\ len'[a] = j
      /\ \A e \in Branch : child'[a][e] = IF e = d THEN c ELSE NULL
      /\ \A x \in live, e \in Branch :
            child'[x][e] = IF x = n /\ e = b THEN a ELSE child[x][e]
  <2> HIDE DEF j, a
  <2>1. Publish(n, b, a, p, j, [NoChildren EXCEPT ![d] = c], NoValue)
    BY DEF PublishSplit, Slot, a, j
  <2> HIDE DEF p, b, d
  <2> QED BY <2>1, <1>0, <1>1, <1>4 DEF Publish, NoChildren, TreeType
<1> HIDE DEF a, j, p, d, b
\* The nodes below n towards k are the nodes below c.
<1>6. ASSUME NEW x \in live, len[n] < len[x],
             IsPrefixOf(pfx[n], len[n], pfx[x], len[x]),
             BranchBits(pfx[x], len[n]) = b
      PROVE  IsPrefixOf(pfx[c], len[c], pfx[x], len[x])
  BY <1>6 DEF TreeOK, PathsComplete, Above, Slot, b
\* Nothing that is comparable with the new node lies between n and c.
<1>7. ASSUME NEW x \in live, len[n] < len[x],
             \/ IsPrefixOf(p, j, pfx[x], len[x])
             \/ IsPrefixOf(pfx[x], len[x], p, j)
      PROVE  IsPrefixOf(pfx[c], len[c], pfx[x], len[x]) /\ j < len[x]
  <2>1. len[n] \in PrefixLen /\ len[x] \in PrefixLen /\ len[n] <= len[x]
    BY <1>1, <1>7 DEF PrefixLen
  <2>2. IsPrefixOf(pfx[n], len[n], pfx[x], len[x]) /\ BranchBits(pfx[x], len[n]) = b
    <3>1. CASE IsPrefixOf(p, j, pfx[x], len[x])
      BY <3>1, <2>1, <1>3, <1>4, PrefixTrans, PrefixDigit
    <3>2. CASE IsPrefixOf(pfx[x], len[x], p, j)
      BY <3>2, <2>1, <1>3, <1>4, <1>7, PrefixCompare, PrefixDigit
    <3> QED BY <3>1, <3>2, <1>7
  <2>3. IsPrefixOf(pfx[c], len[c], pfx[x], len[x])
    BY <2>2, <1>6, <1>7
  <2>4. len[c] <= len[x]
    BY <2>3 DEF IsPrefixOf
  <2> QED BY <2>1, <2>3, <2>4, <1>1, <1>2, <1>3 DEF PrefixLen
<1>8. EdgesDescend'
  <2> SUFFICES ASSUME NEW x \in live', NEW e \in Branch, child'[x][e] # NULL
               PROVE  /\ child'[x][e] \in live'
                      /\ len'[x] < len'[child'[x][e]]
                      /\ IsPrefixOf(pfx'[x], len'[x], pfx'[child'[x][e]],
                                    len'[child'[x][e]])
                      /\ BranchBits(pfx'[child'[x][e]], len'[x]) = e
    BY DEF EdgesDescend, Above
  <2>1. CASE x = a
    BY <2>1, <1>2, <1>3, <1>4, <1>5 DEF d
  <2>2. CASE x = n /\ e = b
    BY <2>2, <1>3, <1>4, <1>5
  <2>3. CASE x \in live /\ ~(x = n /\ e = b)
    BY <2>3, <1>5 DEF TreeOK, EdgesDescend, Above
  <2> QED BY <2>1, <2>2, <2>3, <1>5
<1>9. NoDuplicates'
  <2> SUFFICES ASSUME NEW x \in live', NEW y \in live',
                      IsPrefixOf(pfx'[x], len'[x], pfx'[y], len'[y]),
                      len'[x] = len'[y]
               PROVE  x = y
    BY DEF NoDuplicates, Above
  <2>1. CASE x \in live /\ y \in live
    BY <2>1, <1>5 DEF TreeOK, NoDuplicates, Above
  <2>2. CASE x = a /\ y \in live
    <3>1. len[y] = j /\ IsPrefixOf(p, j, pfx[y], len[y])
      BY <2>2, <1>5
    <3> QED BY <3>1, <2>2, <1>1, <1>3, <1>7 DEF PrefixLen
  <2>3. CASE y = a /\ x \in live
    <3>1. len[x] = j /\ IsPrefixOf(pfx[x], len[x], p, j)
      BY <2>3, <1>5
    <3> QED BY <3>1, <2>3, <1>1, <1>3, <1>7 DEF PrefixLen
  <2> QED BY <2>1, <2>2, <2>3, <1>5
<1>10. PathsComplete'
  <2> SUFFICES ASSUME NEW x \in live', NEW y \in live',
                      IsPrefixOf(pfx'[x], len'[x], pfx'[y], len'[y]),
                      len'[x] < len'[y]
               PROVE  LET e == child'[x][BranchBits(pfx'[y], len'[x])]
                      IN  /\ e # NULL
                          /\ IsPrefixOf(pfx'[e], len'[e], pfx'[y], len'[y])
    BY DEF PathsComplete, Above, Slot
  <2>1. CASE x \in live /\ y \in live
    <3> DEFINE e == child[x][BranchBits(pfx[y], len[x])]
    <3>1. e # NULL /\ IsPrefixOf(pfx[e], len[e], pfx[y], len[y])
      BY <2>1, <1>5 DEF TreeOK, PathsComplete, Above, Slot
    <3>2. BranchBits(pfx[y], len[x]) \in Branch
      BY <2>1, <1>1, <1>5, BranchBitsType, KeyLenAssumption DEF PrefixLen
    <3>3. e \in live
      BY <3>1, <3>2, <2>1 DEF TreeOK, EdgesDescend
    <3>4. CASE x = n /\ BranchBits(pfx[y], len[x]) = b
      <4>1. IsPrefixOf(pfx[c], len[c], pfx[y], len[y])
        BY <3>4, <2>1, <1>5, <1>6
      <4>2. IsPrefixOf(p, j, pfx[y], len[y])
        BY <4>1, <2>1, <1>1, <1>2, <1>3, <1>4, PrefixTrans
      <4> QED BY <4>2, <3>2, <3>4, <2>1, <1>0, <1>5
    <3>5. CASE ~ (x = n /\ BranchBits(pfx[y], len[x]) = b)
      <4>1. child'[x][BranchBits(pfx'[y], len'[x])] = e
        BY <3>2, <3>5, <2>1, <1>5
      <4> QED BY <4>1, <3>1, <3>3, <2>1, <1>5
    <3> QED BY <3>4, <3>5
  <2>2. CASE x = a /\ y \in live
    <3>1. IsPrefixOf(p, j, pfx[y], len[y]) /\ j < len[y]
      BY <2>2, <1>5
    <3>2. IsPrefixOf(pfx[c], len[c], pfx[y], len[y])
      <4>1. len[n] < len[y]
        BY <3>1, <2>2, <1>1, <1>3 DEF PrefixLen
      <4> QED BY <4>1, <3>1, <2>2, <1>7
    <3>3. BranchBits(pfx[y], j) = d
      BY <3>2, <2>2, <1>1, <1>2, <1>3, PrefixDigit DEF d
    <3>4. child'[x][BranchBits(pfx'[y], len'[x])] = c
      BY <3>3, <2>2, <1>4, <1>5
    <3> QED BY <3>2, <3>4, <2>2, <1>2, <1>5
  <2>3. CASE x \in live /\ y = a
    <3>1. IsPrefixOf(pfx[x], len[x], p, j) /\ len[x] < j
      BY <2>3, <1>5
    <3>2. CASE len[x] < len[n]
      <4>1. IsPrefixOf(pfx[x], len[x], pfx[n], len[n])
        BY <3>1, <3>2, <2>3, <1>1, <1>3, <1>4, PrefixCompare DEF PrefixLen
      <4>2. BranchBits(p, len[x]) = BranchBits(pfx[n], len[x])
        BY <3>2, <2>3, <1>1, <1>3, <1>4, PrefixDigit
      <4> DEFINE e == child[x][BranchBits(pfx[n], len[x])]
      <4>3. e # NULL /\ IsPrefixOf(pfx[e], len[e], pfx[n], len[n])
        BY <4>1, <3>2, <2>3 DEF TreeOK, PathsComplete, Above, Slot
      <4>4. BranchBits(pfx[n], len[x]) \in Branch
        BY <3>2, <2>3, <1>1, BranchBitsType, KeyLenAssumption DEF PrefixLen
      <4>5. e \in live
        BY <4>3, <4>4, <2>3 DEF TreeOK, EdgesDescend
      <4>6. x # n
        BY <3>2, <1>1 DEF PrefixLen
      <4>7. child'[x][BranchBits(pfx'[y], len'[x])] = e
        BY <4>2, <4>4, <4>6, <2>3, <1>5
      <4>8. IsPrefixOf(pfx[e], len[e], p, j)
        BY <4>3, <4>5, <1>1, <1>3, <1>4, PrefixTrans
      <4> QED BY <4>3, <4>5, <4>7, <4>8, <2>3, <1>5
    <3>3. CASE len[x] = len[n]
      <4>1. IsPrefixOf(pfx[x], len[x], pfx[n], len[n])
        BY <3>1, <3>3, <2>3, <1>1, <1>3, <1>4, PrefixCompare DEF PrefixLen
      <4>2. x = n
        BY <4>1, <3>3, <2>3 DEF TreeOK, NoDuplicates, Above
      <4>3. child'[x][BranchBits(pfx'[y], len'[x])] = a
        BY <4>2, <2>3, <1>1, <1>4, <1>5
      <4> QED BY <4>3, <2>3, <1>0, <1>3, <1>4, <1>5, PrefixRefl
    <3>4. CASE len[n] < len[x]
      <4>1. j < len[x]
        BY <3>1, <3>4, <1>7, <2>3
      <4> QED BY <4>1, <3>1, <2>3, <1>1, <1>3 DEF PrefixLen
    <3> QED BY <3>2, <3>3, <3>4, <1>1, <2>3 DEF PrefixLen
  <2>4. ~ (x = a /\ y = a)
    BY <1>3, <1>5 DEF PrefixLen
  <2> QED BY <2>1, <2>2, <2>3, <2>4, <1>5
<1> QED BY <1>3, <1>4, <1>5, <1>8, <1>9, <1>10 DEF TreeOK, a

\* A node has one parent.
LEMMA UniqueParent ==
    ASSUME TreeType, TreeOK,
           NEW m \in live, NEW n \in live, NEW e \in Branch, NEW b \in Branch,
           child[m][e] # NULL, child[m][e] = child[n][b]
    PROVE  m = n /\ e = b
<1> DEFINE c == child[m][e]
<1>1. /\ c \in live
      /\ len[m] < len[c] /\ IsPrefixOf(pfx[m], len[m], pfx[c], len[c])
      /\ BranchBits(pfx[c], len[m]) = e
      /\ len[n] < len[c] /\ IsPrefixOf(pfx[n], len[n], pfx[c], len[c])
      /\ BranchBits(pfx[c], len[n]) = b
  BY DEF TreeOK, EdgesDescend, Above
<1>2. /\ len[m] \in PrefixLen /\ len[n] \in PrefixLen /\ len[c] \in PrefixLen
      /\ c = child[n][b] /\ c = child[m][e]
  BY <1>1 DEF TreeType
<1> HIDE DEF c
<1>3. ASSUME NEW x \in live, NEW y \in live, NEW i \in Branch,
             c = child[x][i], len[x] < len[y], len[y] < len[c],
             len[x] \in PrefixLen, len[y] \in PrefixLen,
             IsPrefixOf(pfx[x], len[x], pfx[c], len[c]),
             IsPrefixOf(pfx[y], len[y], pfx[c], len[c]),
             BranchBits(pfx[c], len[x]) = i
      PROVE  FALSE
  <2>1. IsPrefixOf(pfx[x], len[x], pfx[y], len[y])
    BY <1>2, <1>3, PrefixCompare DEF PrefixLen
  <2>2. BranchBits(pfx[y], len[x]) = i
    BY <1>2, <1>3, PrefixDigit
  <2>3. IsPrefixOf(pfx[c], len[c], pfx[y], len[y])
    BY <2>1, <2>2, <1>3 DEF TreeOK, PathsComplete, Above, Slot
  <2> QED BY <2>3, <1>2, <1>3 DEF IsPrefixOf, PrefixLen
<1>4. len[m] = len[n]
  BY <1>1, <1>2, <1>3 DEF PrefixLen
<1>5. IsPrefixOf(pfx[m], len[m], pfx[n], len[n])
  BY <1>1, <1>2, <1>4, PrefixCompare DEF PrefixLen
<1>6. m = n
  BY <1>4, <1>5 DEF TreeOK, NoDuplicates, Above
<1> QED BY <1>1, <1>6

\* A child slot is emptied and everything below it leaves the tree.
LEMMA RemoveTree ==
    ASSUME TreeType, TreeOK,
           NEW n \in live, NEW b \in Branch, child[n][b] # NULL,
           live' = live \ Below(child[n][b]),
           child' = [child EXCEPT ![n][b] = NULL],
           UNCHANGED <<pfx, len>>
    PROVE  TreeOK'
<1> DEFINE c == child[n][b]
<1>1. /\ \A x \in live : len[x] \in PrefixLen /\ pfx[x] \in Key /\ x \in Addr
      /\ \A x \in live, e \in Branch :
            child'[x][e] = IF x = n /\ e = b THEN NULL ELSE child[x][e]
      /\ \A x : x \in live' <=> /\ x \in live
                                /\ ~ IsPrefixOf(pfx[c], len[c], pfx[x], len[x])
      /\ pfx' = pfx /\ len' = len
  BY DEF TreeType, Below
<1>2. /\ c \in live /\ len[n] < len[c]
      /\ IsPrefixOf(pfx[n], len[n], pfx[c], len[c])
      /\ BranchBits(pfx[c], len[n]) = b
  BY DEF TreeOK, EdgesDescend, Above
<1> HIDE DEF c
<1>3. EdgesDescend'
  <2> SUFFICES ASSUME NEW x \in live', NEW e \in Branch, child'[x][e] # NULL
               PROVE  /\ child'[x][e] \in live'
                      /\ len[x] < len[child'[x][e]]
                      /\ IsPrefixOf(pfx[x], len[x], pfx[child'[x][e]],
                                    len[child'[x][e]])
                      /\ BranchBits(pfx[child'[x][e]], len[x]) = e
    BY <1>1 DEF EdgesDescend, Above
  <2> DEFINE y == child[x][e]
  <2>1. x \in live /\ ~(x = n /\ e = b) /\ child'[x][e] = y /\ y # NULL
    BY <1>1
  <2>2. /\ y \in live /\ len[x] < len[y]
        /\ IsPrefixOf(pfx[x], len[x], pfx[y], len[y])
        /\ BranchBits(pfx[y], len[x]) = e
    BY <2>1 DEF TreeOK, EdgesDescend, Above
  <2>3. ASSUME IsPrefixOf(pfx[c], len[c], pfx[y], len[y])
        PROVE  FALSE
    <3>1. CASE len[c] <= len[x]
      <4>1. IsPrefixOf(pfx[c], len[c], pfx[x], len[x])
        BY <3>1, <2>1, <2>2, <2>3, <1>1, <1>2, PrefixCompare
      <4> QED BY <4>1, <1>1
    <3>2. CASE len[x] < len[c]
      <4>1. IsPrefixOf(pfx[x], len[x], pfx[c], len[c])
        BY <3>2, <2>1, <2>2, <2>3, <1>1, <1>2, PrefixCompare DEF PrefixLen
      <4>2. BranchBits(pfx[c], len[x]) = e
        BY <3>2, <2>1, <2>2, <2>3, <1>1, <1>2, PrefixDigit
      <4>3. IsPrefixOf(pfx[y], len[y], pfx[c], len[c])
        BY <4>1, <4>2, <3>2, <2>1, <1>2 DEF TreeOK, PathsComplete, Above, Slot
      <4>4. len[y] = len[c]
        BY <4>3, <2>2, <2>3, <1>1, <1>2 DEF IsPrefixOf, PrefixLen
      <4>5. y = c
        BY <4>3, <4>4, <2>2, <1>2 DEF TreeOK, NoDuplicates, Above
      <4> QED BY <4>5, <2>1, UniqueParent DEF c
    <3> QED BY <3>1, <3>2, <2>1, <1>1, <1>2 DEF PrefixLen
  <2> QED BY <2>1, <2>2, <2>3, <1>1
<1>4. NoDuplicates'
  BY <1>1 DEF TreeOK, NoDuplicates, Above
<1>5. PathsComplete'
  <2> SUFFICES ASSUME NEW x \in live', NEW y \in live',
                      IsPrefixOf(pfx[x], len[x], pfx[y], len[y]), len[x] < len[y]
               PROVE  LET e == child'[x][BranchBits(pfx[y], len[x])]
                      IN  /\ e # NULL
                          /\ IsPrefixOf(pfx[e], len[e], pfx[y], len[y])
    BY <1>1 DEF PathsComplete, Above, Slot
  <2> DEFINE i == BranchBits(pfx[y], len[x])
  <2>1. x \in live /\ y \in live
    BY <1>1
  <2>2. i \in Branch
    BY <2>1, <1>1, BranchBitsType, KeyLenAssumption DEF PrefixLen
  <2>3. child[x][i] # NULL /\ IsPrefixOf(pfx[child[x][i]], len[child[x][i]],
                                          pfx[y], len[y])
    BY <2>1 DEF TreeOK, PathsComplete, Above, Slot
  <2>4. ~ (x = n /\ i = b)
    BY <2>1, <2>3, <1>1 DEF c
  <2> QED BY <2>1, <2>2, <2>3, <2>4, <1>1
<1> QED BY <1>3, <1>4, <1>5 DEF TreeOK

\* compute_hash_and_normalize settles the children of n.
LEMMA HashTree ==
    ASSUME TreeType, TreeOK, NEW n \in live,
           live' = live \ Dropped(n),
           child' = ChildrenAfter(n),
           UNCHANGED <<pfx, len>>
    PROVE  TreeOK'
<1>1. /\ \A x \in live : len[x] \in PrefixLen /\ pfx[x] \in Key /\ x \in Addr
      /\ \A x \in live, b \in Branch : child[x][b] \in Pointer
      /\ pfx' = pfx /\ len' = len
      /\ \A x : x \in live' => x \in live /\ x \notin Dropped(n)
      /\ \A x \in live : x \notin Dropped(n) => x \in live'
      /\ NULL \notin live
  BY AddrAssumption DEF TreeType
<1>2. /\ \A b \in Branch : child'[n][b] = Settled(n, b)
      /\ \A x \in live', b \in Branch : x # n => child'[x][b] = child[x][b]
  BY <1>1 DEF ChildrenAfter
<1>3. \A x \in live, b \in Branch : child[x][b] # NULL =>
        /\ child[x][b] \in live
        /\ len[x] < len[child[x][b]]
        /\ IsPrefixOf(pfx[x], len[x], pfx[child[x][b]], len[child[x][b]])
        /\ BranchBits(pfx[child[x][b]], len[x]) = b
  BY DEF TreeOK, EdgesDescend, Above
<1>4. \A x \in live, b \in Branch :
        child[x][b] # NULL /\ child[x][b] \in Dropped(n) => x = n
  <2> SUFFICES ASSUME NEW x \in live, NEW b \in Branch,
                      child[x][b] # NULL, child[x][b] \in Dropped(n)
               PROVE  x = n
    OBVIOUS
  <2>1. PICK e \in Branch : child[n][e] = child[x][b]
    BY DEF Dropped
  <2> QED BY <2>1, UniqueParent
\* What may be in a slot of n afterwards.
<1>5. ASSUME NEW b \in Branch
      PROVE  LET c == child[n][b]
             IN  \/ c = NULL /\ Settled(n, b) = NULL
                 \/ c # NULL /\ Empty(c) /\ Settled(n, b) = NULL
                 \/ c # NULL /\ c \notin Dropped(n) /\ Settled(n, b) = c
                 \/ /\ c # NULL
                    /\ ~IsLeaf(c)
                    /\ \E e \in Branch : /\ Kids(c) = {e}
                                         /\ Settled(n, b) = child[c][e]
  <2> DEFINE c == child[n][b]
  <2>1. CASE c = NULL
    BY <2>1 DEF Settled
  <2>2. CASE c # NULL /\ Empty(c)
    <3>1. ~Single(c)
      BY <2>2 DEF Empty, Single
    <3> QED BY <3>1, <2>2 DEF Settled
  <2>3. CASE c # NULL /\ ~Empty(c) /\ Single(c)
    <3>1. Settled(n, b) = OnlyChild(c)
      BY <2>3 DEF Settled
    <3>2. \E e \in Branch : Kids(c) = {e} /\ OnlyChild(c) = child[c][e]
      BY <2>3 DEF Single, OnlyChild
    <3> QED BY <3>1, <3>2, <2>3 DEF Single
  <2>4. CASE c # NULL /\ ~Empty(c) /\ ~Single(c)
    <3>1. Settled(n, b) = c
      BY <2>4 DEF Settled
    <3> QED BY <3>1, <2>4 DEF Dropped
  <2> QED BY <2>1, <2>2, <2>3, <2>4
<1>6. EdgesDescend'
  <2> SUFFICES ASSUME NEW x \in live', NEW b \in Branch, child'[x][b] # NULL
               PROVE  /\ child'[x][b] \in live'
                      /\ len[x] < len[child'[x][b]]
                      /\ IsPrefixOf(pfx[x], len[x], pfx[child'[x][b]],
                                    len[child'[x][b]])
                      /\ BranchBits(pfx[child'[x][b]], len[x]) = b
    BY <1>1 DEF EdgesDescend, Above
  <2>1. CASE x # n
    BY <2>1, <1>1, <1>2, <1>3, <1>4
  <2>2. CASE x = n
    <3> DEFINE c == child[n][b]
    <3>1. child'[x][b] = Settled(n, b)
      BY <2>2, <1>2
    <3>2. CASE c # NULL /\ c \notin Dropped(n) /\ Settled(n, b) = c
      BY <3>1, <3>2, <2>2, <1>1, <1>3
    <3>3. CASE /\ c # NULL
               /\ ~IsLeaf(c)
               /\ \E e \in Branch : Kids(c) = {e} /\ Settled(n, b) = child[c][e]
      <4>1. PICK e \in Branch : Kids(c) = {e} /\ Settled(n, b) = child[c][e]
        BY <3>3
      <4> DEFINE d == child[c][e]
      <4>2. d # NULL /\ c \in live /\ d \in live
        BY <4>1, <3>3, <1>3 DEF Kids
      <4>3. /\ len[n] < len[c] /\ len[c] < len[d]
            /\ IsPrefixOf(pfx[n], len[n], pfx[c], len[c])
            /\ IsPrefixOf(pfx[c], len[c], pfx[d], len[d])
            /\ BranchBits(pfx[c], len[n]) = b
        BY <4>2, <3>3, <1>3
      <4>4. /\ len[n] < len[d]
            /\ IsPrefixOf(pfx[n], len[n], pfx[d], len[d])
            /\ BranchBits(pfx[d], len[n]) = b
        <5>1. len[n] < len[d]
          BY <4>2, <4>3, <1>1 DEF PrefixLen
        <5>2. IsPrefixOf(pfx[n], len[n], pfx[d], len[d])
          BY <4>2, <4>3, <1>1, PrefixTrans
        <5>3. BranchBits(pfx[d], len[n]) = b
          BY <4>2, <4>3, <1>1, PrefixDigit
        <5> QED BY <5>1, <5>2, <5>3
      <4>5. c # n
        BY <4>2, <4>3, <1>1 DEF PrefixLen
      <4>6. d \notin Dropped(n)
        BY <4>2, <4>5, <1>4
      <4> QED BY <4>1, <4>2, <4>4, <4>6, <3>1, <2>2, <1>1
    <3> QED BY <3>1, <3>2, <3>3, <1>5
  <2> QED BY <2>1, <2>2
<1>7. NoDuplicates'
  BY <1>1 DEF TreeOK, NoDuplicates, Above
<1>8. PathsComplete'
  <2> SUFFICES ASSUME NEW x \in live', NEW y \in live',
                      IsPrefixOf(pfx[x], len[x], pfx[y], len[y]), len[x] < len[y]
               PROVE  LET e == child'[x][BranchBits(pfx[y], len[x])]
                      IN  /\ e # NULL
                          /\ IsPrefixOf(pfx[e], len[e], pfx[y], len[y])
    BY <1>1 DEF PathsComplete, Above, Slot
  <2> DEFINE i == BranchBits(pfx[y], len[x])
             c == child[x][i]
  <2>1. x \in live /\ y \in live
    BY <1>1
  <2>2. i \in Branch
    BY <2>1, <1>1, BranchBitsType, KeyLenAssumption DEF PrefixLen
  <2>3. c # NULL /\ IsPrefixOf(pfx[c], len[c], pfx[y], len[y])
    BY <2>1 DEF TreeOK, PathsComplete, Above, Slot
  <2>4. c \in live
    BY <2>1, <2>2, <2>3, <1>3
  <2> HIDE DEF i, c
  <2>5. CASE x # n
    BY <2>1, <2>2, <2>3, <2>5, <1>2 DEF c, i
  <2>6. CASE x = n
    <3>1. c = child[n][i] /\ child'[x][i] = Settled(n, i)
      BY <2>2, <2>6, <1>2 DEF c
    <3>2. c \in Dropped(n) =>
            /\ len[c] < len[y]
            /\ child[c][BranchBits(pfx[y], len[c])] # NULL
            /\ IsPrefixOf(pfx[child[c][BranchBits(pfx[y], len[c])]],
                          len[child[c][BranchBits(pfx[y], len[c])]],
                          pfx[y], len[y])
            /\ BranchBits(pfx[y], len[c]) \in Branch
      <4> SUFFICES ASSUME c \in Dropped(n)
                   PROVE  /\ len[c] < len[y]
                          /\ child[c][BranchBits(pfx[y], len[c])] # NULL
                          /\ IsPrefixOf(pfx[child[c][BranchBits(pfx[y], len[c])]],
                                        len[child[c][BranchBits(pfx[y], len[c])]],
                                        pfx[y], len[y])
                          /\ BranchBits(pfx[y], len[c]) \in Branch
        OBVIOUS
      <4>1. c # y
        BY <1>1
      <4>2. len[c] < len[y]
        <5>1. len[c] <= len[y]
          BY <2>3 DEF IsPrefixOf
        <5>2. len[c] # len[y]
          BY <4>1, <2>1, <2>3, <2>4 DEF TreeOK, NoDuplicates, Above
        <5> QED BY <5>1, <5>2, <2>1, <2>4, <1>1 DEF PrefixLen
      <4>3. BranchBits(pfx[y], len[c]) \in Branch
        BY <4>2, <2>1, <2>4, <1>1, BranchBitsType, KeyLenAssumption DEF PrefixLen
      <4> QED BY <4>2, <4>3, <2>1, <2>3, <2>4
              DEF TreeOK, PathsComplete, Above, Slot
    <3>3. CASE c \notin Dropped(n)
      <4>1. ~Empty(c) /\ ~Single(c)
        BY <3>1, <3>3, <2>2, <2>4 DEF Dropped
      <4>2. Settled(n, i) = c
        BY <4>1, <3>1, <2>3 DEF Settled
      <4> QED BY <4>2, <3>1, <2>3 DEF i
    <3>4. CASE c \in Dropped(n)
      <4> DEFINE e == BranchBits(pfx[y], len[c])
      <4>1. e \in Kids(c) /\ len[c] < len[y]
        BY <3>2, <3>4 DEF Kids
      <4>2. ~IsLeaf(c)
        BY <4>1, <2>1, <2>4, <1>1, KeyLenAssumption DEF IsLeaf, PrefixLen
      <4>3. ~Empty(c)
        BY <4>1, <4>2 DEF Empty
      <4>4. PICK f \in Branch : Kids(c) = {f} /\ Settled(n, i) = child[c][f]
        BY <4>3, <3>1, <3>4, <2>2, <2>3, <1>5
      <4>5. f = e
        BY <4>1, <4>4
      <4> QED BY <4>4, <4>5, <3>1, <3>2, <3>4 DEF i
    <3> QED BY <3>3, <3>4
  <2> QED BY <2>5, <2>6
<1> QED BY <1>6, <1>7, <1>8 DEF TreeOK

-----------------------------------------------------------------------------
(* What a step does to the other threads *)

LEMMA TypeGivesTree == TypeOK => TreeType
BY DEF TypeOK, TreeType

\* The thread's variables stay as they are.
SameLocals(u) ==
    /\ pc'[u] = pc[u] /\ qk'[u] = qk[u] /\ ql'[u] = ql[u] /\ ref'[u] = ref[u]
    /\ key'[u] = key[u] /\ arg'[u] = arg[u] /\ cur'[u] = cur[u]
    /\ exp'[u] = exp[u]

\* Prefix and length of the nodes that exist stay as they are.
SameNodes ==
    /\ live \cup gc \subseteq live' \cup gc'
    /\ \A x \in live \cup gc : pfx'[x] = pfx[x] /\ len'[x] = len[x]

\* The tree may change in any way that keeps the nodes this thread uses.
LEMMA ThreadFrame ==
    ASSUME TypeOK, NEW u \in Threads, PointersOK(u), LocalsOK(u),
           SameLocals(u), SameNodes,
           Given(u) \/ pc[u] = "inv" => (ref[u] \in live => ref[u] \in live'),
           Inside(u) \/ pc[u] \in Requesting => (cur[u] \in live => cur[u] \in live'),
           pc[u] = "del" /\ HasLeaf(key[u]) => HasLeaf(key[u])'
    PROVE  PointersOK(u)' /\ LocalsOK(u)'
<1>1. /\ Given(u)' = Given(u) /\ Inside(u)' = Inside(u)
      /\ CasPending(u)' = CasPending(u)
      /\ Goal(u)' = Goal(u) /\ GoalLen(u)' = GoalLen(u)
  BY DEF SameLocals, Given, Inside, CasPending, Goal, GoalLen
<1>2. PointersOK(u)'
  <2>1. ASSUME Given(u)' \/ pc'[u] = "inv"
        PROVE  /\ ref'[u] \in live'
               /\ len'[ref'[u]] = ql'[u]
               /\ IsPrefixOf(pfx'[ref'[u]], len'[ref'[u]], qk'[u], ql'[u])
    BY <1>1, <2>1 DEF PointersOK, SameLocals, SameNodes
  <2>2. ASSUME Inside(u)' \/ pc'[u] \in Requesting
        PROVE  /\ cur'[u] \in live'
               /\ IsPrefixOf(pfx'[cur'[u]], len'[cur'[u]], Goal(u)', GoalLen(u)')
    BY <1>1, <2>2 DEF PointersOK, SameLocals, SameNodes
  <2>3. ASSUME CasPending(u)'
        PROVE  /\ len'[cur'[u]] < GoalLen(u)'
               /\ exp'[u] # NULL =>
                    /\ exp'[u] \in live' \cup gc'
                    /\ ~Covers(exp[u], Goal(u), GoalLen(u))'
    <3>1. CasPending(u) /\ (Inside(u) \/ pc[u] \in Requesting)
      BY <1>1, <2>3 DEF CasPending, Inside, Requesting
    <3>2. cur[u] \in live /\ len[cur[u]] < GoalLen(u)
      BY <3>1 DEF PointersOK
    <3>3. ASSUME exp[u] # NULL
          PROVE  /\ exp[u] \in live \cup gc
                 /\ ~Covers(exp[u], Goal(u), GoalLen(u))
      BY <3>1, <3>3 DEF PointersOK
    <3> QED BY <1>1, <3>2, <3>3 DEF SameLocals, SameNodes, Covers
  <2> QED BY <2>1, <2>2, <2>3 DEF PointersOK, Covers, SameLocals
<1>3. LocalsOK(u)'
  <2>1. ASSUME Inside(u)
        PROVE  cur[u] \in live /\ len'[cur[u]] = len[cur[u]]
    BY <2>1 DEF PointersOK, SameNodes
  <2>2. pc[u] \in {"ins", "ins_emplace", "ins_cas", "del", "del_exchange"}
            => Inside(u)
    BY DEF Inside
  <2>5. pc'[u] = "del" => HasLeaf(key[u])'
    BY DEF SameLocals, LocalsOK, HasLeaf
  <2> QED BY <1>1, <2>1, <2>2, <2>5 DEF LocalsOK, SameLocals, IsLeaf, HasLeaf
<1> QED BY <1>2, <1>3

\* A step of one thread that only adds nodes.
LEMMA ThreadStep ==
    ASSUME IndInv, NEW t \in Threads,
           TypeOK', TreeOK', MemoryOK',
           live \subseteq live', SameNodes,
           \A u \in Threads \ {t} : SameLocals(u),
           qk' = qk, ql' = ql, pc[t] # "idle", pc'[t] # "idle",
           PointersOK(t)', LocalsOK(t)'
    PROVE  IndInv'
<1>1. \A u \in Threads : PointersOK(u)' /\ LocalsOK(u)'
  <2> SUFFICES ASSUME NEW u \in Threads, u # t
               PROVE  PointersOK(u)' /\ LocalsOK(u)'
    OBVIOUS
  <2>1. SameLocals(u) /\ PointersOK(u) /\ LocalsOK(u) /\ TypeOK
    BY DEF IndInv, PointersStable
  <2>2. HasLeaf(key[u]) => HasLeaf(key[u])'
    BY <2>1 DEF HasLeaf, IsLeaf, SameNodes, SameLocals
  <2> QED BY <2>1, <2>2, ThreadFrame
<1>2. RangesOK'
  <2>1. \A u \in Threads : Working(u)' => Working(u)
    BY DEF Working, SameLocals
  <2> QED BY <2>1 DEF IndInv, RangesOK
<1> QED BY <1>1, <1>2 DEF IndInv, PointersStable

-----------------------------------------------------------------------------
(* Facts about a thread and the node it is at *)

LEMMA CoversPrefix ==
    ASSUME TypeOK, NEW c \in Addr, NEW k \in Key, NEW m \in PrefixLen
    PROVE  Covers(c, k, m) <=> IsPrefixOf(pfx[c], len[c], k, m)
BY CoversFact DEF TypeOK, Covers

LEMMA Busy ==
    ASSUME IndInv, NEW t \in Threads, pc[t] # "idle"
    PROVE  phase = "batch"
BY DEF IndInv, MemoryOK, TypeOK, AllIdle

LEMMA CurFacts ==
    ASSUME IndInv, NEW t \in Threads, Inside(t) \/ pc[t] \in Requesting
    PROVE  /\ cur[t] \in live /\ cur[t] \in Addr /\ cur[t] # NULL
           /\ pfx[cur[t]] \in Key /\ len[cur[t]] \in PrefixLen
           /\ Goal(t) \in Key /\ GoalLen(t) \in PrefixLen
           /\ IsPrefixOf(pfx[cur[t]], len[cur[t]], Goal(t), GoalLen(t))
           /\ len[cur[t]] <= GoalLen(t)
<1>1. /\ cur[t] \in live
      /\ IsPrefixOf(pfx[cur[t]], len[cur[t]], Goal(t), GoalLen(t))
  BY DEF IndInv, PointersStable, PointersOK
<1>2. cur[t] \in Addr
  BY <1>1 DEF IndInv, TypeOK
<1>3. Goal(t) \in Key /\ GoalLen(t) \in PrefixLen
  BY KeyLenAssumption DEF IndInv, TypeOK, Goal, GoalLen, PrefixLen
<1> QED BY <1>1, <1>2, <1>3, AddrAssumption DEF IndInv, TypeOK, IsPrefixOf

LEMMA ChildFacts ==
    ASSUME TypeOK, TreeOK, NEW n \in live, NEW k \in Key, NEW m \in PrefixLen,
           len[n] < m
    PROVE  /\ Slot(n, k) \in Branch
           /\ child[n][Slot(n, k)] \in Pointer
           /\ child[n][Slot(n, k)] # NULL =>
                /\ child[n][Slot(n, k)] \in live
                /\ child[n][Slot(n, k)] \in Addr
                /\ len[n] < len[child[n][Slot(n, k)]]
<1>1. n \in Addr /\ len[n] \in PrefixLen
  BY DEF TypeOK
<1>2. Slot(n, k) \in Branch
  BY <1>1, BranchBitsType, KeyLenAssumption DEF Slot, PrefixLen
<1>3. child[n][Slot(n, k)] \in Pointer
  BY <1>1, <1>2 DEF TypeOK
<1> QED BY <1>1, <1>2, <1>3 DEF TypeOK, TreeOK, EdgesDescend

\* A step of one thread that leaves the shape of the tree alone.
LEMMA QuietStep ==
    ASSUME IndInv, NEW t \in Threads, TypeOK',
           UNCHANGED <<live, gc, root, pfx, len, child, phase, qk, ql>>,
           \A u \in Threads \ {t} : SameLocals(u),
           pc[t] # "idle", pc'[t] # "idle",
           PointersOK(t)', LocalsOK(t)'
    PROVE  IndInv'
<1>1. TreeOK'
  BY DEF IndInv, TreeOK, EdgesDescend, PathsComplete, NoDuplicates, Above, Slot
<1>2. MemoryOK'
  BY Busy DEF IndInv, MemoryOK
<1>3. SameNodes
  BY DEF SameNodes
<1> QED BY <1>1, <1>2, <1>3, ThreadStep

\* After a load or a failed compare_exchange.
LEMMA ObserveStep ==
    ASSUME IndInv, NEW t \in Threads, TypeOK',
           NEW recurse, NEW replace,
           \/ /\ recurse = "sub" /\ replace = "sub_cas"
              /\ pc[t] \in {"sub", "sub_cas"}
           \/ /\ recurse = "ins" /\ replace = "ins_cas"
              /\ pc[t] \in {"ins", "ins_cas"},
           len[cur[t]] < GoalLen(t),
           Observe(t, child[cur[t]][Slot(cur[t], Goal(t))], Goal(t), GoalLen(t),
                   recurse, replace),
           UNCHANGED <<tree, phase, qk, ql, ref, key, arg, res>>
    PROVE  IndInv'
<1> DEFINE c == child[cur[t]][Slot(cur[t], Goal(t))]
<1>0. Inside(t) \/ pc[t] \in Requesting
  BY DEF Inside, Requesting
<1>1. /\ cur[t] \in live /\ Goal(t) \in Key /\ GoalLen(t) \in PrefixLen
      /\ len[cur[t]] \in PrefixLen
  BY <1>0, CurFacts
<1>2. c # NULL => c \in live /\ c \in Addr /\ len[cur[t]] < len[c]
  BY <1>1, ChildFacts DEF IndInv
<1>3. pc \in [Threads -> {"idle", "sub", "sub_cas", "inv", "ready", "ins",
                 "ins_emplace", "ins_cas", "del", "del_exchange", "get"}]
      /\ cur \in [Threads -> Pointer] /\ exp \in [Threads -> Pointer]
  BY DEF IndInv, TypeOK
<1>4. \A u \in Threads \ {t} : SameLocals(u)
  BY <1>3 DEF Observe, SameLocals
<1>5. UNCHANGED <<live, gc, root, pfx, len, child>>
  BY DEF tree
<1>6. pc'[t] \in {recurse, replace}
  BY <1>3 DEF Observe
<1>7. /\ Inside(t)' = Inside(t) /\ (pc'[t] \in Requesting) = (pc[t] \in Requesting)
      /\ Goal(t)' = Goal(t) /\ GoalLen(t)' = GoalLen(t) /\ Given(t)' = Given(t)
      /\ pc'[t] # "inv" /\ pc[t] # "inv" /\ pc[t] # "idle" /\ pc'[t] # "idle"
  BY <1>6 DEF Inside, Requesting, Goal, GoalLen, Given
<1>8. PointersOK(t) /\ LocalsOK(t)
  BY DEF IndInv, PointersStable
<1>9. CASE c # NULL /\ Covers(c, Goal(t), GoalLen(t))
  <2>1. pc'[t] = recurse /\ cur'[t] = c
    BY <1>3, <1>9 DEF Observe
  <2>2. IsPrefixOf(pfx[c], len[c], Goal(t), GoalLen(t))
    BY <1>1, <1>2, <1>9, CoversPrefix DEF IndInv
  <2>3. PointersOK(t)'
    BY <2>1, <2>2, <1>2, <1>5, <1>7, <1>8, <1>9 DEF PointersOK, CasPending
  <2>4. ql[t] <= len[cur[t]] => ql[t] <= len[c]
    BY <1>1, <1>2, <1>9 DEF IndInv, TypeOK, PrefixLen
  <2>5. LocalsOK(t)'
    BY <2>1, <2>4, <1>5, <1>7, <1>8 DEF LocalsOK
  <2> QED BY <2>3, <2>5, <1>4, <1>5, <1>7, QuietStep
<1>10. CASE ~ (c # NULL /\ Covers(c, Goal(t), GoalLen(t)))
  <2>1. pc'[t] = replace /\ exp'[t] = c /\ cur' = cur
    BY <1>3, <1>10 DEF Observe
  <2>2. c # NULL =>
          ~ (MatchLen(pfx'[c], len'[c], Goal(t)', GoalLen(t)') >= len'[c])
    BY <1>10, <1>5, <1>7 DEF Covers
  <2>3. PointersOK(t)'
    <3>1. /\ Inside(t)' \/ pc'[t] \in Requesting =>
              /\ cur'[t] \in live'
              /\ IsPrefixOf(pfx'[cur'[t]], len'[cur'[t]], Goal(t)', GoalLen(t)')
          /\ len'[cur'[t]] < GoalLen(t)'
      BY <2>1, <1>5, <1>7, <1>8 DEF PointersOK
    <3>2. exp'[t] # NULL =>
            /\ exp'[t] \in live' \cup gc'
            /\ ~Covers(exp[t], Goal(t), GoalLen(t))'
      BY <2>1, <2>2, <1>2, <1>5 DEF Covers
    <3> QED BY <3>1, <3>2, <1>5, <1>7, <1>8 DEF PointersOK
  <2>4. LocalsOK(t)'
    BY <2>1, <1>5, <1>7, <1>8 DEF LocalsOK
  <2> QED BY <2>3, <2>4, <1>4, <1>5, <1>7, QuietStep
<1> QED BY <1>9, <1>10

-----------------------------------------------------------------------------
(* The steps of get_subnode_ref_and_invalidate_hash *)

LEMMA GetSubnodeInv ==
    ASSUME IndInv, NEW t \in Threads, NEW k \in Keys, NEW l \in SubnodeLens,
           GetSubnode(t, k, l)
    PROVE  IndInv'
<1>1. k \in Key /\ l \in PrefixLen
  BY KeysAssumption, SubnodeAssumption
<1>2. Truncate(k, l) \in Key
  BY <1>1, TruncateFact
<1>3. TypeOK'
  BY <1>1, <1>2 DEF IndInv, TypeOK, GetSubnode, tree, hashes, Pointer
<1>4. UNCHANGED <<live, gc, root, pfx, len, child, phase>>
  BY DEF GetSubnode, tree, hashes
<1>5. TreeOK'
  BY <1>4 DEF IndInv, TreeOK, EdgesDescend, PathsComplete, NoDuplicates, Above, Slot
<1>6. MemoryOK'
  BY <1>4 DEF IndInv, MemoryOK, GetSubnode
<1>7. /\ pc'[t] = "sub" /\ qk'[t] = Truncate(k, l) /\ ql'[t] = l /\ cur'[t] = root
      /\ \A u \in Threads \ {t} : SameLocals(u)
  BY DEF IndInv, TypeOK, GetSubnode, SameLocals
<1>8. PointersOK(t)' /\ LocalsOK(t)'
  <2>1. Goal(t)' = Truncate(k, l) /\ GoalLen(t)' = l /\ ~Inside(t)' /\ ~Given(t)'
        /\ ~CasPending(t)'
    BY <1>7 DEF Goal, GoalLen, Inside, Given, CasPending
  <2>2. root \in live' /\ len'[root] = 0
    BY <1>4 DEF IndInv, MemoryOK
  <2>3. IsPrefixOf(pfx'[root], len'[root], Truncate(k, l), l)
    BY <2>2, <1>1 DEF IsPrefixOf, PrefixLen
  <2> QED BY <2>1, <2>2, <2>3, <1>7 DEF PointersOK, LocalsOK
<1>9. ASSUME NEW u \in Threads
      PROVE  PointersOK(u)' /\ LocalsOK(u)'
  <2>1. CASE u = t
    BY <2>1, <1>8
  <2>2. CASE u # t
    <3>1. SameLocals(u) /\ PointersOK(u) /\ LocalsOK(u) /\ TypeOK
      BY <2>2, <1>7 DEF IndInv, PointersStable
    <3>2. HasLeaf(key[u]) => HasLeaf(key[u])'
      BY <3>1, <1>4 DEF HasLeaf, IsLeaf, SameLocals
    <3>3. SameNodes
      BY <1>4 DEF SameNodes
    <3> QED BY <3>1, <3>2, <3>3, <1>4, ThreadFrame
  <2> QED BY <2>1, <2>2
<1>10. RangesOK'
  <2>1. SUFFICES ASSUME Disjoint,
                        NEW u \in Threads, NEW w \in Threads, u # w,
                        Working(u)', Working(w)',
                        Comparable(qk'[u], ql'[u], qk'[w], ql'[w])
                 PROVE  FALSE
    BY DEF RangesOK
  <2>2. \A x \in Threads \ {t} :
            Working(x)' => Working(x) /\ qk'[x] = qk[x] /\ ql'[x] = ql[x]
    BY <1>7 DEF Working, SameLocals
  <2>3. \A x \in Threads : qk[x] \in Key /\ ql[x] \in PrefixLen
    BY DEF IndInv, TypeOK
  <2>4. ASSUME NEW q \in Key, NEW m \in PrefixLen,
               \/ Comparable(Truncate(k, l), l, q, m)
               \/ Comparable(q, m, Truncate(k, l), l)
        PROVE  Comparable(k, l, q, m)
    <3>1. \A i \in 1 .. l : Truncate(k, l)[i] = k[i]
      BY <1>1, KeyLenAssumption DEF Truncate, PrefixLen
    <3>2. CASE IsPrefixOf(Truncate(k, l), l, q, m)
      BY <3>1, <3>2 DEF Comparable, IsPrefixOf
    <3>3. CASE IsPrefixOf(q, m, Truncate(k, l), l)
      <4>1. m <= l /\ \A i \in 1 .. m : i \in 1 .. l
        BY <3>3, <1>1 DEF IsPrefixOf, PrefixLen
      <4> QED BY <4>1, <3>1, <3>3 DEF Comparable, IsPrefixOf
    <3> QED BY <2>4, <3>2, <3>3 DEF Comparable
  <2>5. \A x \in Threads \ {t} :
            Working(x) => ~Comparable(k, l, qk[x], ql[x])
    BY <2>1 DEF GetSubnode, MayRequest
  <2>6. CASE u = t
    BY <2>1, <2>2, <2>3, <2>4, <2>5, <2>6, <1>7
  <2>7. CASE w = t
    BY <2>1, <2>2, <2>3, <2>4, <2>5, <2>7, <1>7
  <2>8. CASE u # t /\ w # t
    BY <2>1, <2>2, <2>8 DEF IndInv, RangesOK
  <2> QED BY <2>6, <2>7, <2>8
<1> QED BY <1>3, <1>5, <1>6, <1>9, <1>10 DEF IndInv, PointersStable

LEMMA FinishInv ==
    ASSUME IndInv, NEW t \in Threads, Finish(t)
    PROVE  IndInv'
<1>1. ZeroKey \in Key /\ 0 \in PrefixLen
  BY BranchAssumption, KeyLenAssumption DEF ZeroKey, Key, PrefixLen
<1>2. TypeOK'
  BY <1>1 DEF IndInv, TypeOK, Finish, tree, hashes, Pointer
<1>3. UNCHANGED <<live, gc, root, pfx, len, child, phase>>
  BY DEF Finish, tree, hashes
<1>4. TreeOK'
  BY <1>3 DEF IndInv, TreeOK, EdgesDescend, PathsComplete, NoDuplicates, Above, Slot
<1>5. phase = "batch"
  BY Busy DEF Finish
<1>6. MemoryOK'
  BY <1>3, <1>5 DEF IndInv, MemoryOK
<1>7. pc'[t] = "idle" /\ \A u \in Threads \ {t} : SameLocals(u)
  BY DEF IndInv, TypeOK, Finish, SameLocals
<1>8. ASSUME NEW u \in Threads
      PROVE  PointersOK(u)' /\ LocalsOK(u)'
  <2>1. CASE u = t
    BY <2>1, <1>7 DEF PointersOK, LocalsOK, Given, Inside, CasPending, Requesting
  <2>2. CASE u # t
    <3>1. SameLocals(u) /\ PointersOK(u) /\ LocalsOK(u) /\ TypeOK
      BY <2>2, <1>7 DEF IndInv, PointersStable
    <3>2. HasLeaf(key[u]) => HasLeaf(key[u])'
      BY <3>1, <1>3 DEF HasLeaf, IsLeaf, SameLocals
    <3>3. SameNodes
      BY <1>3 DEF SameNodes
    <3> QED BY <3>1, <3>2, <3>3, <1>3, ThreadFrame
  <2> QED BY <2>1, <2>2
<1>9. RangesOK'
  BY <1>7 DEF IndInv, RangesOK, Working, SameLocals
<1> QED BY <1>2, <1>4, <1>6, <1>8, <1>9 DEF IndInv, PointersStable

\* The goal of a thread that asks for a subnode is the prefix it asks for.
LEMMA RequestGoal ==
    ASSUME NEW t \in Threads, pc[t] \in Requesting
    PROVE  ~Inside(t) /\ ~Given(t) /\ Goal(t) = qk[t] /\ GoalLen(t) = ql[t]
BY DEF Requesting, Inside, Given, Goal, GoalLen

\* GotSubnode for a node that stands for the prefix.
LEMMA GotSubnodeLocal ==
    ASSUME TypeOK, NEW t \in Threads, NEW n \in live', GotSubnode(t, n),
           len'[n] = ql[t], ql[t] \in PrefixLen,
           IsPrefixOf(pfx'[n], len'[n], qk[t], ql[t]),
           root \in live', len'[root] = 0
    PROVE  /\ PointersOK(t)' /\ LocalsOK(t)'
           /\ pc'[t] = "inv"
           /\ qk' = qk /\ ql' = ql
           /\ \A u \in Threads \ {t} : SameLocals(u)
<1>1. /\ pc'[t] = "inv" /\ ref'[t] = n /\ cur'[t] = root
      /\ qk' = qk /\ ql' = ql
      /\ \A u \in Threads \ {t} : SameLocals(u)
  BY DEF TypeOK, GotSubnode, SameLocals
<1>2. /\ Goal(t)' = qk[t] /\ GoalLen(t)' = ql[t]
      /\ ~Inside(t)' /\ ~Given(t)' /\ ~CasPending(t)'
  BY <1>1 DEF Goal, GoalLen, Inside, Given, CasPending
<1>3. IsPrefixOf(pfx'[root], len'[root], qk[t], ql[t])
  BY DEF IsPrefixOf, PrefixLen
<1> QED BY <1>1, <1>2, <1>3 DEF PointersOK, LocalsOK

LEMMA SubReturnInv ==
    ASSUME IndInv, NEW t \in Threads, SubReturn(t)
    PROVE  IndInv'
<1>1. pc[t] \in Requesting /\ pc[t] # "idle"
  BY DEF SubReturn, Requesting
<1>2. /\ cur[t] \in live /\ cur[t] \in Addr
      /\ IsPrefixOf(pfx[cur[t]], len[cur[t]], qk[t], ql[t])
  BY <1>1, CurFacts, RequestGoal
<1>3. UNCHANGED <<live, gc, root, pfx, len, child, val, valid, hash, phase, done>>
  BY DEF SubReturn, tree, hashes
<1>4. TypeOK'
  BY <1>2, <1>3 DEF IndInv, TypeOK, SubReturn, GotSubnode, Pointer
<1>5. /\ PointersOK(t)' /\ LocalsOK(t)' /\ pc'[t] = "inv" /\ qk' = qk /\ ql' = ql
      /\ \A u \in Threads \ {t} : SameLocals(u)
  <2>1. ql[t] \in PrefixLen /\ TypeOK
    BY DEF IndInv, TypeOK
  <2> QED BY <2>1, <1>2, <1>3, GotSubnodeLocal DEF SubReturn, IndInv, MemoryOK
<1> QED BY <1>1, <1>3, <1>4, <1>5, QuietStep

LEMMA SubLoadInv ==
    ASSUME IndInv, NEW t \in Threads, SubLoad(t) \/ SubRetry(t)
    PROVE  IndInv'
<1>1. pc[t] \in Requesting /\ pc[t] \in {"sub", "sub_cas"}
  BY DEF SubLoad, SubRetry, Requesting
<1>2. /\ cur[t] \in live /\ len[cur[t]] \in PrefixLen /\ len[cur[t]] <= ql[t]
      /\ Goal(t) = qk[t] /\ GoalLen(t) = ql[t] /\ qk[t] \in Key
      /\ ql[t] \in PrefixLen
  BY <1>1, CurFacts, RequestGoal
<1>3. len[cur[t]] < ql[t]
  <2>1. CASE SubLoad(t)
    BY <2>1, <1>2 DEF SubLoad, PrefixLen
  <2>2. CASE SubRetry(t)
    <3>1. CasPending(t)
      BY <2>2 DEF SubRetry, CasPending
    <3> QED BY <3>1, <1>2 DEF IndInv, PointersStable, PointersOK
  <2> QED BY <2>1, <2>2
<1>4. child[cur[t]][Slot(cur[t], qk[t])] \in Pointer
  BY <1>2, <1>3, ChildFacts DEF IndInv
<1>5. /\ Observe(t, child[cur[t]][Slot(cur[t], qk[t])], qk[t], ql[t],
                 "sub", "sub_cas")
      /\ UNCHANGED <<tree, hashes, qk, ql, ref, key, arg, res>>
  BY DEF SubLoad, SubRetry
<1>6. TypeOK'
  BY <1>4, <1>5 DEF IndInv, TypeOK, Observe, tree, hashes, Pointer
<1>7. phase' = phase
  BY <1>5 DEF hashes
<1> QED BY <1>1, <1>2, <1>3, <1>5, <1>6, <1>7, ObserveStep

LEMMA MallocFree ==
    ASSUME TypeOK, NEW p \in Key, NEW l \in PrefixLen, Free # {}
    PROVE  /\ Malloc(Free, p, l) \in Free
           /\ Malloc(Free, p, l) \in Addr
           /\ Malloc(Free, p, l) \notin live \cup gc
<1>1. Free \in SUBSET Addr
  BY DEF Free
<1>2. Malloc(Free, p, l) \in Free
  BY <1>1, MallocAssumption
<1> QED BY <1>2 DEF Free

\* Publishing a node that was free.
LEMMA PublishFrame ==
    ASSUME IndInv, NEW t \in Threads, pc[t] # "idle",
           NEW n \in live, NEW b \in Branch, NEW a \in Free,
           NEW p \in Key, NEW l \in PrefixLen,
           NEW kids \in [Branch -> Pointer], NEW v \in Value \cup {NoValue},
           Publish(n, b, a, p, l, kids, v)
    PROVE  /\ live' \in SUBSET Addr /\ gc' \in SUBSET Addr /\ done' \in SUBSET Addr
           /\ root' \in Addr /\ pfx' \in [Addr -> Key] /\ len' \in [Addr -> PrefixLen]
           /\ child' \in [Addr -> [Branch -> Pointer]]
           /\ val' \in [Addr -> Value \cup {NoValue}] /\ valid' \in [Addr -> BOOLEAN]
           /\ phase' \in {"batch", "hash"}
           /\ MemoryOK' /\ SameNodes /\ live \subseteq live' /\ a \in live'
           /\ pfx'[a] = p /\ len'[a] = l
<1>0. TypeOK /\ a \in Addr /\ n \in Addr /\ a \notin live \cup gc
  BY DEF IndInv, TypeOK, Free
<1>1. /\ live' \in SUBSET Addr /\ gc' \in SUBSET Addr /\ done' \in SUBSET Addr
      /\ root' \in Addr /\ pfx' \in [Addr -> Key] /\ len' \in [Addr -> PrefixLen]
      /\ val' \in [Addr -> Value \cup {NoValue}] /\ valid' \in [Addr -> BOOLEAN]
      /\ phase' = phase /\ root' = root /\ gc' = gc /\ live' = live \cup {a}
      /\ phase' \in {"batch", "hash"}
  BY <1>0 DEF Publish, TypeOK
<1>2. child' \in [Addr -> [Branch -> Pointer]]
  BY <1>0 DEF Publish, TypeOK, Pointer
<1>3. /\ \A x \in live \cup gc : pfx'[x] = pfx[x] /\ len'[x] = len[x]
      /\ pfx'[a] = p /\ len'[a] = l
  BY <1>0 DEF Publish, TypeOK
<1>4. SameNodes
  BY <1>1, <1>3 DEF SameNodes
<1>5. phase = "batch"
  BY Busy
<1>6. MemoryOK'
  BY <1>0, <1>1, <1>3, <1>5 DEF IndInv, MemoryOK
<1> QED BY <1>1, <1>2, <1>3, <1>4, <1>6

LEMMA SubAttachInv ==
    ASSUME IndInv, NEW t \in Threads, SubAttach(t)
    PROVE  IndInv'
<1> DEFINE a == Malloc(Free, qk[t], ql[t])
<1>1. pc[t] \in Requesting /\ pc[t] # "idle" /\ CasPending(t)
  BY DEF SubAttach, Requesting, CasPending
<1>2. /\ cur[t] \in live /\ qk[t] \in Key /\ ql[t] \in PrefixLen
      /\ IsPrefixOf(pfx[cur[t]], len[cur[t]], qk[t], ql[t])
      /\ len[cur[t]] < ql[t] /\ TypeOK /\ TreeOK /\ TreeType
  BY <1>1, CurFacts, RequestGoal, TypeGivesTree
     DEF IndInv, PointersStable, PointersOK
<1>3. Slot(cur[t], qk[t]) \in Branch
  BY <1>2, ChildFacts
<1>4. a \in Free /\ a \in Addr
  BY <1>2, MallocFree DEF SubAttach
<1>5. /\ Publish(cur[t], Slot(cur[t], qk[t]), a, qk[t], ql[t], NoChildren, NoValue)
      /\ GotSubnode(t, a)
      /\ child[cur[t]][Slot(cur[t], qk[t])] = NULL
  BY DEF SubAttach
<1>6. NoChildren \in [Branch -> Pointer]
  BY DEF NoChildren, Pointer
<1> HIDE DEF a
<1>7. /\ live' \in SUBSET Addr /\ gc' \in SUBSET Addr /\ done' \in SUBSET Addr
      /\ root' \in Addr /\ pfx' \in [Addr -> Key] /\ len' \in [Addr -> PrefixLen]
      /\ child' \in [Addr -> [Branch -> Pointer]]
      /\ val' \in [Addr -> Value \cup {NoValue}] /\ valid' \in [Addr -> BOOLEAN]
      /\ phase' \in {"batch", "hash"}
      /\ MemoryOK' /\ SameNodes /\ live \subseteq live' /\ a \in live'
      /\ pfx'[a] = qk[t] /\ len'[a] = ql[t]
  BY <1>1, <1>2, <1>3, <1>4, <1>5, <1>6, PublishFrame
<1>8. TypeOK'
  BY <1>4, <1>5, <1>7 DEF IndInv, TypeOK, GotSubnode, Pointer
<1>9. TreeOK'
  BY <1>2, <1>4, <1>5, AttachTree
<1>10. /\ PointersOK(t)' /\ LocalsOK(t)' /\ pc'[t] = "inv" /\ qk' = qk /\ ql' = ql
       /\ \A u \in Threads \ {t} : SameLocals(u)
  <2>1. IsPrefixOf(pfx'[a], len'[a], qk[t], ql[t])
    BY <1>2, <1>7, PrefixRefl
  <2>2. root \in live' /\ len'[root] = 0
    BY <1>5, <1>7 DEF MemoryOK, Publish
  <2> QED BY <2>1, <2>2, <1>2, <1>5, <1>7, GotSubnodeLocal
<1> QED BY <1>1, <1>7, <1>8, <1>9, <1>10, ThreadStep

\* The address and the prefix of a node put above c are fine.
LEMMA SplitFacts ==
    ASSUME TypeOK, NEW c \in Addr, NEW k \in Key, NEW m \in PrefixLen, Free # {}
    PROVE  /\ JoinLen(c, k, m) \in PrefixLen
           /\ Truncate(k, JoinLen(c, k, m)) \in Key
           /\ SplitAddr(c, k, m) \in Free
           /\ SplitAddr(c, k, m) \in Addr
           /\ SplitAddr(c, k, m) # NULL
           /\ [NoChildren EXCEPT ![BranchBits(pfx[c], JoinLen(c, k, m))] = c]
                 \in [Branch -> Pointer]
<1>1. JoinLen(c, k, m) \in PrefixLen
  BY MatchLenFact DEF TypeOK, JoinLen
<1>2. Truncate(k, JoinLen(c, k, m)) \in Key
  BY <1>1, TruncateFact
<1>3. SplitAddr(c, k, m) \in Free /\ SplitAddr(c, k, m) \in Addr
  BY <1>1, <1>2, MallocFree DEF SplitAddr
<1>4. [NoChildren EXCEPT ![BranchBits(pfx[c], JoinLen(c, k, m))] = c]
          \in [Branch -> Pointer]
  BY DEF NoChildren, Pointer
<1> QED BY <1>1, <1>2, <1>3, <1>4, AddrAssumption

\* The thread goes on at the node it has put above its child.
LEMMA SplitStep ==
    ASSUME IndInv, NEW t \in Threads, NEW op,
           \/ op = "sub" /\ pc[t] = "sub_cas"
           \/ op = "ins" /\ pc[t] = "ins_cas",
           exp[t] # NULL, Free # {},
           child[cur[t]][Slot(cur[t], Goal(t))] = exp[t],
           PublishSplit(cur[t], exp[t], Goal(t), GoalLen(t)),
           pc'  = [pc EXCEPT ![t] = op],
           cur' = [cur EXCEPT ![t] = SplitAddr(exp[t], Goal(t), GoalLen(t))],
           exp' = [exp EXCEPT ![t] = NULL],
           UNCHANGED <<qk, ql, ref, key, arg, res>>
    PROVE  IndInv'
<1> DEFINE a == SplitAddr(exp[t], Goal(t), GoalLen(t))
           j == JoinLen(exp[t], Goal(t), GoalLen(t))
           p == Truncate(Goal(t), j)
           kids == [NoChildren EXCEPT ![BranchBits(pfx[exp[t]], j)] = exp[t]]
<1>1. /\ Inside(t) \/ pc[t] \in Requesting
      /\ CasPending(t) /\ pc[t] # "idle" /\ pc[t] # "inv"
      /\ TypeOK /\ TreeOK /\ TreeType /\ PointersOK(t) /\ LocalsOK(t)
  BY TypeGivesTree DEF Inside, Requesting, CasPending, IndInv, PointersStable
<1>2. /\ cur[t] \in live /\ Goal(t) \in Key /\ GoalLen(t) \in PrefixLen
      /\ IsPrefixOf(pfx[cur[t]], len[cur[t]], Goal(t), GoalLen(t))
      /\ len[cur[t]] \in PrefixLen
  BY <1>1, CurFacts
<1>3. len[cur[t]] < GoalLen(t) /\ ~Covers(exp[t], Goal(t), GoalLen(t))
  BY <1>1 DEF PointersOK
<1>4. Slot(cur[t], Goal(t)) \in Branch /\ exp[t] \in Addr
  BY <1>1, <1>2, <1>3, ChildFacts
<1>5. j \in PrefixLen /\ p \in Key /\ a \in Free /\ a \in Addr /\ a # NULL
      /\ kids \in [Branch -> Pointer]
  BY <1>1, <1>2, <1>4, SplitFacts
<1>6. Publish(cur[t], Slot(cur[t], Goal(t)), a, p, j, kids, NoValue)
  BY DEF PublishSplit
<1>7. /\ live' \in SUBSET Addr /\ gc' \in SUBSET Addr /\ done' \in SUBSET Addr
      /\ root' \in Addr /\ pfx' \in [Addr -> Key] /\ len' \in [Addr -> PrefixLen]
      /\ child' \in [Addr -> [Branch -> Pointer]]
      /\ val' \in [Addr -> Value \cup {NoValue}] /\ valid' \in [Addr -> BOOLEAN]
      /\ phase' \in {"batch", "hash"}
      /\ MemoryOK' /\ SameNodes /\ live \subseteq live' /\ a \in live'
  <2> HIDE DEF a, j, p, kids
  <2> QED BY <1>1, <1>2, <1>4, <1>5, <1>6, PublishFrame
<1>8. TreeOK' /\ len'[a] \in PrefixLen /\ len[cur[t]] < len'[a]
      /\ IsPrefixOf(pfx'[a], len'[a], Goal(t), GoalLen(t))
  BY <1>1, <1>2, <1>3, <1>5, SplitTree
<1> HIDE DEF a, j, p, kids
<1>9. TypeOK'
  BY <1>1, <1>5, <1>7 DEF TypeOK, Pointer, a
<1>10. /\ pc'[t] = op /\ cur'[t] = a /\ qk' = qk /\ ql' = ql
       /\ \A u \in Threads \ {t} : SameLocals(u)
       /\ pc'[t] # "idle" /\ pc'[t] # "inv"
  BY <1>1 DEF TypeOK, SameLocals, a
<1>11. /\ Inside(t)' = Inside(t) /\ Given(t)' = Given(t) /\ ~CasPending(t)'
       /\ Goal(t)' = Goal(t) /\ GoalLen(t)' = GoalLen(t)
  BY <1>10 DEF Inside, Given, CasPending, Goal, GoalLen
<1>12. PointersOK(t)'
  <2>1. Given(t)' => /\ ref'[t] \in live'
                     /\ len'[ref'[t]] = ql'[t]
                     /\ IsPrefixOf(pfx'[ref'[t]], len'[ref'[t]], qk'[t], ql'[t])
    BY <1>1, <1>7, <1>11 DEF PointersOK, SameNodes
  <2> QED BY <2>1, <1>7, <1>8, <1>10, <1>11 DEF PointersOK
<1>13. LocalsOK(t)'
  <2>1. ql[t] <= len[cur[t]] => ql[t] <= len'[a]
    BY <1>1, <1>2, <1>8 DEF TypeOK, PrefixLen
  <2> QED BY <2>1, <1>1, <1>10, <1>11 DEF LocalsOK
<1> QED BY <1>1, <1>7, <1>8, <1>9, <1>10, <1>12, <1>13, ThreadStep

LEMMA SubSplitInv ==
    ASSUME IndInv, NEW t \in Threads, SubSplit(t)
    PROVE  IndInv'
<1>1. Goal(t) = qk[t] /\ GoalLen(t) = ql[t] /\ pc[t] = "sub_cas"
  BY RequestGoal DEF SubSplit, Requesting
<1> QED BY <1>1, SplitStep DEF SubSplit

LEMMA InvalidateStepInv ==
    ASSUME IndInv, NEW t \in Threads, InvalidateStep(t)
    PROVE  IndInv'
<1>1. /\ pc[t] = "inv" /\ pc[t] # "idle" /\ pc[t] \in Requesting
      /\ TypeOK /\ TreeOK /\ PointersOK(t)
  BY DEF InvalidateStep, Requesting, IndInv, PointersStable
<1>2. /\ cur[t] \in live /\ cur[t] \in Addr
      /\ IsPrefixOf(pfx[cur[t]], len[cur[t]], qk[t], ql[t])
      /\ len[cur[t]] \in PrefixLen /\ qk[t] \in Key /\ ql[t] \in PrefixLen
  BY <1>1, CurFacts, RequestGoal
<1>3. /\ ref[t] \in live /\ ref[t] \in Addr /\ len[ref[t]] = ql[t]
      /\ IsPrefixOf(pfx[ref[t]], ql[t], qk[t], ql[t])
      /\ pfx[ref[t]] \in Key
  BY <1>1 DEF PointersOK, TypeOK
<1>4. UNCHANGED <<live, gc, root, pfx, len, child, val, phase, done, qk, ql, ref,
                  key, arg, exp, res>>
  BY DEF InvalidateStep, tree
<1>5. \A u \in Threads \ {t} : SameLocals(u)
  BY <1>1 DEF InvalidateStep, SameLocals, TypeOK
<1>6. CASE cur[t] = ref[t]
  <2>1. pc'[t] = "ready"
    BY <1>1, <1>6 DEF InvalidateStep, TypeOK
  <2>2. TypeOK'
    BY <1>1, <1>4, <1>6 DEF InvalidateStep, InvalidateHash, TypeOK, Pointer
  <2>3. PointersOK(t)' /\ LocalsOK(t)'
    BY <2>1, <1>3, <1>4 DEF PointersOK, LocalsOK, Given, Inside, CasPending, Requesting
  <2> QED BY <2>1, <2>2, <2>3, <1>1, <1>4, <1>5, QuietStep
<1>7. CASE cur[t] # ref[t]
  <2> DEFINE c == child[cur[t]][Slot(cur[t], pfx[ref[t]])]
  <2>1. IsPrefixOf(pfx[cur[t]], len[cur[t]], pfx[ref[t]], len[ref[t]])
    <3>1. len[cur[t]] <= ql[t]
      BY <1>2 DEF IsPrefixOf
    <3> QED BY <3>1, <1>2, <1>3, PrefixCompare
  <2>2. len[cur[t]] < len[ref[t]]
    <3>1. len[cur[t]] # len[ref[t]]
      BY <2>1, <1>1, <1>2, <1>3, <1>7 DEF TreeOK, NoDuplicates, Above
    <3> QED BY <3>1, <2>1, <1>2, <1>3 DEF IsPrefixOf, PrefixLen
  <2>3. c # NULL /\ IsPrefixOf(pfx[c], len[c], pfx[ref[t]], len[ref[t]])
    BY <2>1, <2>2, <1>1, <1>2, <1>3 DEF TreeOK, PathsComplete, Above
  <2>4. c \in live /\ c \in Addr
    BY <2>2, <2>3, <1>1, <1>2, <1>3, ChildFacts
  <2>5. IsPrefixOf(pfx[c], len[c], qk[t], ql[t])
    BY <2>3, <2>4, <1>1, <1>2, <1>3, PrefixTrans DEF TypeOK
  <2>6. pc' = pc /\ cur'[t] = c
    BY <1>1, <1>7 DEF InvalidateStep, TypeOK
  <2>7. TypeOK'
    BY <2>4, <1>1, <1>4, <1>7 DEF InvalidateStep, InvalidateHash, TypeOK, Pointer
  <2>8. PointersOK(t)' /\ LocalsOK(t)'
    BY <2>4, <2>5, <2>6, <1>1, <1>3, <1>4
       DEF PointersOK, LocalsOK, Given, Inside, CasPending, Requesting, Goal, GoalLen
  <2> QED BY <2>6, <2>7, <2>8, <1>1, <1>4, <1>5, QuietStep
<1> QED BY <1>6, <1>7

-----------------------------------------------------------------------------
(* The steps of insert and get_value *)

LEMMA ZeroKeyType == ZeroKey \in Key /\ 0 \in PrefixLen /\ KeyLen \in PrefixLen
BY BranchAssumption, KeyLenAssumption DEF ZeroKey, Key, PrefixLen

\* A call begins at the thread's subnode.
LEMMA CallStep ==
    ASSUME IndInv, NEW t \in Threads, NEW k \in Keys, NEW op \in {"ins", "del", "get"},
           Call(t, op, k),
           arg' \in [Threads -> Value \cup {NoValue}], op = "ins" => arg'[t] \in Value,
           \A u \in Threads \ {t} : arg'[u] = arg[u],
           res' \in [Threads -> Value \cup {NoValue}],
           op = "del" => HasLeaf(k),
           UNCHANGED <<tree, hashes, qk, ql, ref, exp>>
    PROVE  IndInv'
<1>1. /\ k \in Key /\ KeyLen \in PrefixLen /\ op \in Ops
      /\ pc[t] = "ready" /\ Given(t) /\ PointersOK(t) /\ TypeOK
      /\ IsPrefixOf(qk[t], ql[t], k, KeyLen)
  BY KeysAssumption, ZeroKeyType
     DEF Call, InRange, Given, IndInv, PointersStable
<1>2. /\ ref[t] \in live /\ ref[t] \in Addr /\ len[ref[t]] = ql[t]
      /\ IsPrefixOf(pfx[ref[t]], len[ref[t]], qk[t], ql[t])
      /\ ql[t] \in PrefixLen
  BY <1>1 DEF PointersOK, TypeOK
<1>3. IsPrefixOf(pfx[ref[t]], len[ref[t]], k, KeyLen)
  BY <1>1, <1>2, PrefixTrans
<1>4. /\ pc'[t] = op /\ key'[t] = k /\ cur'[t] = ref[t]
      /\ \A u \in Threads \ {t} : SameLocals(u)
  BY <1>1 DEF Call, TypeOK, SameLocals
<1>5. UNCHANGED <<live, gc, root, pfx, len, child, val, valid, hash, phase, done>>
  BY DEF tree, hashes
<1>6. TypeOK'
  BY <1>1, <1>2, <1>5 DEF TypeOK, Call, Pointer
<1>7. /\ Inside(t)' /\ Given(t)' /\ ~CasPending(t)'
      /\ Goal(t)' = k /\ GoalLen(t)' = KeyLen
  BY <1>4 DEF Inside, Given, CasPending, Goal, GoalLen
<1>8. PointersOK(t)'
  BY <1>2, <1>3, <1>4, <1>5, <1>7 DEF PointersOK
<1>9. LocalsOK(t)'
  <2>1. op = "del" => HasLeaf(key[t])'
    BY <1>4, <1>5 DEF HasLeaf, IsLeaf
  <2>2. ql[t] <= len[ref[t]]
    BY <1>2 DEF PrefixLen
  <2> QED BY <2>1, <2>2, <1>1, <1>4, <1>5, <1>7 DEF LocalsOK
<1> QED BY <1>1, <1>4, <1>5, <1>6, <1>8, <1>9, QuietStep

LEMMA StartInsertInv ==
    ASSUME IndInv, NEW t \in Threads, NEW k \in Keys, NEW v \in Value,
           StartInsert(t, k, v)
    PROVE  IndInv'
<1>1. /\ arg' \in [Threads -> Value \cup {NoValue}] /\ arg'[t] \in Value
      /\ \A u \in Threads \ {t} : arg'[u] = arg[u]
      /\ res' \in [Threads -> Value \cup {NoValue}]
  BY DEF StartInsert, IndInv, TypeOK
<1> QED BY <1>1, CallStep DEF StartInsert

LEMMA StartGetInv ==
    ASSUME IndInv, NEW t \in Threads, NEW k \in Keys, StartGet(t, k)
    PROVE  IndInv'
<1>1. /\ arg' \in [Threads -> Value \cup {NoValue}]
      /\ \A u \in Threads \ {t} : arg'[u] = arg[u]
      /\ res' \in [Threads -> Value \cup {NoValue}]
  BY DEF StartGet, IndInv, TypeOK
<1> QED BY <1>1, CallStep DEF StartGet

LEMMA StartDeleteInv ==
    ASSUME IndInv, NEW t \in Threads, NEW k \in Keys, StartDelete(t, k)
    PROVE  IndInv'
<1>1. /\ arg' \in [Threads -> Value \cup {NoValue}]
      /\ \A u \in Threads \ {t} : arg'[u] = arg[u]
      /\ res' \in [Threads -> Value \cup {NoValue}]
  BY DEF StartDelete, IndInv, TypeOK
<1> QED BY <1>1, CallStep DEF StartDelete

\* A call returns to the thread, which still has its subnode.
LEMMA ReturnLocal ==
    ASSUME IndInv, NEW t \in Threads, Inside(t), Return(t), SameNodes,
           ref[t] \in live', UNCHANGED <<qk, ql, ref>>
    PROVE  /\ PointersOK(t)' /\ LocalsOK(t)'
           /\ pc[t] # "idle" /\ pc'[t] # "idle"
           /\ \A u \in Threads \ {t} : SameLocals(u)
           /\ pc' \in [Threads -> {"idle", "sub", "sub_cas", "inv", "ready", "ins",
                 "ins_emplace", "ins_cas", "del", "del_exchange", "get"}]
           /\ cur' \in [Threads -> Pointer] /\ exp' \in [Threads -> Pointer]
           /\ key' \in [Threads -> Key] /\ arg' \in [Threads -> Value \cup {NoValue}]
<1>1. TypeOK /\ PointersOK(t) /\ Given(t) /\ pc[t] # "idle"
  BY DEF IndInv, PointersStable, Given, Inside
<1>2. /\ pc'[t] = "ready"
      /\ \A u \in Threads \ {t} : SameLocals(u)
      /\ pc' \in [Threads -> {"idle", "sub", "sub_cas", "inv", "ready", "ins",
                 "ins_emplace", "ins_cas", "del", "del_exchange", "get"}]
      /\ cur' \in [Threads -> Pointer] /\ exp' \in [Threads -> Pointer]
      /\ key' \in [Threads -> Key] /\ arg' \in [Threads -> Value \cup {NoValue}]
  BY <1>1, ZeroKeyType DEF TypeOK, Return, SameLocals, Pointer
<1>3. /\ len'[ref[t]] = ql[t]
      /\ IsPrefixOf(pfx'[ref[t]], len'[ref[t]], qk[t], ql[t])
  BY <1>1 DEF PointersOK, SameNodes
<1>4. PointersOK(t)' /\ LocalsOK(t)'
  BY <1>2, <1>3 DEF PointersOK, LocalsOK, Given, Inside, CasPending, Requesting
<1> QED BY <1>1, <1>2, <1>4

\* A step that returns and leaves the shape of the tree alone.
LEMMA QuietReturn ==
    ASSUME IndInv, NEW t \in Threads, Inside(t), Return(t),
           UNCHANGED <<live, gc, root, pfx, len, child, phase, done, qk, ql, ref>>,
           val' \in [Addr -> Value \cup {NoValue}], valid' \in [Addr -> BOOLEAN],
           res' \in [Threads -> Value \cup {NoValue}]
    PROVE  IndInv'
<1>1. SameNodes /\ ref[t] \in live'
  BY DEF SameNodes, IndInv, PointersStable, PointersOK, Given
<1>2. /\ PointersOK(t)' /\ LocalsOK(t)'
      /\ pc[t] # "idle" /\ pc'[t] # "idle"
      /\ \A u \in Threads \ {t} : SameLocals(u)
      /\ pc' \in [Threads -> {"idle", "sub", "sub_cas", "inv", "ready", "ins",
                 "ins_emplace", "ins_cas", "del", "del_exchange", "get"}]
      /\ cur' \in [Threads -> Pointer] /\ exp' \in [Threads -> Pointer]
      /\ key' \in [Threads -> Key] /\ arg' \in [Threads -> Value \cup {NoValue}]
  BY <1>1, ReturnLocal
<1>3. TypeOK'
  BY <1>2 DEF IndInv, TypeOK
<1> QED BY <1>2, <1>3, QuietStep

LEMMA InsertMergeInv ==
    ASSUME IndInv, NEW t \in Threads, InsertMerge(t)
    PROVE  IndInv'
<1>1. Inside(t) /\ arg[t] \in Value /\ TypeOK /\ cur[t] \in Addr
  <2>1. Inside(t)
    BY DEF InsertMerge, Inside
  <2> QED BY <2>1, CurFacts DEF InsertMerge, IndInv, LocalsOK
<1>2. Merge(val[cur[t]], arg[t]) \in Value
  BY <1>1, ValueAssumption DEF InsertMerge, TypeOK
<1>3. /\ val' \in [Addr -> Value \cup {NoValue}] /\ valid' \in [Addr -> BOOLEAN]
      /\ res' \in [Threads -> Value \cup {NoValue}]
  BY <1>1, <1>2 DEF InsertMerge, InvalidateHash, TypeOK
<1> QED BY <1>1, <1>3, QuietReturn DEF InsertMerge

LEMMA InsertEmplaceInv ==
    ASSUME IndInv, NEW t \in Threads, InsertEmplace(t)
    PROVE  IndInv'
<1>1. Inside(t) /\ arg[t] \in Value /\ TypeOK
  BY DEF InsertEmplace, Inside, IndInv, LocalsOK
<1>2. /\ val' \in [Addr -> Value \cup {NoValue}] /\ valid' \in [Addr -> BOOLEAN]
      /\ res' \in [Threads -> Value \cup {NoValue}]
      /\ UNCHANGED <<phase, done>>
  BY <1>1 DEF InsertEmplace, TypeOK, hashes
<1> QED BY <1>1, <1>2, QuietReturn DEF InsertEmplace

LEMMA InsertFoundEmptyInv ==
    ASSUME IndInv, NEW t \in Threads, InsertFoundEmpty(t)
    PROVE  IndInv'
<1>1. /\ Inside(t) /\ Given(t) /\ pc[t] = "ins" /\ TypeOK
      /\ PointersOK(t) /\ LocalsOK(t) /\ IsLeaf(cur[t])
  BY DEF InsertFoundEmpty, Inside, Given, IndInv, PointersStable
<1>2. UNCHANGED <<live, gc, root, pfx, len, child, val, phase, done, qk, ql, ref,
                  key, arg, cur, exp, res>>
  BY DEF InsertFoundEmpty, tree
<1>3. pc'[t] = "ins_emplace" /\ \A u \in Threads \ {t} : SameLocals(u)
  BY <1>1, <1>2 DEF InsertFoundEmpty, TypeOK, SameLocals
<1>4. TypeOK'
  BY <1>1, <1>2 DEF InsertFoundEmpty, InvalidateHash, TypeOK
<1>5. /\ Inside(t)' /\ Given(t)' /\ ~CasPending(t)' /\ Goal(t)' = Goal(t)
      /\ GoalLen(t)' = GoalLen(t)
  BY <1>1, <1>2, <1>3 DEF Inside, Given, CasPending, Goal, GoalLen
<1>6. PointersOK(t)'
  BY <1>1, <1>2, <1>3, <1>5 DEF PointersOK
<1>7. LocalsOK(t)'
  BY <1>1, <1>2, <1>3, <1>5 DEF LocalsOK, IsLeaf
<1> QED BY <1>1, <1>2, <1>3, <1>4, <1>6, <1>7, QuietStep

\* The goal of a thread inside a call is its key.
LEMMA CallGoal ==
    ASSUME NEW t \in Threads, Inside(t)
    PROVE  Goal(t) = key[t] /\ GoalLen(t) = KeyLen /\ pc[t] # "idle"
BY DEF Inside, Goal, GoalLen

LEMMA NotLeaf ==
    ASSUME TypeOK, NEW n \in Addr, ~IsLeaf(n)
    PROVE  len[n] < KeyLen
<1>1. len[n] \in PrefixLen
  BY DEF TypeOK
<1> QED BY <1>1, KeyLenAssumption DEF IsLeaf, PrefixLen

LEMMA InsertLoadInv ==
    ASSUME IndInv, NEW t \in Threads, InsertLoad(t) \/ InsertRetry(t)
    PROVE  IndInv'
<1>1. Inside(t) /\ pc[t] \in {"ins", "ins_cas"} /\ TypeOK /\ TreeOK
  BY DEF InsertLoad, InsertRetry, Inside, IndInv
<1>2. /\ cur[t] \in live /\ cur[t] \in Addr /\ Goal(t) = key[t]
      /\ GoalLen(t) = KeyLen /\ key[t] \in Key /\ KeyLen \in PrefixLen
  BY <1>1, CurFacts, CallGoal, ZeroKeyType
<1>3. len[cur[t]] < KeyLen
  <2>1. CASE InsertLoad(t)
    BY <2>1, <1>1, <1>2, NotLeaf DEF InsertLoad
  <2>2. CASE InsertRetry(t)
    <3>1. CasPending(t)
      BY <2>2 DEF InsertRetry, CasPending
    <3> QED BY <3>1, <1>2 DEF IndInv, PointersStable, PointersOK
  <2> QED BY <2>1, <2>2
<1>4. child[cur[t]][Slot(cur[t], key[t])] \in Pointer
  BY <1>1, <1>2, <1>3, ChildFacts
<1>5. /\ Observe(t, child[cur[t]][Slot(cur[t], key[t])], key[t], KeyLen,
                 "ins", "ins_cas")
      /\ UNCHANGED <<tree, phase, done, qk, ql, ref, key, arg, res>>
      /\ valid' \in [Addr -> BOOLEAN]
  BY <1>1 DEF InsertLoad, InsertRetry, hashes, InvalidateHash, TypeOK
<1>6. TypeOK'
  BY <1>1, <1>4, <1>5 DEF TypeOK, Observe, tree, Pointer
<1> QED BY <1>1, <1>2, <1>3, <1>5, <1>6, ObserveStep

LEMMA InsertAttachInv ==
    ASSUME IndInv, NEW t \in Threads, InsertAttach(t)
    PROVE  IndInv'
<1> DEFINE a == Malloc(Free, key[t], KeyLen)
<1>1. Inside(t) /\ CasPending(t) /\ Given(t)
  BY DEF InsertAttach, Inside, CasPending, Given
<1>2. /\ cur[t] \in live /\ key[t] \in Key /\ KeyLen \in PrefixLen
      /\ IsPrefixOf(pfx[cur[t]], len[cur[t]], key[t], KeyLen)
      /\ len[cur[t]] < KeyLen /\ TypeOK /\ TreeOK /\ TreeType
      /\ ref[t] \in live /\ pc[t] # "idle"
  BY <1>1, CurFacts, CallGoal, TypeGivesTree, ZeroKeyType
     DEF IndInv, PointersStable, PointersOK
<1>3. Slot(cur[t], key[t]) \in Branch
  BY <1>2, ChildFacts
<1>4. a \in Free /\ a \in Addr
  BY <1>2, MallocFree DEF InsertAttach
<1>5. /\ Publish(cur[t], Slot(cur[t], key[t]), a, key[t], KeyLen, NoChildren, arg[t])
      /\ Return(t) /\ UNCHANGED <<qk, ql, ref, res>>
      /\ child[cur[t]][Slot(cur[t], key[t])] = NULL
  BY DEF InsertAttach
<1>6. NoChildren \in [Branch -> Pointer] /\ arg[t] \in Value \cup {NoValue}
  BY <1>2 DEF NoChildren, Pointer, TypeOK
<1> HIDE DEF a
<1>7. /\ live' \in SUBSET Addr /\ gc' \in SUBSET Addr /\ done' \in SUBSET Addr
      /\ root' \in Addr /\ pfx' \in [Addr -> Key] /\ len' \in [Addr -> PrefixLen]
      /\ child' \in [Addr -> [Branch -> Pointer]]
      /\ val' \in [Addr -> Value \cup {NoValue}] /\ valid' \in [Addr -> BOOLEAN]
      /\ phase' \in {"batch", "hash"}
      /\ MemoryOK' /\ SameNodes /\ live \subseteq live'
  BY <1>2, <1>3, <1>4, <1>5, <1>6, PublishFrame
<1>8. /\ PointersOK(t)' /\ LocalsOK(t)'
      /\ pc[t] # "idle" /\ pc'[t] # "idle"
      /\ \A u \in Threads \ {t} : SameLocals(u)
      /\ pc' \in [Threads -> {"idle", "sub", "sub_cas", "inv", "ready", "ins",
                 "ins_emplace", "ins_cas", "del", "del_exchange", "get"}]
      /\ cur' \in [Threads -> Pointer] /\ exp' \in [Threads -> Pointer]
      /\ key' \in [Threads -> Key] /\ arg' \in [Threads -> Value \cup {NoValue}]
  BY <1>1, <1>2, <1>5, <1>7, ReturnLocal
<1>9. TypeOK'
  BY <1>2, <1>5, <1>7, <1>8 DEF TypeOK
<1>10. TreeOK'
  BY <1>2, <1>4, <1>5, AttachTree
<1> QED BY <1>5, <1>7, <1>8, <1>9, <1>10, ThreadStep

LEMMA InsertSplitInv ==
    ASSUME IndInv, NEW t \in Threads, InsertSplit(t)
    PROVE  IndInv'
<1>1. Goal(t) = key[t] /\ GoalLen(t) = KeyLen /\ pc[t] = "ins_cas"
  BY CallGoal DEF InsertSplit, Inside
<1> QED BY <1>1, SplitStep DEF InsertSplit

LEMMA GetLeafInv ==
    ASSUME IndInv, NEW t \in Threads, GetLeaf(t)
    PROVE  IndInv'
<1>1. Inside(t) /\ TypeOK /\ cur[t] \in Addr
  <2>1. Inside(t)
    BY DEF GetLeaf, Inside
  <2> QED BY <2>1, CurFacts DEF IndInv
<1>2. /\ UNCHANGED <<live, gc, root, pfx, len, child, phase, done, qk, ql, ref>>
      /\ val' \in [Addr -> Value \cup {NoValue}] /\ valid' \in [Addr -> BOOLEAN]
      /\ res' \in [Threads -> Value \cup {NoValue}]
  BY <1>1 DEF GetLeaf, tree, hashes, TypeOK
<1> QED BY <1>1, <1>2, QuietReturn DEF GetLeaf

LEMMA GetLoadInv ==
    ASSUME IndInv, NEW t \in Threads, GetLoad(t)
    PROVE  IndInv'
<1> DEFINE c == child[cur[t]][Slot(cur[t], key[t])]
<1>1. /\ Inside(t) /\ Given(t) /\ pc[t] = "get" /\ TypeOK /\ TreeOK
      /\ PointersOK(t) /\ LocalsOK(t)
  BY DEF GetLoad, Inside, Given, IndInv, PointersStable
<1>2. /\ cur[t] \in live /\ cur[t] \in Addr /\ key[t] \in Key
      /\ KeyLen \in PrefixLen /\ len[cur[t]] < KeyLen
  BY <1>1, CurFacts, CallGoal, ZeroKeyType, NotLeaf DEF GetLoad
<1>3. c # NULL => c \in live /\ c \in Addr /\ len[cur[t]] < len[c]
  BY <1>1, <1>2, ChildFacts
<1>4. UNCHANGED <<live, gc, root, pfx, len, child, val, valid, hash, phase, done,
                  qk, ql, ref>>
  BY DEF GetLoad, tree, hashes
<1>5. CASE c # NULL /\ Covers(c, key[t], KeyLen)
  <2>1. /\ cur' = [cur EXCEPT ![t] = c]
        /\ UNCHANGED <<pc, exp, key, arg, res>>
    BY <1>5 DEF GetLoad
  <2>2. cur'[t] = c /\ \A u \in Threads \ {t} : SameLocals(u)
    BY <2>1, <1>1, <1>4 DEF TypeOK, SameLocals
  <2>3. IsPrefixOf(pfx[c], len[c], key[t], KeyLen)
    BY <1>1, <1>2, <1>3, <1>5, CoversPrefix
  <2>4. TypeOK'
    BY <2>1, <1>1, <1>3, <1>4, <1>5 DEF TypeOK, Pointer
  <2>5. PointersOK(t)'
    BY <2>1, <2>2, <2>3, <1>1, <1>3, <1>4, <1>5
       DEF PointersOK, Given, Inside, CasPending, Goal, GoalLen, Requesting
  <2>6. ql[t] <= len[cur[t]] => ql[t] <= len[c]
    BY <1>1, <1>2, <1>3, <1>5 DEF TypeOK, PrefixLen
  <2>7. LocalsOK(t)'
    BY <2>1, <2>2, <2>6, <1>1, <1>4 DEF LocalsOK, Inside
  <2> QED BY <2>1, <2>2, <2>4, <2>5, <2>7, <1>1, <1>4, QuietStep
<1>6. CASE ~ (c # NULL /\ Covers(c, key[t], KeyLen))
  <2>1. res' = [res EXCEPT ![t] = NoValue] /\ Return(t)
    BY <1>6 DEF GetLoad
  <2>2. /\ val' \in [Addr -> Value \cup {NoValue}] /\ valid' \in [Addr -> BOOLEAN]
        /\ res' \in [Threads -> Value \cup {NoValue}]
    BY <2>1, <1>1, <1>4 DEF TypeOK
  <2> QED BY <2>1, <2>2, <1>1, <1>4, QuietReturn
<1> QED BY <1>5, <1>6

-----------------------------------------------------------------------------
(* The steps of delete_value *)

LEMMA DeleteResetInv ==
    ASSUME IndInv, NEW t \in Threads, DeleteReset(t)
    PROVE  IndInv'
<1>1. Inside(t) /\ TypeOK
  BY DEF DeleteReset, Inside, IndInv
<1>2. /\ val' \in [Addr -> Value \cup {NoValue}] /\ valid' \in [Addr -> BOOLEAN]
      /\ res' \in [Threads -> Value \cup {NoValue}]
  BY <1>1 DEF DeleteReset, InvalidateHash, TypeOK
<1> QED BY <1>1, <1>2, QuietReturn DEF DeleteReset

LEMMA DeleteLoadInv ==
    ASSUME IndInv, NEW t \in Threads, DeleteLoad(t)
    PROVE  IndInv'
<1> DEFINE c == child[cur[t]][Slot(cur[t], key[t])]
<1>1. /\ Inside(t) /\ Given(t) /\ pc[t] = "del" /\ pc[t] # "idle"
      /\ TypeOK /\ TreeOK /\ PointersOK(t) /\ LocalsOK(t)
  BY DEF DeleteLoad, Inside, Given, IndInv, PointersStable
<1>2. /\ cur[t] \in live /\ cur[t] \in Addr /\ key[t] \in Key
      /\ KeyLen \in PrefixLen /\ len[cur[t]] < KeyLen
      /\ IsPrefixOf(pfx[cur[t]], len[cur[t]], key[t], KeyLen)
  BY <1>1, CurFacts, CallGoal, ZeroKeyType, NotLeaf DEF DeleteLoad
<1>3. c # NULL /\ c \in live /\ c \in Addr /\ len[cur[t]] < len[c]
  BY <1>1, <1>2, ChildFacts DEF DeleteLoad
<1>4. IsPrefixOf(pfx[c], len[c], key[t], KeyLen)
  <2>1. PICK x \in live : IsLeaf(x) /\ pfx[x] = key[t]
    BY <1>1 DEF LocalsOK, HasLeaf
  <2>2. Above(cur[t], x) /\ len[cur[t]] < len[x] /\ Slot(cur[t], pfx[x]) = Slot(cur[t], key[t])
    BY <2>1, <1>2 DEF Above, IsLeaf
  <2>3. Above(c, x)
    BY <2>2, <1>1, <1>2 DEF TreeOK, PathsComplete
  <2> QED BY <2>1, <2>3 DEF Above, IsLeaf
<1>5. UNCHANGED <<live, gc, root, pfx, len, child, val, phase, done, qk, ql, ref,
                  key, arg, exp, res>>
  BY DEF DeleteLoad, tree
<1>6. valid' \in [Addr -> BOOLEAN]
  BY <1>1 DEF DeleteLoad, InvalidateHash, TypeOK
<1>7. CASE IsLeaf(c) /\ pfx[c] = key[t]
  <2>1. pc' = [pc EXCEPT ![t] = "del_exchange"] /\ UNCHANGED cur
    BY <1>7 DEF DeleteLoad
  <2>2. pc'[t] = "del_exchange" /\ \A u \in Threads \ {t} : SameLocals(u)
    BY <2>1, <1>1, <1>5 DEF TypeOK, SameLocals
  <2>3. TypeOK'
    BY <2>1, <1>1, <1>5, <1>6 DEF TypeOK
  <2>4. /\ Inside(t)' /\ Given(t)' /\ ~CasPending(t)' /\ Goal(t)' = Goal(t)
        /\ GoalLen(t)' = GoalLen(t)
    BY <2>2, <1>1, <1>5 DEF Inside, Given, CasPending, Goal, GoalLen
  <2>5. PointersOK(t)'
    BY <2>1, <2>2, <2>4, <1>1, <1>5 DEF PointersOK
  <2>6. ~IsLeaf(cur[t])'
    BY <2>1, <1>5 DEF DeleteLoad, IsLeaf
  <2>7. LocalsOK(t)'
    BY <2>1, <2>2, <2>4, <2>6, <1>1, <1>5 DEF LocalsOK
  <2> QED BY <2>2, <2>3, <2>5, <2>7, <1>1, <1>5, QuietStep
<1>8. CASE ~ (IsLeaf(c) /\ pfx[c] = key[t])
  <2>1. cur' = [cur EXCEPT ![t] = c] /\ UNCHANGED pc
    BY <1>8 DEF DeleteLoad
  <2>2. cur'[t] = c /\ \A u \in Threads \ {t} : SameLocals(u)
    BY <2>1, <1>1, <1>5 DEF TypeOK, SameLocals
  <2>3. TypeOK'
    BY <2>1, <1>1, <1>3, <1>5, <1>6 DEF TypeOK, Pointer
  <2>4. /\ Inside(t)' /\ Given(t)' /\ ~CasPending(t)' /\ Goal(t)' = key[t]
        /\ GoalLen(t)' = KeyLen
    BY <2>1, <1>1, <1>5 DEF Inside, Given, CasPending, Goal, GoalLen
  <2>5. PointersOK(t)'
    BY <2>1, <2>2, <2>4, <1>1, <1>3, <1>4, <1>5 DEF PointersOK
  <2>6. ql[t] <= len[c]
    BY <1>1, <1>2, <1>3 DEF LocalsOK, TypeOK, PrefixLen
  <2>7. HasLeaf(key[t])'
    BY <1>1, <1>5 DEF LocalsOK, HasLeaf, IsLeaf
  <2>8. LocalsOK(t)'
    BY <2>1, <2>2, <2>4, <2>6, <2>7, <1>1, <1>5 DEF LocalsOK
  <2> QED BY <2>1, <2>2, <2>3, <2>5, <2>8, <1>1, <1>5, QuietStep
<1> QED BY <1>7, <1>8

\* No other thread has business below the prefix of a thread's subnode.
LEMMA RangesApart ==
    ASSUME IndInv, Disjoint, NEW t \in Threads, NEW u \in Threads, u # t,
           pc[t] # "idle", pc[u] # "idle",
           NEW k \in Key, NEW m \in PrefixLen,
           IsPrefixOf(qk[t], ql[t], k, m),
           \/ IsPrefixOf(k, m, qk[u], ql[u])
           \/ IsPrefixOf(qk[u], ql[u], k, m)
    PROVE  FALSE
<1>1. ql[t] \in PrefixLen /\ ql[u] \in PrefixLen
  BY DEF IndInv, TypeOK
<1>2. Comparable(qk[t], ql[t], qk[u], ql[u])
  <2>1. CASE IsPrefixOf(k, m, qk[u], ql[u])
    BY <2>1, <1>1, PrefixTrans DEF Comparable
  <2>2. CASE IsPrefixOf(qk[u], ql[u], k, m)
    <3>1. ql[t] <= ql[u] \/ ql[u] <= ql[t]
      BY <1>1 DEF PrefixLen
    <3> QED BY <3>1, <2>2, <1>1, PrefixCompare DEF Comparable
  <2> QED BY <2>1, <2>2
<1> QED BY <1>2 DEF IndInv, RangesOK, Working

\* What is below the child that delete_value takes out of the tree is within
\* the range of the thread that deletes.
LEMMA DeletedRange ==
    ASSUME IndInv, NEW t \in Threads, Inside(t), NEW c \in live,
           Above(cur[t], c), len[cur[t]] < len[c],
           NEW x \in Below(c)
    PROVE  /\ x \in live /\ pfx[x] \in Key /\ len[x] \in PrefixLen
           /\ IsPrefixOf(qk[t], ql[t], pfx[x], len[x])
           /\ ql[t] < len[x]
<1>1. /\ TypeOK /\ LocalsOK(t) /\ x \in live /\ x \in Addr /\ c \in Addr
      /\ IsPrefixOf(pfx[c], len[c], pfx[x], len[x])
  BY DEF IndInv, Below, TypeOK
<1>2. /\ pfx[x] \in Key /\ len[x] \in PrefixLen /\ len[c] \in PrefixLen
      /\ ql[t] \in PrefixLen
  BY <1>1 DEF TypeOK
<1>3. /\ IsPrefixOf(pfx[cur[t]], len[cur[t]], key[t], KeyLen)
      /\ len[cur[t]] \in PrefixLen /\ KeyLen \in PrefixLen
  BY CurFacts, CallGoal, ZeroKeyType
<1>4. IsPrefixOf(qk[t], ql[t], key[t], KeyLen) /\ ql[t] <= len[cur[t]]
  BY <1>1 DEF LocalsOK
<1>5. IsPrefixOf(qk[t], ql[t], pfx[cur[t]], len[cur[t]])
  BY <1>2, <1>3, <1>4, PrefixCompare
<1>6. IsPrefixOf(qk[t], ql[t], pfx[c], len[c])
  BY <1>2, <1>3, <1>5, PrefixTrans DEF Above
<1>7. IsPrefixOf(qk[t], ql[t], pfx[x], len[x])
  BY <1>1, <1>2, <1>6, PrefixTrans
<1>8. len[c] <= len[x]
  BY <1>1 DEF IsPrefixOf
<1>9. ql[t] < len[x]
  BY <1>2, <1>3, <1>4, <1>8 DEF PrefixLen
<1> QED BY <1>1, <1>2, <1>7, <1>9

LEMMA DeleteExchangeInv ==
    ASSUME IndInv, "del" \in Ops => Disjoint, NEW t \in Threads, DeleteExchange(t)
    PROVE  IndInv'
<1> DEFINE b == Slot(cur[t], key[t])
           c == child[cur[t]][b]
<1>1. /\ Inside(t) /\ Given(t) /\ pc[t] # "idle"
      /\ TypeOK /\ TreeOK /\ TreeType /\ PointersOK(t) /\ LocalsOK(t)
      /\ Disjoint /\ ~IsLeaf(cur[t])
  BY TypeGivesTree
     DEF DeleteExchange, Inside, Given, IndInv, PointersStable, LocalsOK
<1>2. /\ cur[t] \in live /\ cur[t] \in Addr /\ key[t] \in Key
      /\ KeyLen \in PrefixLen /\ len[cur[t]] < KeyLen /\ len[cur[t]] \in PrefixLen
  BY <1>1, CurFacts, CallGoal, ZeroKeyType, NotLeaf
<1>3. b \in Branch /\ (c # NULL => c \in live /\ c \in Addr)
  BY <1>1, <1>2, ChildFacts
<1>4. /\ Return(t)
      /\ UNCHANGED <<root, pfx, len, val, valid, hash, phase, done, qk, ql, ref, res>>
      /\ child' = [child EXCEPT ![cur[t]][b] = NULL]
  BY DEF DeleteExchange, hashes
<1>5. CASE c = NULL
  <2>1. live' = live /\ gc' = gc
    BY <1>5 DEF DeleteExchange
  <2>2. child' = child
    BY <1>1, <1>2, <1>3, <1>4, <1>5 DEF TypeOK
  <2>3. /\ val' \in [Addr -> Value \cup {NoValue}] /\ valid' \in [Addr -> BOOLEAN]
        /\ res' \in [Threads -> Value \cup {NoValue}]
    BY <1>1, <1>4 DEF TypeOK
  <2> QED BY <2>1, <2>2, <2>3, <1>1, <1>4, QuietReturn
<1>6. CASE c # NULL
  <2>1. live' = live \ Below(c) /\ gc' = gc \cup Below(c)
    BY <1>6 DEF DeleteExchange
  <2>2. Above(cur[t], c) /\ len[cur[t]] < len[c]
    BY <1>1, <1>2, <1>3, <1>6 DEF TreeOK, EdgesDescend
  <2>3. ASSUME NEW x \in Below(c)
        PROVE  /\ x \in live /\ pfx[x] \in Key /\ len[x] \in PrefixLen
               /\ IsPrefixOf(qk[t], ql[t], pfx[x], len[x])
               /\ ql[t] < len[x]
    BY <2>2, <1>1, <1>3, <1>6, DeletedRange
  <2>4. TreeOK'
    BY <2>1, <1>1, <1>2, <1>3, <1>4, <1>6, RemoveTree
  <2>5. SameNodes
    BY <2>1, <1>4 DEF SameNodes
  <2>6. ref[t] \in live'
    <3>1. ref[t] \in live /\ len[ref[t]] = ql[t] /\ ql[t] \in PrefixLen
      BY <1>1 DEF PointersOK, TypeOK
    <3>2. ref[t] \notin Below(c)
      BY <3>1, <2>3 DEF PrefixLen
    <3> QED BY <3>1, <3>2, <2>1
  <2>7. /\ PointersOK(t)' /\ LocalsOK(t)'
        /\ pc'[t] # "idle"
        /\ \A u \in Threads \ {t} : SameLocals(u)
        /\ pc' \in [Threads -> {"idle", "sub", "sub_cas", "inv", "ready", "ins",
                 "ins_emplace", "ins_cas", "del", "del_exchange", "get"}]
        /\ cur' \in [Threads -> Pointer] /\ exp' \in [Threads -> Pointer]
        /\ key' \in [Threads -> Key] /\ arg' \in [Threads -> Value \cup {NoValue}]
    BY <2>5, <2>6, <1>1, <1>4, ReturnLocal
  <2>8. TypeOK'
    <3>1. child' \in [Addr -> [Branch -> Pointer]]
      BY <1>1, <1>4 DEF TypeOK, Pointer
    <3>2. live' \in SUBSET Addr /\ gc' \in SUBSET Addr
      BY <2>1, <1>1 DEF TypeOK, Below
    <3> QED BY <3>1, <3>2, <2>7, <1>1, <1>4 DEF TypeOK
  <2>9. MemoryOK'
    <3>1. root \in live /\ len[root] = 0 /\ gc \cap live = {}
      BY DEF IndInv, MemoryOK
    <3>2. root \notin Below(c)
      <4>1. ql[t] \in PrefixLen
        BY <1>1 DEF TypeOK
      <4> QED BY <4>1, <3>1, <2>3 DEF PrefixLen
    <3>3. phase' = "batch"
      BY <1>1, <1>4, Busy
    <3> QED BY <3>1, <3>2, <3>3, <2>1, <1>4 DEF MemoryOK
  <2>10. ASSUME NEW u \in Threads, u # t
         PROVE  PointersOK(u)' /\ LocalsOK(u)'
    <3>1. SameLocals(u) /\ PointersOK(u) /\ LocalsOK(u)
      BY <2>7, <2>10 DEF IndInv, PointersStable
    <3>2. /\ qk[u] \in Key /\ ql[u] \in PrefixLen /\ key[u] \in Key
          /\ KeyLen \in PrefixLen
      BY <1>1, <1>2 DEF TypeOK
    <3>3. ASSUME Given(u) \/ pc[u] = "inv", ref[u] \in Below(c)
          PROVE  FALSE
      <4>1. pc[u] # "idle" /\ IsPrefixOf(pfx[ref[u]], len[ref[u]], qk[u], ql[u])
        BY <3>1, <3>3 DEF PointersOK, Given, Inside
      <4> QED BY <4>1, <3>3, <2>3, <2>10, <1>1, RangesApart
    <3>4. ASSUME Inside(u) \/ pc[u] \in Requesting, cur[u] \in Below(c)
          PROVE  FALSE
      <4>1. pc[u] # "idle" /\ IsPrefixOf(pfx[cur[u]], len[cur[u]], Goal(u), GoalLen(u))
        BY <3>1, <3>4 DEF PointersOK, Inside, Requesting
      <4>2. CASE Inside(u)
        <5>1. IsPrefixOf(pfx[cur[u]], len[cur[u]], key[u], KeyLen)
          BY <4>1, <4>2, CallGoal
        <5>2. IsPrefixOf(qk[t], ql[t], key[u], KeyLen)
          <6>1. ql[t] \in PrefixLen
            BY <1>1 DEF TypeOK
          <6> QED BY <6>1, <5>1, <3>2, <3>4, <2>3, PrefixTrans
        <5>3. IsPrefixOf(qk[u], ql[u], key[u], KeyLen)
          BY <4>2, <3>1 DEF LocalsOK
        <5> QED BY <5>2, <5>3, <4>1, <3>2, <2>10, <1>1, RangesApart
      <4>3. CASE pc[u] \in Requesting
        <5>1. IsPrefixOf(pfx[cur[u]], len[cur[u]], qk[u], ql[u])
          BY <4>1, <4>3, RequestGoal
        <5> QED BY <5>1, <4>1, <3>4, <2>3, <2>10, <1>1, RangesApart
      <4> QED BY <3>4, <4>2, <4>3
    <3>5. ASSUME pc[u] = "del", HasLeaf(key[u])
          PROVE  HasLeaf(key[u])'
      <4>1. PICK x \in live : IsLeaf(x) /\ pfx[x] = key[u]
        BY <3>5 DEF HasLeaf
      <4>2. Inside(u) /\ pc[u] # "idle"
        BY <3>5 DEF Inside
      <4>3. IsPrefixOf(qk[u], ql[u], pfx[x], len[x])
        BY <4>1, <4>2, <3>1 DEF LocalsOK, IsLeaf
      <4>4. x \notin Below(c)
        BY <4>2, <4>3, <2>3, <2>10, <1>1, RangesApart
      <4> QED BY <4>1, <4>4, <3>1, <2>1, <1>4 DEF HasLeaf, IsLeaf, SameLocals
    <3>6. /\ Given(u) \/ pc[u] = "inv" => (ref[u] \in live => ref[u] \in live')
          /\ Inside(u) \/ pc[u] \in Requesting => (cur[u] \in live => cur[u] \in live')
      BY <3>3, <3>4, <2>1
    <3> QED BY <3>1, <3>5, <3>6, <2>5, <1>1, ThreadFrame
  <2>11. RangesOK'
    <3>1. \A u \in Threads : Working(u)' => Working(u)
      BY <2>7, <1>1 DEF Working, SameLocals
    <3> QED BY <3>1, <1>4 DEF IndInv, RangesOK
  <2> QED BY <2>4, <2>7, <2>8, <2>9, <2>10, <2>11 DEF IndInv, PointersStable
<1> QED BY <1>5, <1>6

-----------------------------------------------------------------------------
(* The operations that run alone *)

\* While no thread works on the trie, only the tree matters.
LEMMA AloneStep ==
    ASSUME IndInv, AllIdle, UNCHANGED threads, TypeOK', TreeOK', MemoryOK'
    PROVE  IndInv'
<1>1. UNCHANGED <<pc, qk, ql>>
  BY DEF threads
<1>2. \A u \in Threads : pc'[u] = "idle"
  BY <1>1 DEF AllIdle
<1>3. ASSUME NEW u \in Threads
      PROVE  PointersOK(u)' /\ LocalsOK(u)'
  BY <1>2 DEF PointersOK, LocalsOK, Given, Inside, CasPending, Requesting
<1>4. RangesOK'
  BY <1>2 DEF RangesOK, Working
<1> QED BY <1>3, <1>4 DEF IndInv, PointersStable

LEMMA HashStartInv ==
    ASSUME IndInv, HashStart
    PROVE  IndInv'
<1>1. UNCHANGED <<live, gc, root, pfx, len, child, val, valid, done,
                  pc, qk, ql, ref, key, arg, cur, exp, res>>
  BY DEF HashStart, tree, threads
<1>2. AllIdle /\ UNCHANGED threads /\ phase' = "hash"
  BY DEF HashStart
<1>3. TypeOK'
  BY <1>1, <1>2 DEF IndInv, TypeOK
<1>4. TreeOK'
  BY <1>1 DEF IndInv, TreeOK, EdgesDescend, PathsComplete, NoDuplicates, Above, Slot
<1>5. MemoryOK'
  BY <1>1, <1>2 DEF IndInv, MemoryOK, AllIdle
<1> QED BY <1>2, <1>3, <1>4, <1>5, AloneStep

LEMMA HashLeafInv ==
    ASSUME IndInv, NEW n \in Addr, HashLeaf(n)
    PROVE  IndInv'
<1>1. UNCHANGED <<live, gc, root, pfx, len, child, val, phase, done,
                  pc, qk, ql, ref, key, arg, cur, exp, res>>
  BY DEF HashLeaf, tree, threads
<1>2. AllIdle /\ UNCHANGED threads
  BY DEF HashLeaf, IndInv, MemoryOK
<1>3. TypeOK'
  BY <1>1 DEF HashLeaf, IndInv, TypeOK
<1>4. TreeOK'
  BY <1>1 DEF IndInv, TreeOK, EdgesDescend, PathsComplete, NoDuplicates, Above, Slot
<1>5. MemoryOK'
  BY <1>1 DEF IndInv, MemoryOK, AllIdle
<1> QED BY <1>2, <1>3, <1>4, <1>5, AloneStep

LEMMA SettledType ==
    ASSUME TypeOK, TreeOK, NEW n \in live, NEW b \in Branch
    PROVE  Settled(n, b) \in Pointer
<1> DEFINE c == child[n][b]
<1>1. c \in Pointer /\ (c # NULL => c \in Addr)
  BY DEF TypeOK, Pointer
<1>2. CASE c # NULL /\ Single(c)
  <2>1. PICK e \in Branch : Kids(c) = {e}
    BY <1>2 DEF Single
  <2>2. OnlyChild(c) = child[c][e]
    BY <2>1 DEF OnlyChild
  <2>3. OnlyChild(c) \in Pointer
    BY <2>2, <1>1, <1>2 DEF TypeOK
  <2>4. ~Empty(c)
    BY <2>1, <1>2 DEF Empty, Single
  <2> QED BY <2>3, <2>4, <1>2 DEF Settled
<1>3. CASE c # NULL /\ ~Single(c)
  <2>1. CASE Empty(c)
    BY <2>1, <1>3 DEF Settled, Pointer
  <2>2. CASE ~Empty(c)
    BY <2>2, <1>1, <1>3 DEF Settled
  <2> QED BY <2>1, <2>2
<1>4. CASE c = NULL
  BY <1>4 DEF Settled, Pointer
<1> QED BY <1>2, <1>3, <1>4

LEMMA HashMapInv ==
    ASSUME IndInv, NEW n \in Addr, HashMap(n)
    PROVE  IndInv'
<1>1. /\ TypeOK /\ TreeOK /\ TreeType /\ n \in live /\ AllIdle /\ UNCHANGED threads
  BY TypeGivesTree DEF HashMap, Running, IndInv, MemoryOK
<1>2. /\ live' = live \ Dropped(n) /\ gc' = gc \cup Dropped(n)
      /\ child' = ChildrenAfter(n)
      /\ UNCHANGED <<root, pfx, len, val>>
  BY DEF HashMap
<1>3. UNCHANGED <<pc, qk, ql, ref, key, arg, cur, exp, res>>
  BY <1>1 DEF threads
<1>4. Dropped(n) \subseteq live
  BY DEF Dropped
<1>5. TypeOK'
  <2>1. child' \in [Addr -> [Branch -> Pointer]]
    <3>1. [b \in Branch |-> Settled(n, b)] \in [Branch -> Pointer]
      BY <1>1, SettledType
    <3>2. NoChildren \in [Branch -> Pointer]
      BY DEF NoChildren, Pointer
    <3>3. \A a \in Addr : child[a] \in [Branch -> Pointer]
      BY <1>1 DEF TypeOK
    <3> QED BY <3>1, <3>2, <3>3, <1>2 DEF ChildrenAfter
  <2>2. live' \in SUBSET Addr /\ gc' \in SUBSET Addr
    BY <1>1, <1>2, <1>4 DEF TypeOK
  <2>3. done' \in SUBSET Addr /\ valid' \in [Addr -> BOOLEAN]
    BY <1>1 DEF HashMap, TypeOK
  <2>4. phase' \in {"batch", "hash"}
    BY DEF HashMap
  <2> QED BY <2>1, <2>2, <2>3, <2>4, <1>1, <1>2, <1>3 DEF TypeOK
<1>6. TreeOK'
  BY <1>1, <1>2, HashTree
<1>7. MemoryOK'
  <2>1. root \in live /\ len[root] = 0 /\ gc \cap live = {}
    BY DEF IndInv, MemoryOK
  <2>2. root \notin Dropped(n)
    <3> SUFFICES ASSUME NEW b \in Branch, child[n][b] = root
                 PROVE  FALSE
      BY DEF Dropped
    <3>1. root # NULL /\ len[n] \in PrefixLen
      BY <1>1, AddrAssumption DEF TypeOK
    <3>2. len[n] < len[root]
      BY <3>1, <1>1 DEF TreeOK, EdgesDescend
    <3> QED BY <3>1, <3>2, <2>1 DEF PrefixLen
  <2>3. AllIdle'
    BY <1>1, <1>3 DEF AllIdle
  <2> QED BY <2>1, <2>2, <2>3, <1>2 DEF MemoryOK
<1> QED BY <1>1, <1>5, <1>6, <1>7, AloneStep

LEMMA DoGCInv ==
    ASSUME IndInv, DoGC
    PROVE  IndInv'
<1>1. /\ TypeOK /\ TreeOK /\ AllIdle /\ UNCHANGED threads /\ phase' = "batch"
      /\ UNCHANGED <<live, root, done, pc, qk, ql, ref, key, arg, cur, exp, res>>
      /\ Release(gc) /\ gc' = {}
  BY DEF DoGC, IndInv, threads
<1>2. root \in live /\ len[root] = 0 /\ gc \cap live = {}
  BY DEF IndInv, MemoryOK
<1>3. \A x \in live : pfx'[x] = pfx[x] /\ len'[x] = len[x] /\ child'[x] = child[x]
  BY <1>1, <1>2 DEF Release, TypeOK
<1>4. NoChildren \in [Branch -> Pointer]
  BY DEF NoChildren, Pointer
<1>5. TypeOK'
  <2>1. /\ pfx' \in [Addr -> Key] /\ len' \in [Addr -> PrefixLen]
        /\ val' \in [Addr -> Value \cup {NoValue}] /\ valid' \in [Addr -> BOOLEAN]
    BY <1>1, ZeroKeyType DEF Release, TypeOK
  <2>2. child' \in [Addr -> [Branch -> Pointer]]
    BY <1>1, <1>4 DEF Release, TypeOK
  <2> QED BY <2>1, <2>2, <1>1 DEF TypeOK
<1>6. TreeOK'
  <2>1. EdgesDescend'
    BY <1>1, <1>3 DEF TreeOK, EdgesDescend, Above
  <2>2. PathsComplete'
    <3> SUFFICES ASSUME NEW n \in live, NEW x \in live,
                        IsPrefixOf(pfx[n], len[n], pfx[x], len[x]), len[n] < len[x]
                 PROVE  LET c == child[n][Slot(n, pfx[x])]
                        IN  /\ c # NULL
                            /\ IsPrefixOf(pfx'[c], len'[c], pfx'[x], len'[x])
      BY <1>1, <1>3 DEF PathsComplete, Above, Slot
    <3> DEFINE c == child[n][Slot(n, pfx[x])]
    <3>1. c # NULL /\ Above(c, x)
      BY <1>1 DEF TreeOK, PathsComplete, Above
    <3>2. c \in live
      <4>1. n \in Addr /\ x \in Addr
        BY <1>1 DEF TypeOK
      <4>2. pfx[x] \in Key /\ len[x] \in PrefixLen
        BY <4>1, <1>1 DEF TypeOK
      <4> QED BY <4>2, <3>1, <1>1, ChildFacts
    <3> QED BY <3>1, <3>2, <1>3 DEF Above
  <2>3. NoDuplicates'
    BY <1>1, <1>3 DEF TreeOK, NoDuplicates, Above
  <2> QED BY <2>1, <2>2, <2>3 DEF TreeOK
<1>7. MemoryOK'
  BY <1>1, <1>2, <1>3 DEF MemoryOK
<1> QED BY <1>1, <1>5, <1>6, <1>7, AloneStep

\* A tree that is only a root.
LEMMA RootTree ==
    ASSUME NEW r \in Addr, live = {r}, child = [a \in Addr |-> NoChildren],
           len = [a \in Addr |-> 0]
    PROVE  TreeOK
<1>1. \A n \in live, b \in Branch : child[n][b] = NULL
  BY DEF NoChildren
<1>2. \A n \in live : n = r /\ len[n] = 0
  OBVIOUS
<1> QED BY <1>1, <1>2 DEF TreeOK, EdgesDescend, PathsComplete, NoDuplicates

LEMMA FirstRoot == Malloc(Addr, ZeroKey, 0) \in Addr
BY MallocAssumption, AddrAssumption, ZeroKeyType

LEMMA ClearInv ==
    ASSUME IndInv, Clear
    PROVE  IndInv'
<1>1. /\ TypeOK /\ AllIdle /\ UNCHANGED threads /\ phase' = "batch"
      /\ UNCHANGED <<done, pc, qk, ql, ref, key, arg, cur, exp, res>>
      /\ Release(Addr) /\ gc' = {} /\ live' = {root'}
      /\ root' = Malloc(Addr, ZeroKey, 0)
  BY DEF Clear, IndInv, threads
<1>2. root' \in Addr
  BY <1>1, FirstRoot
<1>3. /\ pfx' = [a \in Addr |-> ZeroKey] /\ len' = [a \in Addr |-> 0]
      /\ child' = [a \in Addr |-> NoChildren]
      /\ val' = [a \in Addr |-> NoValue] /\ valid' = [a \in Addr |-> FALSE]
  BY <1>1 DEF Release
<1>4. NoChildren \in [Branch -> Pointer]
  BY DEF NoChildren, Pointer
<1>5. TypeOK'
  <2>1. /\ pfx' \in [Addr -> Key] /\ len' \in [Addr -> PrefixLen]
        /\ val' \in [Addr -> Value \cup {NoValue}] /\ valid' \in [Addr -> BOOLEAN]
        /\ child' \in [Addr -> [Branch -> Pointer]]
    BY <1>3, <1>4, ZeroKeyType
  <2> QED BY <2>1, <1>1, <1>2 DEF TypeOK
<1>6. TreeOK'
  <2>1. \A n \in live', b \in Branch : child'[n][b] = NULL
    BY <1>1, <1>2, <1>3 DEF NoChildren
  <2>2. \A n \in live' : n = root' /\ len'[n] = 0
    BY <1>1, <1>2, <1>3
  <2> QED BY <2>1, <2>2 DEF TreeOK, EdgesDescend, PathsComplete, NoDuplicates
<1>7. MemoryOK'
  BY <1>1, <1>2, <1>3 DEF MemoryOK
<1> QED BY <1>1, <1>5, <1>6, <1>7, AloneStep

-----------------------------------------------------------------------------
(* The theorems *)

LEMMA InitInv == Init => IndInv
<1> SUFFICES ASSUME Init PROVE IndInv
  OBVIOUS
<1>1. root \in Addr /\ live = {root} /\ gc = {} /\ phase = "batch"
  BY FirstRoot DEF Init
<1>2. TypeOK
  <2>1. NoChildren \in [Branch -> Pointer] /\ NULL \in Pointer
    BY DEF NoChildren, Pointer
  <2>2. /\ pfx \in [Addr -> Key] /\ len \in [Addr -> PrefixLen]
        /\ val \in [Addr -> Value \cup {NoValue}] /\ valid \in [Addr -> BOOLEAN]
        /\ child \in [Addr -> [Branch -> Pointer]]
    BY <2>1, ZeroKeyType DEF Init
  <2>3. /\ pc \in [Threads -> {"idle"}] /\ qk \in [Threads -> Key]
        /\ ql \in [Threads -> PrefixLen] /\ ref \in [Threads -> Pointer]
        /\ key \in [Threads -> Key] /\ arg \in [Threads -> Value \cup {NoValue}]
        /\ cur \in [Threads -> Pointer] /\ exp \in [Threads -> Pointer]
        /\ res \in [Threads -> Value \cup {NoValue}]
    BY <2>1, ZeroKeyType DEF Init
  <2>4. done = {}
    BY DEF Init
  <2> QED BY <2>2, <2>3, <2>4, <1>1 DEF TypeOK
<1>3. TreeOK
  BY <1>1, RootTree DEF Init
<1>4. MemoryOK
  BY <1>1 DEF MemoryOK, Init
<1>5. \A t \in Threads : pc[t] = "idle"
  BY DEF Init
<1>6. ASSUME NEW t \in Threads
      PROVE  PointersOK(t) /\ LocalsOK(t)
  BY <1>5 DEF PointersOK, LocalsOK, Given, Inside, CasPending, Requesting
<1>7. RangesOK
  BY <1>5 DEF RangesOK, Working
<1> QED BY <1>2, <1>3, <1>4, <1>6, <1>7 DEF IndInv, PointersStable

LEMMA ProceedInv ==
    ASSUME IndInv, "del" \in Ops => Disjoint, NEW t \in Threads, Proceed(t)
    PROVE  IndInv'
<1>1. CASE SubReturn(t)
  BY <1>1, SubReturnInv
<1>2. CASE SubLoad(t) \/ SubRetry(t)
  BY <1>2, SubLoadInv
<1>3. CASE SubAttach(t)
  BY <1>3, SubAttachInv
<1>4. CASE SubSplit(t)
  BY <1>4, SubSplitInv
<1>5. CASE InvalidateStep(t)
  BY <1>5, InvalidateStepInv
<1>6. CASE InsertMerge(t)
  BY <1>6, InsertMergeInv
<1>7. CASE InsertFoundEmpty(t)
  BY <1>7, InsertFoundEmptyInv
<1>8. CASE InsertEmplace(t)
  BY <1>8, InsertEmplaceInv
<1>9. CASE InsertLoad(t) \/ InsertRetry(t)
  BY <1>9, InsertLoadInv
<1>10. CASE InsertAttach(t)
  BY <1>10, InsertAttachInv
<1>11. CASE InsertSplit(t)
  BY <1>11, InsertSplitInv
<1>12. CASE DeleteReset(t)
  BY <1>12, DeleteResetInv
<1>13. CASE DeleteLoad(t)
  BY <1>13, DeleteLoadInv
<1>14. CASE DeleteExchange(t)
  BY <1>14, DeleteExchangeInv
<1>15. CASE GetLeaf(t)
  BY <1>15, GetLeafInv
<1>16. CASE GetLoad(t)
  BY <1>16, GetLoadInv
<1> QED BY <1>1, <1>2, <1>3, <1>4, <1>5, <1>6, <1>7, <1>8, <1>9, <1>10, <1>11,
           <1>12, <1>13, <1>14, <1>15, <1>16 DEF Proceed

LEMMA NextInv ==
    ASSUME IndInv, "del" \in Ops => Disjoint, Next
    PROVE  IndInv'
<1>1. ASSUME NEW t \in Threads, Start(t)
      PROVE  IndInv'
  <2>1. ASSUME NEW k \in Keys, NEW l \in SubnodeLens, GetSubnode(t, k, l)
        PROVE  IndInv'
    BY <2>1, GetSubnodeInv
  <2>2. ASSUME NEW k \in Keys, NEW v \in Value, StartInsert(t, k, v)
        PROVE  IndInv'
    BY <2>2, StartInsertInv
  <2>3. ASSUME NEW k \in Keys, StartDelete(t, k) \/ StartGet(t, k)
        PROVE  IndInv'
    BY <2>3, StartDeleteInv, StartGetInv
  <2>4. CASE Finish(t)
    BY <2>4, FinishInv
  <2> QED BY <1>1, <2>1, <2>2, <2>3, <2>4 DEF Start
<1>2. ASSUME NEW t \in Threads, Proceed(t)
      PROVE  IndInv'
  BY <1>2, ProceedInv
<1>3. CASE HashStart
  BY <1>3, HashStartInv
<1>4. CASE HashStep
  BY <1>4, HashLeafInv, HashMapInv DEF HashStep
<1>5. CASE DoGC
  BY <1>5, DoGCInv
<1>6. CASE Clear
  BY <1>6, ClearInv
<1> QED BY <1>1, <1>2, <1>3, <1>4, <1>5, <1>6 DEF Next

LEMMA StutterInv == IndInv /\ UNCHANGED vars => IndInv'
<1> SUFFICES ASSUME IndInv, UNCHANGED vars PROVE IndInv'
  OBVIOUS
<1>1. UNCHANGED <<live, gc, root, pfx, len, child, val, valid, hash, phase, done,
                  pc, qk, ql, ref, key, arg, cur, exp, res>>
  BY DEF vars, tree, hashes, threads
<1>2. TypeOK'
  BY <1>1 DEF IndInv, TypeOK
<1>3. TreeOK'
  BY <1>1 DEF IndInv, TreeOK, EdgesDescend, PathsComplete, NoDuplicates, Above, Slot
<1>4. MemoryOK' /\ RangesOK'
  BY <1>1 DEF IndInv, MemoryOK, AllIdle, RangesOK, Working
<1>5. ASSUME NEW u \in Threads
      PROVE  PointersOK(u)' /\ LocalsOK(u)'
  <2>1. SameLocals(u) /\ SameNodes /\ PointersOK(u) /\ LocalsOK(u) /\ TypeOK
    BY <1>1 DEF SameLocals, SameNodes, IndInv, PointersStable
  <2>2. HasLeaf(key[u]) => HasLeaf(key[u])'
    BY <1>1 DEF HasLeaf, IsLeaf
  <2> QED BY <2>1, <2>2, <1>1, ThreadFrame
<1> QED BY <1>2, <1>3, <1>4, <1>5 DEF IndInv, PointersStable

\* IndInv always holds, for callers that keep the documented contract: a
\* caller that deletes has the range of its subnode for itself ("Batch
\* modifications should generally not be done concurrently with insertions").
THEOREM Inductive ==
    ASSUME "del" \in Ops => Disjoint
    PROVE  Spec => []IndInv
<1>1. Init => IndInv
  BY InitInv
<1>2. IndInv /\ [Next]_vars => IndInv'
  BY NextInv, StutterInv
<1> QED BY <1>1, <1>2, PTL DEF Spec

\* Every variable keeps its type; in particular no step dereferences a null
\* root or leaves a child word that is not a pointer.
THEOREM Typed ==
    ASSUME "del" \in Ops => Disjoint
    PROVE  Spec => []TypeOK
<1>1. IndInv => TypeOK
  BY DEF IndInv
<1> QED BY <1>1, Inductive, PTL

\* The nodes reachable from the root always form a trie: children in their
\* slots, no two nodes for the same digits, none cut off, whatever the order
\* of the CASes of try_add_child, the exchanges and the splices.
THEOREM TreeShape ==
    ASSUME "del" \in Ops => Disjoint
    PROVE  Spec => []TreeOK
<1>1. IndInv => TreeOK
  BY DEF IndInv
<1> QED BY <1>1, Inductive, PTL

\* No node is reachable through a slot that does not belong to it, or after
\* it was given to the collector.
THEOREM ChildrenInPlace ==
    ASSUME "del" \in Ops => Disjoint
    PROVE  Spec => []EdgesDescend
<1>1. IndInv => EdgesDescend
  BY DEF IndInv, TreeOK
<1> QED BY <1>1, Inductive, PTL

\* No race between try_add_child, exchange and the splices of
\* compute_hash_and_normalize cuts a node off from the root.
THEOREM NothingLost ==
    ASSUME "del" \in Ops => Disjoint
    PROVE  Spec => []PathsComplete
<1>1. IndInv => PathsComplete
  BY DEF IndInv, TreeOK
<1> QED BY <1>1, Inductive, PTL

\* No race creates two nodes for the same digits.
THEOREM OneNodePerPrefix ==
    ASSUME "del" \in Ops => Disjoint
    PROVE  Spec => []NoDuplicates
<1>1. IndInv => NoDuplicates
  BY DEF IndInv, TreeOK
<1> QED BY <1>1, Inductive, PTL

\* The pointer that get_subnode_ref_and_invalidate_hash gives to a caller
\* stays good until the caller drops it, and so do the pointers that a call
\* holds between two accesses.
THEOREM SubnodesStable ==
    ASSUME "del" \in Ops => Disjoint
    PROVE  Spec => []PointersStable
<1>1. IndInv => PointersStable
  BY DEF IndInv
<1> QED BY <1>1, Inductive, PTL

-----------------------------------------------------------------------------
(* The refinement of KVMap: every step of SnapshotTrie is a step of KVMap, *)
(* or leaves the map, the calls and the answers alone.                     *)

\* EffectsReady for one thread.
EffectOK(t) ==
    /\ Inside(t) => key[t] \in Keys
    /\ Disjoint /\ pc[t] = "ins_emplace" => val[cur[t]] = NoValue
    /\ pc[t] = "del_exchange" =>
          LET c == child[cur[t]][Slot(cur[t], key[t])]
          IN  c # NULL /\ IsLeaf(c) /\ pfx[c] = key[t]

LEMMA EffectParts == EffectsReady <=> \A t \in Threads : EffectOK(t)
BY DEF EffectsReady, EffectOK

\* The variables of the map, and a step that the map allows.
Reqs == [t \in Threads |-> Request(t)]
MapStep == KV!Next \/ UNCHANGED <<View, Reqs, res>>

NoCall == [op |-> "none"]

-----------------------------------------------------------------------------
(* The calls, as the map sees them *)

LEMMA RequestIs ==
    ASSUME NEW t
    PROVE  /\ pc[t] \in {"ins", "ins_emplace", "ins_cas"} =>
                Request(t) = [op |-> "ins", key |-> key[t], arg |-> arg[t]]
           /\ pc[t] \in {"del", "del_exchange"} =>
                Request(t) = [op |-> "del", key |-> key[t]]
           /\ pc[t] = "get" => Request(t) = [op |-> "get", key |-> key[t]]
           /\ ~Inside(t) => Request(t) = NoCall
BY DEF Request, Inside, NoCall

LEMMA RequestThen ==
    ASSUME NEW t
    PROVE  /\ pc'[t] \in {"ins", "ins_emplace", "ins_cas"} =>
                Request(t)' = [op |-> "ins", key |-> key'[t], arg |-> arg'[t]]
           /\ pc'[t] \in {"del", "del_exchange"} =>
                Request(t)' = [op |-> "del", key |-> key'[t]]
           /\ pc'[t] = "get" => Request(t)' = [op |-> "get", key |-> key'[t]]
           /\ ~Inside(t)' => Request(t)' = NoCall
BY DEF Request, Inside, NoCall

LEMMA RequestSame ==
    ASSUME NEW u, SameLocals(u)
    PROVE  Request(u)' = Request(u)
BY DEF SameLocals, Request

\* Only thread t changes what it is calling.
LEMMA ReqsSet ==
    ASSUME NEW t \in Threads, \A u \in Threads \ {t} : SameLocals(u)
    PROVE  /\ Reqs' = [Reqs EXCEPT ![t] = Request(t)']
           /\ Request(t)' = Request(t) => Reqs' = Reqs
           /\ \A u \in Threads : Reqs[u] = Request(u)
<1>1. \A u \in Threads \ {t} : Request(u)' = Request(u)
  BY RequestSame
<1> QED BY <1>1 DEF Reqs

-----------------------------------------------------------------------------
(* The map that a tree holds *)

\* The value of key k in a tree with nodes L is v.
ValueIn(L, P, N, V, k, v) ==
    IF \E n \in L : N[n] = KeyLen /\ P[n] = k
    THEN \A n \in L : N[n] = KeyLen /\ P[n] = k => V[n] = v
    ELSE v = NoValue

LEMMA LeafUnique ==
    ASSUME TypeOK, TreeOK, NEW n \in live, NEW m \in live,
           IsLeaf(n), IsLeaf(m), pfx[n] = pfx[m]
    PROVE  n = m
<1>1. IsPrefixOf(pfx[n], len[n], pfx[m], len[m])
  BY KeyLenAssumption DEF IsPrefixOf, IsLeaf
<1> QED BY <1>1 DEF TreeOK, NoDuplicates, Above, IsLeaf

LEMMA ViewNow ==
    ASSUME TypeOK, TreeOK, NEW k \in Keys
    PROVE  ValueIn(live, pfx, len, val, k, View[k])
<1>1. CASE HasLeaf(k)
  <2> DEFINE c == CHOOSE n \in live : IsLeaf(n) /\ pfx[n] = k
  <2>1. c \in live /\ IsLeaf(c) /\ pfx[c] = k
    BY <1>1 DEF HasLeaf
  <2>2. View[k] = val[c]
    BY <1>1 DEF View
  <2> HIDE DEF c
  <2>3. \A n \in live : IsLeaf(n) /\ pfx[n] = k => n = c
    BY <2>1, LeafUnique
  <2> QED BY <2>1, <2>2, <2>3 DEF ValueIn, IsLeaf
<1>2. CASE ~HasLeaf(k)
  BY <1>2 DEF View, ValueIn, HasLeaf, IsLeaf
<1> QED BY <1>1, <1>2

LEMMA ViewThen ==
    ASSUME NEW k \in Keys, NEW v, ValueIn(live', pfx', len', val', k, v)
    PROVE  View'[k] = v
<1>1. CASE HasLeaf(k)'
  <2> DEFINE c == CHOOSE n \in live' : len'[n] = KeyLen /\ pfx'[n] = k
  <2>1. c \in live' /\ len'[c] = KeyLen /\ pfx'[c] = k
    BY <1>1 DEF HasLeaf, IsLeaf
  <2>2. View'[k] = val'[c]
    BY <1>1 DEF View, IsLeaf
  <2> HIDE DEF c
  <2> QED BY <2>1, <2>2 DEF ValueIn
<1>2. CASE ~HasLeaf(k)'
  BY <1>2 DEF View, ValueIn, HasLeaf, IsLeaf
<1> QED BY <1>1, <1>2

\* No key changes its value.
LEMMA ViewSame ==
    ASSUME TypeOK, TreeOK,
           \A k \in Keys : \A v :
              ValueIn(live, pfx, len, val, k, v)
                => ValueIn(live', pfx', len', val', k, v)
    PROVE  View' = View
<1>1. ASSUME NEW k \in Keys
      PROVE  View'[k] = View[k]
  BY ViewNow, ViewThen
<1> QED BY <1>1 DEF View

\* One key is given the value w.
LEMMA ViewSet ==
    ASSUME TypeOK, TreeOK, NEW j \in Keys, NEW w,
           ValueIn(live', pfx', len', val', j, w),
           \A k \in Keys \ {j} : \A v :
              ValueIn(live, pfx, len, val, k, v)
                => ValueIn(live', pfx', len', val', k, v)
    PROVE  View' = [View EXCEPT ![j] = w]
<1>1. ASSUME NEW k \in Keys \ {j}
      PROVE  View'[k] = View[k]
  BY ViewNow, ViewThen
<1>2. View'[j] = w
  BY ViewThen
<1>3. /\ View = [k \in Keys |-> View[k]]
      /\ View' = [k \in Keys |-> View'[k]]
  BY DEF View
<1> HIDE DEF View
<1> QED BY <1>1, <1>2, <1>3

-----------------------------------------------------------------------------
(* The steps of the map *)

LEMMA MapStutter ==
    ASSUME View' = View, Reqs' = Reqs, res' = res
    PROVE  MapStep
BY DEF MapStep

LEMMA MapInvoke ==
    ASSUME NEW t \in Threads, NEW k \in Keys, Request(t) = NoCall,
           NEW c,
           \/ c = [op |-> "ins", key |-> k, arg |-> c.arg] /\ c.arg \in Value
           \/ c = [op |-> "del", key |-> k]
           \/ c = [op |-> "get", key |-> k],
           Reqs' = [Reqs EXCEPT ![t] = c], View' = View,
           res' = [res EXCEPT ![t] = NoValue] \/ (c.op # "get" /\ res' = res)
    PROVE  MapStep
<1>1. c \in KV!Calls(k)
  BY DEF KV!Calls
<1>2. Reqs'[t] = c /\ Reqs[t] = Request(t)
  BY DEF Reqs
<1>3. KV!Invoke(t)
  BY <1>1, <1>2 DEF KV!Invoke, KV!NoCall, NoCall, Reqs
<1> QED BY <1>3 DEF MapStep, KV!Next

LEMMA MapInsert ==
    ASSUME NEW t \in Threads, NEW k, NEW v,
           Request(t) = [op |-> "ins", key |-> k, arg |-> v],
           Reqs' = [Reqs EXCEPT ![t] = NoCall], res' = res,
           View' = [View EXCEPT ![k] = IF View[k] = NoValue THEN v
                                       ELSE Merge(View[k], v)]
    PROVE  MapStep
<1>1. Reqs[t].op = "ins" /\ Reqs[t].key = k /\ Reqs[t].arg = v
  BY DEF Reqs
<1>3. View' = [View EXCEPT ![Reqs[t].key] =
                 IF View[Reqs[t].key] = NoValue THEN Reqs[t].arg
                 ELSE Merge(View[Reqs[t].key], Reqs[t].arg)]
  BY <1>1
<1>2. KV!Insert(t)
  BY <1>1, <1>3 DEF KV!Insert, KV!NoCall, NoCall, Reqs
<1> QED BY <1>2 DEF MapStep, KV!Next

LEMMA MapDelete ==
    ASSUME NEW t \in Threads, NEW k,
           Request(t) = [op |-> "del", key |-> k],
           Reqs' = [Reqs EXCEPT ![t] = NoCall], res' = res,
           View' = [View EXCEPT ![k] = NoValue]
    PROVE  MapStep
<1>1. Reqs[t].op = "del" /\ Reqs[t].key = k
  BY DEF Reqs
<1>2. KV!Delete(t)
  BY <1>1 DEF KV!Delete, KV!NoCall, NoCall, Reqs
<1> QED BY <1>2 DEF MapStep, KV!Next

LEMMA MapGet ==
    ASSUME NEW t \in Threads, NEW k,
           Request(t) = [op |-> "get", key |-> k],
           Reqs' = [Reqs EXCEPT ![t] = NoCall],
           res' = [res EXCEPT ![t] = View[k]],
           View' = View
    PROVE  MapStep
<1>1. Reqs[t].op = "get" /\ Reqs[t].key = k
  BY DEF Reqs
<1>2. KV!Get(t)
  BY <1>1 DEF KV!Get, KV!NoCall, NoCall, Reqs
<1> QED BY <1>2 DEF MapStep, KV!Next

LEMMA MapForget ==
    ASSUME NEW t \in Threads, Request(t) = NoCall,
           Reqs' = Reqs, res' = [res EXCEPT ![t] = NoValue], View' = View
    PROVE  MapStep
<1>1. Reqs[t] = Request(t)
  BY DEF Reqs
<1>2. KV!Forget(t)
  BY <1>1 DEF KV!Forget, KV!NoCall, NoCall, Reqs
<1> QED BY <1>2 DEF MapStep, KV!Next

\* While no thread is inside a call, values without a logical value may go.
LEMMA MapPurge ==
    ASSUME AllIdle, Reqs' = Reqs, res' = res,
           \A k \in Keys : \/ View'[k] = View[k]
                           \/ View'[k] = NoValue /\ View[k] \notin Logical
    PROVE  MapStep
<1> DEFINE K == {k \in Keys : View'[k] # View[k]}
<1>1. KV!NoneInside
  <2>1. \A t \in Threads : Request(t) = NoCall
    BY RequestIs DEF AllIdle, Inside
  <2> QED BY <2>1 DEF KV!NoneInside, KV!NoCall, NoCall
<1>2. K \in SUBSET {k \in Keys : View[k] \notin Logical}
  OBVIOUS
<1>3. \A k \in Keys : View'[k] = IF k \in K THEN NoValue ELSE View[k]
  OBVIOUS
<1>4. View' = [k \in Keys |-> View'[k]]
  BY DEF View
<1>5. View' = [k \in Keys |-> IF k \in K THEN NoValue ELSE View[k]]
  <2> HIDE DEF K, View
  <2> QED BY <1>3, <1>4
<1> HIDE DEF K
<1>6. KV!Purge
  BY <1>1, <1>2, <1>5 DEF KV!Purge, Reqs
<1> QED BY <1>6 DEF MapStep, KV!Next

LEMMA MapClear ==
    ASSUME AllIdle, Reqs' = Reqs, res' = res, View' = [k \in Keys |-> NoValue]
    PROVE  MapStep
<1>1. KV!NoneInside
  <2>1. \A t \in Threads : Request(t) = NoCall
    BY RequestIs DEF AllIdle, Inside
  <2> QED BY <2>1 DEF KV!NoneInside, KV!NoCall, NoCall
<1>2. KV!Clear
  BY <1>1 DEF KV!Clear, Reqs
<1> QED BY <1>2 DEF MapStep, KV!Next

-----------------------------------------------------------------------------
(* What a step does to the calls of the other threads *)

\* With ranges of their own, two threads are never at the same node while
\* one of them is inside a call.
LEMMA CurApart ==
    ASSUME IndInv, Disjoint, NEW t \in Threads, NEW u \in Threads, u # t,
           Inside(u), Inside(t) \/ pc[t] \in Requesting
    PROVE  cur[t] # cur[u]
<1> SUFFICES ASSUME cur[t] = cur[u] PROVE FALSE
  OBVIOUS
<1> DEFINE n == cur[u]
<1>1. pc[t] # "idle" /\ pc[u] # "idle"
  BY DEF Inside, Requesting
<1>2. pfx[n] \in Key /\ len[n] \in PrefixLen
  BY CurFacts
<1>3. ASSUME NEW w \in Threads, Inside(w), cur[w] = n
      PROVE  IsPrefixOf(qk[w], ql[w], pfx[n], len[n])
  <2>1. IsPrefixOf(pfx[n], len[n], key[w], KeyLen) /\ KeyLen \in PrefixLen
    BY <1>3, CurFacts, CallGoal, ZeroKeyType
  <2>2. IsPrefixOf(qk[w], ql[w], key[w], KeyLen) /\ ql[w] <= len[n]
    BY <1>3 DEF IndInv, LocalsOK
  <2>3. ql[w] \in PrefixLen
    BY DEF IndInv, TypeOK
  <2> QED BY <2>1, <2>2, <2>3, <1>2, PrefixCompare
<1>4. IsPrefixOf(qk[u], ql[u], pfx[n], len[n])
  BY <1>3
<1>5. CASE Inside(t)
  BY <1>5, <1>1, <1>2, <1>3, <1>4, RangesApart
<1>6. CASE pc[t] \in Requesting
  <2>1. IsPrefixOf(pfx[n], len[n], qk[t], ql[t])
    BY <1>6, CurFacts, RequestGoal
  <2> QED BY <2>1, <1>1, <1>2, <1>4, RangesApart
<1> QED BY <1>5, <1>6

\* A step of thread t changes at most the node where t is.
LEMMA OtherEffects ==
    ASSUME IndInv, "del" \in Ops => Disjoint, EffectsReady, NEW t \in Threads,
           SameNodes, \A u \in Threads \ {t} : SameLocals(u),
           \A x \in live : \/ child'[x] = child[x] /\ val'[x] = val[x]
                           \/ x = cur[t] /\ (Inside(t) \/ pc[t] \in Requesting),
           EffectOK(t)'
    PROVE  EffectsReady'
<1> SUFFICES ASSUME NEW u \in Threads, u # t
             PROVE  EffectOK(u)'
  BY DEF EffectsReady, EffectOK
<1>1. SameLocals(u) /\ EffectOK(u)
  BY EffectParts
<1>2. Inside(u)' = Inside(u)
  BY <1>1 DEF SameLocals, Inside
<1>3. ASSUME Disjoint, Inside(u)
      PROVE  /\ child'[cur[u]] = child[cur[u]] /\ val'[cur[u]] = val[cur[u]]
             /\ cur[u] \in live
  BY <1>3, CurApart, CurFacts
<1>4. Disjoint /\ pc'[u] = "ins_emplace" => val'[cur'[u]] = NoValue
  BY <1>1, <1>3 DEF EffectOK, Inside, SameLocals
<1>5. ASSUME pc'[u] = "del_exchange"
      PROVE  LET c == child'[cur'[u]][BranchBits(key'[u], len'[cur'[u]])]
             IN  c # NULL /\ len'[c] = KeyLen /\ pfx'[c] = key'[u]
  <2>1. pc[u] = "del_exchange" /\ Inside(u) /\ Disjoint /\ ~IsLeaf(cur[u])
    BY <1>1, <1>5 DEF SameLocals, Inside, IndInv, LocalsOK
  <2>2. /\ cur[u] \in live /\ cur[u] \in Addr /\ key[u] \in Key
        /\ KeyLen \in PrefixLen /\ len[cur[u]] < KeyLen
    BY <2>1, CurFacts, CallGoal, ZeroKeyType, NotLeaf DEF IndInv
  <2> DEFINE c == child[cur[u]][Slot(cur[u], key[u])]
  <2>3. c # NULL /\ IsLeaf(c) /\ pfx[c] = key[u]
    BY <2>1, <1>1 DEF EffectOK
  <2>4. c \in live
    BY <2>2, <2>3, ChildFacts DEF IndInv
  <2>5. pfx'[c] = pfx[c] /\ len'[c] = len[c] /\ len'[cur[u]] = len[cur[u]]
    BY <2>2, <2>4 DEF SameNodes
  <2>6. c = child'[cur'[u]][BranchBits(key'[u], len'[cur'[u]])] /\ key'[u] = key[u]
    BY <2>1, <2>5, <1>1, <1>3 DEF SameLocals, Slot
  <2> HIDE DEF c
  <2> QED BY <2>3, <2>5, <2>6 DEF IsLeaf
<1>6. Inside(u)' => key'[u] \in Keys
  BY <1>1, <1>2 DEF EffectOK, SameLocals
<1> QED BY <1>4, <1>5, <1>6 DEF EffectOK, IsLeaf, Slot

\* A call that has returned has nothing to rely on.
LEMMA NoEffect ==
    ASSUME NEW t \in Threads, ~Inside(t)'
    PROVE  EffectOK(t)'
BY DEF EffectOK, Inside

\* While nobody works on the trie, nobody relies on anything.
LEMMA AloneEffects ==
    ASSUME AllIdle, pc' = pc
    PROVE  EffectsReady'
BY DEF AllIdle, EffectsReady, Inside

-----------------------------------------------------------------------------
(* What a step does to the map *)

LEMMA ViewQuiet ==
    ASSUME UNCHANGED <<live, pfx, len, val>>
    PROVE  View' = View
BY DEF View, HasLeaf, IsLeaf

\* A node is added to the tree.
LEMMA ViewPublish ==
    ASSUME TypeOK, TreeOK, TypeOK', TreeOK', NEW a, a \notin live,
           live' = live \cup {a},
           \A x \in live : pfx'[x] = pfx[x] /\ len'[x] = len[x] /\ val'[x] = val[x]
    PROVE  /\ val'[a] = NoValue \/ len'[a] # KeyLen => View' = View
           /\ len'[a] = KeyLen /\ pfx'[a] \in Keys =>
                /\ View[pfx'[a]] = NoValue
                /\ View' = [View EXCEPT ![pfx'[a]] = val'[a]]
<1>1. ASSUME len'[a] = KeyLen, NEW x \in live, len[x] = KeyLen
      PROVE  pfx[x] # pfx'[a]
  <2> SUFFICES ASSUME pfx[x] = pfx'[a] PROVE FALSE
    OBVIOUS
  <2>1. IsPrefixOf(pfx'[x], len'[x], pfx'[a], len'[a]) /\ len'[x] = len'[a]
    BY <1>1, KeyLenAssumption DEF IsPrefixOf
  <2>2. x = a
    BY <2>1, <1>1 DEF TreeOK, NoDuplicates, Above
  <2> QED BY <2>2
<1>2. ASSUME val'[a] = NoValue \/ len'[a] # KeyLen
      PROVE  View' = View
  <2>1. ASSUME NEW k \in Keys, NEW v, ValueIn(live, pfx, len, val, k, v)
        PROVE  ValueIn(live', pfx', len', val', k, v)
    <3>1. CASE \E n \in live : len[n] = KeyLen /\ pfx[n] = k
      BY <3>1, <2>1, <1>1 DEF ValueIn
    <3>2. CASE ~ \E n \in live : len[n] = KeyLen /\ pfx[n] = k
      BY <3>2, <2>1, <1>2 DEF ValueIn
    <3> QED BY <3>1, <3>2
  <2> QED BY <2>1, ViewSame
<1>3. ASSUME len'[a] = KeyLen, pfx'[a] \in Keys
      PROVE  /\ View[pfx'[a]] = NoValue
             /\ View' = [View EXCEPT ![pfx'[a]] = val'[a]]
  <2> DEFINE j == pfx'[a]
             w == val'[a]
  <2>1. View[j] = NoValue
    BY <1>1, <1>3, ViewNow DEF ValueIn
  <2>2. ValueIn(live', pfx', len', val', j, w)
    BY <1>1, <1>3 DEF ValueIn
  <2>3. ASSUME NEW k \in Keys \ {j}, NEW v, ValueIn(live, pfx, len, val, k, v)
        PROVE  ValueIn(live', pfx', len', val', k, v)
    BY <2>3 DEF ValueIn
  <2>4. j \in Keys /\ j = pfx'[a] /\ w = val'[a]
    BY <1>3
  <2> HIDE DEF j, w
  <2>5. View' = [View EXCEPT ![j] = w]
    BY <2>2, <2>3, <2>4, ViewSet
  <2> QED BY <2>1, <2>4, <2>5
<1> QED BY <1>2, <1>3

\* The value of a leaf is written.
LEMMA ViewWrite ==
    ASSUME TypeOK, TreeOK, NEW n \in live, IsLeaf(n), pfx[n] \in Keys, NEW w,
           UNCHANGED <<live, pfx, len>>, val' = [val EXCEPT ![n] = w]
    PROVE  /\ View[pfx[n]] = val[n]
           /\ View' = [View EXCEPT ![pfx[n]] = w]
<1>1. \A x \in live : len[x] = KeyLen /\ pfx[x] = pfx[n] => x = n
  BY LeafUnique DEF IsLeaf
<1>2. \A x \in live : val'[x] = IF x = n THEN w ELSE val[x]
  BY DEF TypeOK
<1>3. View[pfx[n]] = val[n]
  BY ViewNow DEF ValueIn, IsLeaf
<1>4. ValueIn(live', pfx', len', val', pfx[n], w)
  BY <1>1, <1>2 DEF ValueIn, IsLeaf
<1>5. ASSUME NEW k \in Keys \ {pfx[n]}, NEW v, ValueIn(live, pfx, len, val, k, v)
      PROVE  ValueIn(live', pfx', len', val', k, v)
  BY <1>2, <1>5 DEF ValueIn
<1> QED BY <1>3, <1>4, <1>5, ViewSet

\* Nodes leave the tree.
LEMMA ViewRemove ==
    ASSUME TypeOK, TreeOK, NEW D, live' = live \ D, UNCHANGED <<pfx, len, val>>
    PROVE  \A k \in Keys :
              View'[k] = IF \E n \in live : IsLeaf(n) /\ pfx[n] = k /\ n \in D
                         THEN NoValue ELSE View[k]
<1> SUFFICES ASSUME NEW k \in Keys
             PROVE  View'[k] = IF \E n \in live : IsLeaf(n) /\ pfx[n] = k /\ n \in D
                               THEN NoValue ELSE View[k]
  OBVIOUS
<1>1. \A n, x \in live : IsLeaf(n) /\ IsLeaf(x) /\ pfx[n] = k /\ pfx[x] = k => n = x
  BY LeafUnique
<1>2. ValueIn(live, pfx, len, val, k, View[k])
  BY ViewNow
<1>3. CASE \E n \in live : IsLeaf(n) /\ pfx[n] = k /\ n \in D
  <2>1. ValueIn(live', pfx', len', val', k, NoValue)
    BY <1>1, <1>3 DEF ValueIn, IsLeaf
  <2> QED BY <2>1, <1>3, ViewThen
<1>4. CASE ~ \E n \in live : IsLeaf(n) /\ pfx[n] = k /\ n \in D
  <2>1. ValueIn(live', pfx', len', val', k, View[k])
    <3> DEFINE v == View[k]
    <3>1. ValueIn(live, pfx, len, val, k, v)
      BY <1>2
    <3> HIDE DEF v
    <3>2. ValueIn(live', pfx', len', val', k, v)
      BY <3>1, <1>4 DEF ValueIn, IsLeaf
    <3> QED BY <3>2 DEF v
  <2> QED BY <2>1, <1>4, ViewThen
<1> QED BY <1>3, <1>4

-----------------------------------------------------------------------------
(* The steps that the map does not see *)

\* A step of thread t that leaves the tree, the call and the answer alone.
LEMMA QuietMap ==
    ASSUME IndInv, "del" \in Ops => Disjoint, EffectsReady, NEW t \in Threads,
           UNCHANGED <<live, gc, pfx, len, child, val, res>>,
           \A u \in Threads \ {t} : SameLocals(u),
           Request(t)' = Request(t), EffectOK(t)'
    PROVE  EffectsReady' /\ MapStep
<1>1. EffectsReady'
  BY OtherEffects DEF SameNodes
<1>2. View' = View
  BY ViewQuiet
<1>3. Reqs' = Reqs
  BY ReqsSet
<1> QED BY <1>1, <1>2, <1>3, MapStutter

\* The same, for a thread that is not inside a call.
LEMMA QuietOutside ==
    ASSUME IndInv, "del" \in Ops => Disjoint, EffectsReady, NEW t \in Threads,
           UNCHANGED <<live, gc, pfx, len, child, val, res>>,
           \A u \in Threads \ {t} : SameLocals(u), ~Inside(t), ~Inside(t)'
    PROVE  EffectsReady' /\ MapStep
<1>1. Request(t)' = Request(t)
  BY RequestIs, RequestThen
<1>2. EffectOK(t)'
  BY NoEffect
<1> QED BY <1>1, <1>2, QuietMap

LEMMA GetSubnodeMap ==
    ASSUME IndInv, "del" \in Ops => Disjoint, EffectsReady, NEW t \in Threads,
           NEW k, NEW l, GetSubnode(t, k, l)
    PROVE  EffectsReady' /\ MapStep
<1>1. ~Inside(t) /\ ~Inside(t)' /\ \A u \in Threads \ {t} : SameLocals(u)
  BY DEF GetSubnode, Inside, SameLocals, IndInv, TypeOK
<1>2. UNCHANGED <<live, gc, pfx, len, child, val, res>>
  BY DEF GetSubnode, tree
<1> QED BY <1>1, <1>2, QuietOutside

LEMMA SubReturnMap ==
    ASSUME IndInv, "del" \in Ops => Disjoint, EffectsReady, NEW t \in Threads,
           SubReturn(t)
    PROVE  EffectsReady' /\ MapStep
<1>1. ~Inside(t) /\ ~Inside(t)' /\ \A u \in Threads \ {t} : SameLocals(u)
  BY DEF SubReturn, GotSubnode, Inside, SameLocals, IndInv, TypeOK
<1>2. UNCHANGED <<live, gc, pfx, len, child, val, res>>
  BY DEF SubReturn, GotSubnode, tree
<1> QED BY <1>1, <1>2, QuietOutside

LEMMA SubLoadMap ==
    ASSUME IndInv, "del" \in Ops => Disjoint, EffectsReady, NEW t \in Threads,
           SubLoad(t) \/ SubRetry(t)
    PROVE  EffectsReady' /\ MapStep
<1>1. ~Inside(t)
  BY DEF SubLoad, SubRetry, Inside
<1>2. /\ pc'[t] \in {"sub", "sub_cas"}
      /\ \A u \in Threads \ {t} : SameLocals(u)
  BY DEF SubLoad, SubRetry, Observe, SameLocals, IndInv, TypeOK
<1>3. UNCHANGED <<live, gc, pfx, len, child, val, res>>
  BY DEF SubLoad, SubRetry, tree
<1>4. ~Inside(t)'
  BY <1>2 DEF Inside
<1> QED BY <1>1, <1>2, <1>3, <1>4, QuietOutside

LEMMA InvalidateStepMap ==
    ASSUME IndInv, "del" \in Ops => Disjoint, EffectsReady, NEW t \in Threads,
           InvalidateStep(t)
    PROVE  EffectsReady' /\ MapStep
<1>1. ~Inside(t)
  BY DEF InvalidateStep, Inside
<1>2. /\ pc'[t] \in {"inv", "ready"}
      /\ \A u \in Threads \ {t} : SameLocals(u)
  BY DEF InvalidateStep, SameLocals, IndInv, TypeOK
<1>3. UNCHANGED <<live, gc, pfx, len, child, val, res>>
  BY DEF InvalidateStep, tree
<1>4. ~Inside(t)'
  BY <1>2 DEF Inside
<1> QED BY <1>1, <1>2, <1>3, <1>4, QuietOutside

LEMMA FinishMap ==
    ASSUME IndInv, "del" \in Ops => Disjoint, EffectsReady, NEW t \in Threads,
           Finish(t)
    PROVE  EffectsReady' /\ MapStep
<1>1. ~Inside(t) /\ ~Inside(t)' /\ \A u \in Threads \ {t} : SameLocals(u)
  BY DEF Finish, Inside, SameLocals, IndInv, TypeOK
<1>2. /\ UNCHANGED <<live, gc, pfx, len, child, val>>
      /\ res' = [res EXCEPT ![t] = NoValue]
  BY DEF Finish, tree
<1>3. EffectsReady'
  <2>1. EffectOK(t)'
    BY <1>1, NoEffect
  <2> QED BY <2>1, <1>1, <1>2, OtherEffects DEF SameNodes
<1>4. Request(t) = NoCall /\ Request(t)' = NoCall
  BY <1>1, RequestIs, RequestThen
<1>5. Reqs' = Reqs /\ View' = View
  BY <1>1, <1>2, <1>4, ReqsSet, ViewQuiet
<1> QED BY <1>2, <1>3, <1>4, <1>5, MapForget

LEMMA InsertFoundEmptyMap ==
    ASSUME IndInv, "del" \in Ops => Disjoint, EffectsReady, NEW t \in Threads,
           InsertFoundEmpty(t)
    PROVE  EffectsReady' /\ MapStep
<1>1. /\ UNCHANGED <<live, gc, pfx, len, child, val, key, arg, cur, res>>
      /\ pc[t] = "ins" /\ pc'[t] = "ins_emplace" /\ val[cur[t]] = NoValue
      /\ \A u \in Threads \ {t} : SameLocals(u)
  BY DEF InsertFoundEmpty, SameLocals, tree, IndInv, TypeOK
<1>2. Request(t)' = Request(t)
  BY <1>1, RequestIs, RequestThen
<1>3. key[t] \in Keys
  BY <1>1 DEF EffectsReady, Inside
<1>4. EffectOK(t)'
  BY <1>1, <1>3 DEF EffectOK
<1> QED BY <1>1, <1>2, <1>4, QuietMap

LEMMA InsertLoadMap ==
    ASSUME IndInv, "del" \in Ops => Disjoint, EffectsReady, NEW t \in Threads,
           InsertLoad(t) \/ InsertRetry(t)
    PROVE  EffectsReady' /\ MapStep
<1>1. /\ UNCHANGED <<live, gc, pfx, len, child, val, key, arg, res>>
      /\ pc[t] \in {"ins", "ins_cas"}
  BY DEF InsertLoad, InsertRetry, tree
<1>2. /\ pc'[t] \in {"ins", "ins_cas"}
      /\ \A u \in Threads \ {t} : SameLocals(u)
  BY DEF InsertLoad, InsertRetry, Observe, SameLocals, IndInv, TypeOK
<1>3. Request(t)' = Request(t)
  BY <1>1, <1>2, RequestIs, RequestThen
<1>4. key[t] \in Keys
  BY <1>1 DEF EffectsReady, Inside
<1>5. EffectOK(t)'
  BY <1>1, <1>2, <1>4 DEF EffectOK
<1> QED BY <1>1, <1>2, <1>3, <1>5, QuietMap

LEMMA DeleteLoadMap ==
    ASSUME IndInv, "del" \in Ops => Disjoint, EffectsReady, NEW t \in Threads,
           DeleteLoad(t)
    PROVE  EffectsReady' /\ MapStep
<1> DEFINE c == child[cur[t]][Slot(cur[t], key[t])]
<1>1. /\ UNCHANGED <<live, gc, pfx, len, child, val, key, arg, res>>
      /\ pc[t] = "del" /\ c # NULL
  BY DEF DeleteLoad, tree
<1>2. /\ pc'[t] \in {"del", "del_exchange"}
      /\ pc'[t] = "del_exchange" => IsLeaf(c) /\ pfx[c] = key[t] /\ cur' = cur
      /\ \A u \in Threads \ {t} : SameLocals(u)
  BY DEF DeleteLoad, SameLocals, IndInv, TypeOK
<1>3. Request(t)' = Request(t)
  BY <1>1, <1>2, RequestIs, RequestThen
<1>4. key[t] \in Keys
  BY <1>1 DEF EffectsReady, Inside
<1>5. EffectOK(t)'
  BY <1>1, <1>2, <1>4 DEF EffectOK, IsLeaf, Slot
<1> QED BY <1>1, <1>2, <1>3, <1>5, QuietMap

LEMMA SubAttachMap ==
    ASSUME IndInv, "del" \in Ops => Disjoint, EffectsReady, NEW t \in Threads,
           SubAttach(t)
    PROVE  EffectsReady' /\ MapStep
<1> DEFINE a == Malloc(Free, qk[t], ql[t])
<1>1. /\ pc[t] \in Requesting /\ ~Inside(t) /\ pc'[t] = "inv"
      /\ \A u \in Threads \ {t} : SameLocals(u)
      /\ res' = res
  BY DEF SubAttach, GotSubnode, Requesting, Inside, SameLocals, IndInv, TypeOK
<1>2. TypeOK /\ TreeOK /\ TypeOK' /\ TreeOK'
  BY SubAttachInv DEF IndInv
<1>3. a \in Free /\ a \in Addr /\ a \notin live \cup gc /\ cur[t] \in Addr
  <2>1. qk[t] \in Key /\ ql[t] \in PrefixLen
    BY <1>2 DEF TypeOK
  <2> QED BY <2>1, <1>1, <1>2, CurFacts, MallocFree DEF SubAttach
<1>4. /\ live' = live \cup {a} /\ gc' = gc
      /\ val'[a] = NoValue
      /\ \A x \in live \cup gc :
            pfx'[x] = pfx[x] /\ len'[x] = len[x] /\ val'[x] = val[x]
      /\ \A x \in live : x # cur[t] => child'[x] = child[x]
  <2> HIDE DEF a
  <2>1. Publish(cur[t], Slot(cur[t], qk[t]), a, qk[t], ql[t], NoChildren, NoValue)
    BY DEF SubAttach, a
  <2> QED BY <2>1, <1>2, <1>3 DEF Publish, TypeOK
<1> HIDE DEF a
<1>5. EffectsReady'
  <2>1. EffectOK(t)'
    BY <1>1, NoEffect DEF Inside
  <2>2. SameNodes
    BY <1>4 DEF SameNodes
  <2> QED BY <2>1, <2>2, <1>1, <1>4, OtherEffects
<1>6. View' = View
  BY <1>2, <1>3, <1>4, ViewPublish
<1>7. Reqs' = Reqs
  <2>1. Request(t)' = Request(t)
    BY <1>1, RequestIs, RequestThen DEF Inside
  <2> QED BY <2>1, <1>1, ReqsSet
<1> QED BY <1>1, <1>5, <1>6, <1>7, MapStutter

\* A node put above a child is not a leaf.
LEMMA SplitMap ==
    ASSUME IndInv, IndInv', "del" \in Ops => Disjoint, EffectsReady,
           NEW t \in Threads, NEW op,
           \/ op = "sub" /\ pc[t] = "sub_cas"
           \/ op = "ins" /\ pc[t] = "ins_cas",
           exp[t] # NULL, Free # {},
           child[cur[t]][Slot(cur[t], Goal(t))] = exp[t],
           PublishSplit(cur[t], exp[t], Goal(t), GoalLen(t)),
           pc'  = [pc EXCEPT ![t] = op],
           cur' = [cur EXCEPT ![t] = SplitAddr(exp[t], Goal(t), GoalLen(t))],
           exp' = [exp EXCEPT ![t] = NULL],
           UNCHANGED <<qk, ql, ref, key, arg, res>>
    PROVE  EffectsReady' /\ MapStep
<1> DEFINE a == SplitAddr(exp[t], Goal(t), GoalLen(t))
           j == JoinLen(exp[t], Goal(t), GoalLen(t))
           p == Truncate(Goal(t), j)
           kids == [NoChildren EXCEPT ![BranchBits(pfx[exp[t]], j)] = exp[t]]
<1>1. /\ Inside(t) \/ pc[t] \in Requesting
      /\ CasPending(t)
      /\ TypeOK /\ TreeOK /\ TypeOK' /\ TreeOK' /\ TreeType /\ PointersOK(t)
  BY TypeGivesTree DEF Inside, Requesting, CasPending, IndInv, PointersStable
<1>2. /\ cur[t] \in live /\ cur[t] \in Addr
      /\ Goal(t) \in Key /\ GoalLen(t) \in PrefixLen
      /\ IsPrefixOf(pfx[cur[t]], len[cur[t]], Goal(t), GoalLen(t))
  BY <1>1, CurFacts
<1>3. len[cur[t]] < GoalLen(t) /\ ~Covers(exp[t], Goal(t), GoalLen(t))
  BY <1>1 DEF PointersOK
<1>4. exp[t] \in Addr
  BY <1>1, <1>2, <1>3, ChildFacts
<1>5. a \in Free /\ a \in Addr /\ a \notin live \cup gc
  BY <1>1, <1>2, <1>4, SplitFacts DEF Free
<1>6. len'[a] \in PrefixLen /\ len'[a] < KeyLen
  BY <1>1, <1>2, <1>3, <1>5, SplitTree
<1>7. Publish(cur[t], Slot(cur[t], Goal(t)), a, p, j, kids, NoValue)
  BY DEF PublishSplit
<1> HIDE DEF a, j, p, kids
<1>8. /\ live' = live \cup {a} /\ gc' = gc
      /\ \A x \in live \cup gc :
            pfx'[x] = pfx[x] /\ len'[x] = len[x] /\ val'[x] = val[x]
      /\ \A x \in live : x # cur[t] => child'[x] = child[x]
  BY <1>1, <1>2, <1>5, <1>7 DEF Publish, TypeOK
<1>9. View' = View
  <2>1. len'[a] # KeyLen
    BY <1>6, KeyLenAssumption DEF PrefixLen
  <2> QED BY <2>1, <1>1, <1>5, <1>8, ViewPublish
<1>10. pc'[t] = op /\ \A u \in Threads \ {t} : SameLocals(u)
  BY <1>1 DEF TypeOK, SameLocals
<1>11. EffectsReady'
  <2>1. EffectOK(t)'
    <3>1. CASE op = "sub"
      BY <3>1, <1>10, NoEffect DEF Inside
    <3>2. CASE op = "ins"
      <4>1. key[t] \in Keys
        BY <3>2 DEF EffectsReady, Inside
      <4> QED BY <4>1, <3>2, <1>10 DEF EffectOK
    <3> QED BY <3>1, <3>2
  <2>2. SameNodes
    BY <1>8 DEF SameNodes
  <2> QED BY <2>1, <2>2, <1>1, <1>8, <1>10, OtherEffects
<1>12. Reqs' = Reqs
  <2>1. CASE op = "sub"
    BY <2>1, <1>10, RequestIs, RequestThen, ReqsSet DEF Inside
  <2>2. CASE op = "ins"
    BY <2>2, <1>10, RequestIs, RequestThen, ReqsSet
  <2> QED BY <2>1, <2>2
<1> QED BY <1>9, <1>11, <1>12, MapStutter

LEMMA SubSplitMap ==
    ASSUME IndInv, "del" \in Ops => Disjoint, EffectsReady, NEW t \in Threads,
           SubSplit(t)
    PROVE  EffectsReady' /\ MapStep
<1>1. Goal(t) = qk[t] /\ GoalLen(t) = ql[t] /\ pc[t] = "sub_cas"
  BY RequestGoal DEF SubSplit, Requesting
<1>2. IndInv'
  BY SubSplitInv
<1> QED BY <1>1, <1>2, SplitMap DEF SubSplit

LEMMA InsertSplitMap ==
    ASSUME IndInv, "del" \in Ops => Disjoint, EffectsReady, NEW t \in Threads,
           InsertSplit(t)
    PROVE  EffectsReady' /\ MapStep
<1>1. Goal(t) = key[t] /\ GoalLen(t) = KeyLen /\ pc[t] = "ins_cas"
  BY CallGoal DEF InsertSplit, Inside
<1>2. IndInv'
  BY InsertSplitInv
<1> QED BY <1>1, <1>2, SplitMap DEF InsertSplit

-----------------------------------------------------------------------------
(* The steps where calls start *)

LEMMA CallMap ==
    ASSUME IndInv, "del" \in Ops => Disjoint, EffectsReady, NEW t \in Threads,
           NEW k \in Keys, NEW op \in {"ins", "del", "get"}, Call(t, op, k),
           op = "ins" => arg'[t] \in Value,
           \A u \in Threads \ {t} : arg'[u] = arg[u],
           UNCHANGED <<tree, hashes, qk, ql, ref, exp>>,
           \/ op # "get" /\ res' = res
           \/ res' = [res EXCEPT ![t] = NoValue]
    PROVE  EffectsReady' /\ MapStep
<1>1. /\ UNCHANGED <<live, gc, pfx, len, child, val>>
      /\ pc[t] = "ready" /\ pc'[t] = op /\ key'[t] = k
      /\ \A u \in Threads \ {t} : SameLocals(u)
  BY DEF Call, SameLocals, tree, IndInv, TypeOK
<1>2. EffectsReady'
  <2>1. EffectOK(t)'
    BY <1>1 DEF EffectOK
  <2> QED BY <2>1, <1>1, OtherEffects DEF SameNodes
<1>3. View' = View
  BY <1>1, ViewQuiet
<1>4. Request(t) = NoCall
  BY <1>1, RequestIs DEF Inside
<1> DEFINE c == Request(t)'
<1>5. Reqs' = [Reqs EXCEPT ![t] = c]
  BY <1>1, ReqsSet
<1>6. \/ c = [op |-> "ins", key |-> k, arg |-> arg'[t]] /\ op = "ins"
      \/ c = [op |-> "del", key |-> k] /\ op = "del"
      \/ c = [op |-> "get", key |-> k] /\ op = "get"
  BY <1>1, RequestThen
<1> HIDE DEF c
<1>7. \/ c = [op |-> "ins", key |-> k, arg |-> c.arg] /\ c.arg \in Value
      \/ c = [op |-> "del", key |-> k]
      \/ c = [op |-> "get", key |-> k]
  BY <1>6
<1>8. c.op = op
  BY <1>6
<1> QED BY <1>2, <1>3, <1>4, <1>5, <1>7, <1>8, MapInvoke

LEMMA StartMap ==
    ASSUME IndInv, "del" \in Ops => Disjoint, EffectsReady, NEW t \in Threads,
           Start(t)
    PROVE  EffectsReady' /\ MapStep
<1>1. ASSUME NEW k \in Keys, NEW l \in SubnodeLens, GetSubnode(t, k, l)
      PROVE  EffectsReady' /\ MapStep
  BY <1>1, GetSubnodeMap
<1>2. ASSUME NEW k \in Keys, NEW v \in Value, StartInsert(t, k, v)
      PROVE  EffectsReady' /\ MapStep
  <2>1. /\ Call(t, "ins", k) /\ arg'[t] \in Value
        /\ \A u \in Threads \ {t} : arg'[u] = arg[u]
        /\ UNCHANGED <<tree, hashes, qk, ql, ref, exp, res>>
    BY <1>2 DEF StartInsert, IndInv, TypeOK
  <2> QED BY <2>1, CallMap
<1>3. ASSUME NEW k \in Keys, StartDelete(t, k)
      PROVE  EffectsReady' /\ MapStep
  <2>1. /\ Call(t, "del", k)
        /\ UNCHANGED <<tree, hashes, qk, ql, ref, arg, exp, res>>
    BY <1>3 DEF StartDelete
  <2> QED BY <2>1, CallMap
<1>4. ASSUME NEW k \in Keys, StartGet(t, k)
      PROVE  EffectsReady' /\ MapStep
  <2>1. /\ Call(t, "get", k) /\ res' = [res EXCEPT ![t] = NoValue]
        /\ UNCHANGED <<tree, hashes, qk, ql, ref, arg, exp>>
    BY <1>4 DEF StartGet
  <2> QED BY <2>1, CallMap
<1>5. CASE Finish(t)
  BY <1>5, FinishMap
<1> QED BY <1>1, <1>2, <1>3, <1>4, <1>5 DEF Start

-----------------------------------------------------------------------------
(* The steps where calls take effect *)

LEMMA ReturnMap ==
    ASSUME IndInv, NEW t \in Threads, Return(t), UNCHANGED <<qk, ql, ref>>
    PROVE  /\ \A u \in Threads \ {t} : SameLocals(u)
           /\ EffectOK(t)'
           /\ Reqs' = [Reqs EXCEPT ![t] = NoCall]
<1>1. pc'[t] = "ready" /\ \A u \in Threads \ {t} : SameLocals(u)
  BY DEF Return, SameLocals, IndInv, TypeOK
<1>2. ~Inside(t)'
  BY <1>1 DEF Inside
<1>3. Request(t)' = NoCall
  BY <1>2, RequestThen
<1> QED BY <1>1, <1>2, <1>3, NoEffect, ReqsSet

\* The leaf a thread has reached is the leaf of its key.
LEMMA LeafReached ==
    ASSUME IndInv, NEW t \in Threads, Inside(t), IsLeaf(cur[t])
    PROVE  pfx[cur[t]] = key[t] /\ cur[t] \in live /\ cur[t] \in Addr
<1>1. /\ cur[t] \in live /\ cur[t] \in Addr /\ pfx[cur[t]] \in Key /\ key[t] \in Key
      /\ IsPrefixOf(pfx[cur[t]], KeyLen, key[t], KeyLen)
  BY CurFacts, CallGoal DEF IsLeaf
<1> QED BY <1>1, FullPrefix

\* A step that writes a value into the leaf a thread has reached, and returns.
LEMMA WriteMap ==
    ASSUME IndInv, "del" \in Ops => Disjoint, EffectsReady, NEW t \in Threads,
           Inside(t), IsLeaf(cur[t]), NEW w, val' = [val EXCEPT ![cur[t]] = w],
           Return(t),
           UNCHANGED <<live, gc, root, pfx, len, child, qk, ql, ref>>
    PROVE  /\ EffectsReady'
           /\ Reqs' = [Reqs EXCEPT ![t] = NoCall]
           /\ View[key[t]] = val[cur[t]]
           /\ View' = [View EXCEPT ![key[t]] = w]
<1>1. pfx[cur[t]] = key[t] /\ cur[t] \in live /\ cur[t] \in Addr
  BY LeafReached
<1>2. key[t] \in Keys
  BY DEF EffectsReady
<1>3. /\ \A u \in Threads \ {t} : SameLocals(u)
      /\ EffectOK(t)'
      /\ Reqs' = [Reqs EXCEPT ![t] = NoCall]
  BY ReturnMap
<1>4. TypeOK /\ TreeOK
  BY DEF IndInv
<1>5. EffectsReady'
  <2>1. \A x \in live : x # cur[t] => val'[x] = val[x]
    BY <1>1, <1>4 DEF TypeOK
  <2> QED BY <2>1, <1>3, OtherEffects DEF SameNodes
<1> QED BY <1>1, <1>2, <1>3, <1>4, <1>5, ViewWrite

LEMMA InsertMergeMap ==
    ASSUME IndInv, "del" \in Ops => Disjoint, EffectsReady, NEW t \in Threads,
           InsertMerge(t)
    PROVE  EffectsReady' /\ MapStep
<1>1. /\ pc[t] = "ins" /\ Inside(t) /\ IsLeaf(cur[t]) /\ val[cur[t]] # NoValue
      /\ val' = [val EXCEPT ![cur[t]] = Merge(val[cur[t]], arg[t])]
      /\ Return(t) /\ UNCHANGED <<live, gc, root, pfx, len, child, qk, ql, ref, res>>
  BY DEF InsertMerge, Inside
<1>2. /\ EffectsReady' /\ Reqs' = [Reqs EXCEPT ![t] = NoCall]
      /\ View[key[t]] = val[cur[t]]
      /\ View' = [View EXCEPT ![key[t]] = Merge(val[cur[t]], arg[t])]
  BY <1>1, WriteMap
<1>3. Request(t) = [op |-> "ins", key |-> key[t], arg |-> arg[t]]
  BY <1>1, RequestIs
<1>4. View' = [View EXCEPT ![key[t]] = IF View[key[t]] = NoValue THEN arg[t]
                                       ELSE Merge(View[key[t]], arg[t])]
  BY <1>1, <1>2
<1> QED BY <1>1, <1>2, <1>3, <1>4, MapInsert

LEMMA InsertEmplaceMap ==
    ASSUME IndInv, "del" \in Ops => Disjoint, EffectsReady, NEW t \in Threads,
           Disjoint \/ \A v, w \in Value : Merge(v, w) = w, InsertEmplace(t)
    PROVE  EffectsReady' /\ MapStep
<1>1. /\ pc[t] = "ins_emplace" /\ Inside(t) /\ IsLeaf(cur[t]) /\ arg[t] \in Value
      /\ val' = [val EXCEPT ![cur[t]] = arg[t]]
      /\ Return(t) /\ UNCHANGED <<live, gc, root, pfx, len, child, qk, ql, ref, res>>
  BY DEF InsertEmplace, Inside, IndInv, LocalsOK
<1>2. /\ EffectsReady' /\ Reqs' = [Reqs EXCEPT ![t] = NoCall]
      /\ View[key[t]] = val[cur[t]]
      /\ View' = [View EXCEPT ![key[t]] = arg[t]]
  BY <1>1, WriteMap
<1>3. Request(t) = [op |-> "ins", key |-> key[t], arg |-> arg[t]]
  BY <1>1, RequestIs
<1>4. arg[t] = IF View[key[t]] = NoValue THEN arg[t] ELSE Merge(View[key[t]], arg[t])
  <2>1. CASE Disjoint
    BY <2>1, <1>1, <1>2 DEF EffectsReady
  <2>2. CASE \A v, w \in Value : Merge(v, w) = w
    <3>1. cur[t] \in Addr
      BY <1>1, LeafReached
    <3>2. val[cur[t]] \in Value \cup {NoValue}
      BY <3>1 DEF IndInv, TypeOK
    <3> QED BY <3>2, <2>2, <1>1, <1>2
  <2> QED BY <2>1, <2>2
<1>5. View' = [View EXCEPT ![key[t]] = IF View[key[t]] = NoValue THEN arg[t]
                                       ELSE Merge(View[key[t]], arg[t])]
  BY <1>2, <1>4
<1> QED BY <1>1, <1>2, <1>3, <1>5, MapInsert

LEMMA InsertAttachMap ==
    ASSUME IndInv, "del" \in Ops => Disjoint, EffectsReady, NEW t \in Threads,
           InsertAttach(t)
    PROVE  EffectsReady' /\ MapStep
<1> DEFINE a == Malloc(Free, key[t], KeyLen)
<1>1. /\ pc[t] = "ins_cas" /\ Inside(t) /\ Return(t) /\ key[t] \in Keys
      /\ UNCHANGED <<qk, ql, ref, res>>
  BY DEF InsertAttach, Inside, EffectsReady
<1>2. TypeOK /\ TreeOK /\ TypeOK' /\ TreeOK'
  BY InsertAttachInv DEF IndInv
<1>3. a \in Addr /\ a \notin live \cup gc /\ cur[t] \in Addr
  <2>1. key[t] \in Key /\ KeyLen \in PrefixLen
    BY <1>2, ZeroKeyType DEF TypeOK
  <2> QED BY <2>1, <1>1, <1>2, CurFacts, MallocFree DEF InsertAttach
<1>4. /\ live' = live \cup {a} /\ gc' = gc
      /\ val'[a] = arg[t] /\ pfx'[a] = key[t] /\ len'[a] = KeyLen
      /\ \A x \in live \cup gc :
            pfx'[x] = pfx[x] /\ len'[x] = len[x] /\ val'[x] = val[x]
      /\ \A x \in live : x # cur[t] => child'[x] = child[x]
  <2> HIDE DEF a
  <2>1. Publish(cur[t], Slot(cur[t], key[t]), a, key[t], KeyLen, NoChildren, arg[t])
    BY DEF InsertAttach, a
  <2> QED BY <2>1, <1>2, <1>3 DEF Publish, TypeOK
<1> HIDE DEF a
<1>5. /\ \A u \in Threads \ {t} : SameLocals(u)
      /\ EffectOK(t)'
      /\ Reqs' = [Reqs EXCEPT ![t] = NoCall]
  BY <1>1, ReturnMap
<1>6. EffectsReady'
  <2>1. SameNodes
    BY <1>4 DEF SameNodes
  <2> QED BY <2>1, <1>1, <1>4, <1>5, OtherEffects
<1>7. View[key[t]] = NoValue /\ View' = [View EXCEPT ![key[t]] = arg[t]]
  BY <1>1, <1>2, <1>3, <1>4, ViewPublish
<1>8. View' = [View EXCEPT ![key[t]] = IF View[key[t]] = NoValue THEN arg[t]
                                       ELSE Merge(View[key[t]], arg[t])]
  BY <1>7
<1>9. Request(t) = [op |-> "ins", key |-> key[t], arg |-> arg[t]]
  BY <1>1, RequestIs
<1> QED BY <1>1, <1>5, <1>6, <1>8, <1>9, MapInsert

LEMMA DeleteResetMap ==
    ASSUME IndInv, "del" \in Ops => Disjoint, EffectsReady, NEW t \in Threads,
           DeleteReset(t)
    PROVE  EffectsReady' /\ MapStep
<1>1. /\ pc[t] = "del" /\ Inside(t) /\ IsLeaf(cur[t])
      /\ val' = [val EXCEPT ![cur[t]] = NoValue]
      /\ Return(t) /\ UNCHANGED <<live, gc, root, pfx, len, child, qk, ql, ref, res>>
  BY DEF DeleteReset, Inside
<1>2. /\ EffectsReady' /\ Reqs' = [Reqs EXCEPT ![t] = NoCall]
      /\ View' = [View EXCEPT ![key[t]] = NoValue]
  BY <1>1, WriteMap
<1>3. Request(t) = [op |-> "del", key |-> key[t]]
  BY <1>1, RequestIs
<1> QED BY <1>1, <1>2, <1>3, MapDelete

LEMMA DeleteExchangeMap ==
    ASSUME IndInv, "del" \in Ops => Disjoint, EffectsReady, NEW t \in Threads,
           DeleteExchange(t)
    PROVE  EffectsReady' /\ MapStep
<1> DEFINE c == child[cur[t]][Slot(cur[t], key[t])]
<1>1. /\ pc[t] = "del_exchange" /\ Inside(t) /\ ~IsLeaf(cur[t])
      /\ c # NULL /\ IsLeaf(c) /\ pfx[c] = key[t] /\ key[t] \in Keys
      /\ TypeOK /\ TreeOK
  BY DEF DeleteExchange, Inside, EffectsReady, IndInv, LocalsOK
<1>2. /\ live' = live \ Below(c) /\ gc' = gc \cup Below(c)
      /\ Return(t) /\ UNCHANGED <<pfx, len, val, qk, ql, ref, res>>
      /\ child' = [child EXCEPT ![cur[t]][Slot(cur[t], key[t])] = NULL]
  BY <1>1 DEF DeleteExchange
<1>3. /\ cur[t] \in live /\ cur[t] \in Addr /\ key[t] \in Key
      /\ KeyLen \in PrefixLen /\ len[cur[t]] < KeyLen
  BY <1>1, CurFacts, CallGoal, ZeroKeyType, NotLeaf
<1>4. c \in live /\ c \in Addr
  BY <1>1, <1>3, ChildFacts
<1> HIDE DEF c
<1>5. ASSUME NEW x \in live
      PROVE  x \in Below(c) <=> x = c
  <2>1. len[x] \in PrefixLen /\ len[c] = KeyLen /\ pfx[c] \in Key
    BY <1>1, <1>4 DEF TypeOK, IsLeaf
  <2>2. x = c => x \in Below(c)
    BY <2>1, <1>3, PrefixRefl DEF Below
  <2>3. x \in Below(c) => len[c] = len[x] /\ Above(c, x)
    BY <2>1, KeyLenAssumption DEF Below, Above, IsPrefixOf, PrefixLen
  <2> QED BY <2>2, <2>3, <1>1, <1>4 DEF TreeOK, NoDuplicates
<1>6. /\ \A u \in Threads \ {t} : SameLocals(u)
      /\ EffectOK(t)'
      /\ Reqs' = [Reqs EXCEPT ![t] = NoCall]
  BY <1>2, ReturnMap
<1>7. EffectsReady'
  <2>1. SameNodes
    BY <1>2 DEF SameNodes
  <2>2. \A x \in live : x # cur[t] => child'[x] = child[x]
    BY <1>1, <1>2, <1>3 DEF TypeOK
  <2> QED BY <2>1, <2>2, <1>1, <1>2, <1>6, OtherEffects
<1>8. View' = [View EXCEPT ![key[t]] = NoValue]
  <2>1. \A k \in Keys :
           View'[k] = IF \E n \in live : IsLeaf(n) /\ pfx[n] = k /\ n \in Below(c)
                      THEN NoValue ELSE View[k]
    BY <1>1, <1>2, ViewRemove
  <2>2. \A k \in Keys : View'[k] = IF k = key[t] THEN NoValue ELSE View[k]
    BY <2>1, <1>1, <1>4, <1>5
  <2>3. /\ View = [k \in Keys |-> View[k]]
        /\ View' = [k \in Keys |-> View'[k]]
    BY DEF View
  <2> QED BY <2>2, <2>3, <1>1
<1>9. Request(t) = [op |-> "del", key |-> key[t]]
  BY <1>1, RequestIs
<1> QED BY <1>2, <1>6, <1>7, <1>8, <1>9, MapDelete

\* get_value answers what the map holds when it reads the leaf, or the slot
\* where the way to the leaf ends.
LEMMA AnswerMap ==
    ASSUME IndInv, "del" \in Ops => Disjoint, EffectsReady, NEW t \in Threads,
           pc[t] = "get", Return(t), res' = [res EXCEPT ![t] = View[key[t]]],
           UNCHANGED <<tree, qk, ql, ref>>
    PROVE  EffectsReady' /\ MapStep
<1>1. UNCHANGED <<live, gc, pfx, len, child, val>>
  BY DEF tree
<1>2. /\ \A u \in Threads \ {t} : SameLocals(u)
      /\ EffectOK(t)'
      /\ Reqs' = [Reqs EXCEPT ![t] = NoCall]
  BY ReturnMap
<1>3. EffectsReady'
  BY <1>1, <1>2, OtherEffects DEF SameNodes
<1>4. View' = View
  BY <1>1, ViewQuiet
<1>5. Request(t) = [op |-> "get", key |-> key[t]]
  BY RequestIs
<1> QED BY <1>2, <1>3, <1>4, <1>5, MapGet

LEMMA GetLeafMap ==
    ASSUME IndInv, "del" \in Ops => Disjoint, EffectsReady, NEW t \in Threads,
           GetLeaf(t)
    PROVE  EffectsReady' /\ MapStep
<1>1. /\ pc[t] = "get" /\ Inside(t) /\ IsLeaf(cur[t]) /\ key[t] \in Keys
      /\ TypeOK /\ TreeOK
  BY DEF GetLeaf, Inside, EffectsReady, IndInv
<1>2. pfx[cur[t]] = key[t] /\ cur[t] \in live
  BY <1>1, LeafReached
<1>3. View[key[t]] = val[cur[t]]
  BY <1>1, <1>2, ViewNow DEF ValueIn, IsLeaf
<1> QED BY <1>1, <1>3, AnswerMap DEF GetLeaf

LEMMA GetLoadMap ==
    ASSUME IndInv, "del" \in Ops => Disjoint, EffectsReady, NEW t \in Threads,
           GetLoad(t)
    PROVE  EffectsReady' /\ MapStep
<1> DEFINE c == child[cur[t]][Slot(cur[t], key[t])]
<1>1. /\ pc[t] = "get" /\ Inside(t) /\ ~IsLeaf(cur[t]) /\ key[t] \in Keys
      /\ TypeOK /\ TreeOK
      /\ UNCHANGED <<live, gc, pfx, len, child, val, qk, ql, ref>>
  BY DEF GetLoad, Inside, EffectsReady, IndInv, tree
<1>2. /\ cur[t] \in live /\ cur[t] \in Addr /\ key[t] \in Key
      /\ KeyLen \in PrefixLen /\ len[cur[t]] < KeyLen
      /\ IsPrefixOf(pfx[cur[t]], len[cur[t]], key[t], KeyLen)
  BY <1>1, CurFacts, CallGoal, ZeroKeyType, NotLeaf
<1>3. CASE c # NULL /\ Covers(c, key[t], KeyLen)
  <2>1. /\ cur' = [cur EXCEPT ![t] = c]
        /\ UNCHANGED <<pc, exp, key, arg, res>>
    BY <1>3 DEF GetLoad
  <2>2. \A u \in Threads \ {t} : SameLocals(u)
    BY <2>1, <1>1 DEF SameLocals, TypeOK
  <2>3. Request(t)' = Request(t)
    BY <2>1, <1>1, RequestIs, RequestThen
  <2>4. EffectOK(t)'
    BY <2>1, <1>1 DEF EffectOK
  <2> QED BY <2>1, <2>2, <2>3, <2>4, <1>1, QuietMap
<1>4. CASE ~ (c # NULL /\ Covers(c, key[t], KeyLen))
  <2>1. ASSUME NEW x \in live, len[x] = KeyLen, pfx[x] = key[t]
        PROVE  FALSE
    <3>1. Above(cur[t], x) /\ len[cur[t]] < len[x] /\ Slot(cur[t], pfx[x]) = Slot(cur[t], key[t])
      BY <2>1, <1>2 DEF Above
    <3>2. c # NULL /\ Above(c, x)
      BY <3>1, <1>1, <1>2 DEF TreeOK, PathsComplete
    <3>3. c \in Addr
      BY <3>2, <1>1, <1>2, ChildFacts
    <3>4. Covers(c, key[t], KeyLen)
      BY <3>2, <3>3, <2>1, <1>1, <1>2, CoversPrefix DEF Above
    <3> QED BY <3>2, <3>4, <1>4
  <2>2. View[key[t]] = NoValue
    BY <2>1, <1>1, ViewNow DEF ValueIn
  <2>3. /\ res' = [res EXCEPT ![t] = NoValue] /\ Return(t)
        /\ UNCHANGED <<tree, qk, ql, ref>>
    BY <1>4 DEF GetLoad
  <2> QED BY <2>2, <2>3, <1>1, AnswerMap
<1> QED BY <1>3, <1>4

-----------------------------------------------------------------------------
(* The operations that run alone *)

LEMMA AloneReqs ==
    ASSUME UNCHANGED threads
    PROVE  Reqs' = Reqs /\ res' = res /\ pc' = pc
BY DEF threads, Reqs, Request

LEMMA HashQuietMap ==
    ASSUME IndInv, HashStart \/ \E n \in Addr : HashLeaf(n)
    PROVE  EffectsReady' /\ MapStep
<1>1. AllIdle /\ UNCHANGED threads /\ UNCHANGED <<live, pfx, len, val>>
  BY DEF HashStart, HashLeaf, IndInv, MemoryOK, tree
<1> QED BY <1>1, AloneReqs, AloneEffects, ViewQuiet, MapStutter

\* Normalisation drops the leaves without a logical value, and map nodes.
LEMMA HashMapMap ==
    ASSUME IndInv, NEW n \in Addr, HashMap(n)
    PROVE  EffectsReady' /\ MapStep
<1>1. /\ AllIdle /\ UNCHANGED threads /\ TypeOK /\ TreeOK
      /\ live' = live \ Dropped(n) /\ UNCHANGED <<pfx, len, val>>
  BY DEF HashMap, IndInv, MemoryOK
<1>2. EffectsReady' /\ Reqs' = Reqs /\ res' = res
  BY <1>1, AloneReqs, AloneEffects
<1>3. \A k \in Keys : View'[k] = IF \E x \in live : IsLeaf(x) /\ pfx[x] = k
                                                     /\ x \in Dropped(n)
                                 THEN NoValue ELSE View[k]
  BY <1>1, ViewRemove
<1>4. ASSUME NEW k \in Keys
      PROVE  \/ View'[k] = View[k]
             \/ View'[k] = NoValue /\ View[k] \notin Logical
  <2>1. CASE \E x \in live : IsLeaf(x) /\ pfx[x] = k /\ x \in Dropped(n)
    <3>1. PICK x \in live : IsLeaf(x) /\ pfx[x] = k /\ x \in Dropped(n)
      BY <2>1
    <3>2. val[x] \notin Logical
      BY <3>1 DEF Dropped, Empty, Single
    <3>3. View[k] = val[x]
      BY <3>1, <1>1, ViewNow DEF ValueIn, IsLeaf
    <3> QED BY <3>2, <3>3, <2>1, <1>3
  <2>2. CASE ~ \E x \in live : IsLeaf(x) /\ pfx[x] = k /\ x \in Dropped(n)
    BY <2>2, <1>3
  <2> QED BY <2>1, <2>2
<1> QED BY <1>1, <1>2, <1>4, MapPurge

LEMMA DoGCMap ==
    ASSUME IndInv, DoGC
    PROVE  EffectsReady' /\ MapStep
<1>1. /\ AllIdle /\ UNCHANGED threads /\ TypeOK /\ TreeOK /\ live' = live
      /\ gc \cap live = {} /\ Release(gc)
  BY DEF DoGC, IndInv, MemoryOK
<1>2. EffectsReady' /\ Reqs' = Reqs /\ res' = res
  BY <1>1, AloneReqs, AloneEffects
<1>3. \A x \in live : pfx'[x] = pfx[x] /\ len'[x] = len[x] /\ val'[x] = val[x]
  BY <1>1 DEF Release, TypeOK
<1>4. ASSUME NEW k \in Keys, NEW v, ValueIn(live, pfx, len, val, k, v)
      PROVE  ValueIn(live', pfx', len', val', k, v)
  BY <1>1, <1>3, <1>4 DEF ValueIn
<1>5. View' = View
  BY <1>1, <1>4, ViewSame
<1> QED BY <1>2, <1>5, MapStutter

LEMMA ClearMap ==
    ASSUME IndInv, Clear
    PROVE  EffectsReady' /\ MapStep
<1>1. /\ AllIdle /\ UNCHANGED threads /\ live' = {root'}
      /\ root' \in Addr /\ Release(Addr)
  BY FirstRoot DEF Clear
<1>2. EffectsReady' /\ Reqs' = Reqs /\ res' = res
  BY <1>1, AloneReqs, AloneEffects
<1>3. \A x \in live' : len'[x] = 0
  BY <1>1 DEF Release
<1>4. ASSUME NEW k \in Keys
      PROVE  View'[k] = NoValue
  <2>1. ValueIn(live', pfx', len', val', k, NoValue)
    BY <1>3, KeyLenAssumption DEF ValueIn
  <2> QED BY <2>1, ViewThen
<1>5. View' = [k \in Keys |-> NoValue]
  <2>1. View' = [k \in Keys |-> View'[k]]
    BY DEF View
  <2> QED BY <2>1, <1>4
<1> QED BY <1>1, <1>2, <1>5, MapClear

-----------------------------------------------------------------------------
(* The theorems *)

LEMMA ProceedMap ==
    ASSUME IndInv, EffectsReady, "del" \in Ops => Disjoint,
           Disjoint \/ \A v, w \in Value : Merge(v, w) = w,
           NEW t \in Threads, Proceed(t)
    PROVE  EffectsReady' /\ MapStep
<1>1. CASE SubReturn(t)
  BY <1>1, SubReturnMap
<1>2. CASE SubLoad(t) \/ SubRetry(t)
  BY <1>2, SubLoadMap
<1>3. CASE SubAttach(t)
  BY <1>3, SubAttachMap
<1>4. CASE SubSplit(t)
  BY <1>4, SubSplitMap
<1>5. CASE InvalidateStep(t)
  BY <1>5, InvalidateStepMap
<1>6. CASE InsertMerge(t)
  BY <1>6, InsertMergeMap
<1>7. CASE InsertFoundEmpty(t)
  BY <1>7, InsertFoundEmptyMap
<1>8. CASE InsertEmplace(t)
  BY <1>8, InsertEmplaceMap
<1>9. CASE InsertLoad(t) \/ InsertRetry(t)
  BY <1>9, InsertLoadMap
<1>10. CASE InsertAttach(t)
  BY <1>10, InsertAttachMap
<1>11. CASE InsertSplit(t)
  BY <1>11, InsertSplitMap
<1>12. CASE DeleteReset(t)
  BY <1>12, DeleteResetMap
<1>13. CASE DeleteLoad(t)
  BY <1>13, DeleteLoadMap
<1>14. CASE DeleteExchange(t)
  BY <1>14, DeleteExchangeMap
<1>15. CASE GetLeaf(t)
  BY <1>15, GetLeafMap
<1>16. CASE GetLoad(t)
  BY <1>16, GetLoadMap
<1> QED BY <1>1, <1>2, <1>3, <1>4, <1>5, <1>6, <1>7, <1>8, <1>9, <1>10, <1>11,
           <1>12, <1>13, <1>14, <1>15, <1>16 DEF Proceed

LEMMA NextMap ==
    ASSUME IndInv, EffectsReady, "del" \in Ops => Disjoint,
           Disjoint \/ \A v, w \in Value : Merge(v, w) = w, Next
    PROVE  EffectsReady' /\ MapStep
<1>1. ASSUME NEW t \in Threads, Start(t)
      PROVE  EffectsReady' /\ MapStep
  BY <1>1, StartMap
<1>2. ASSUME NEW t \in Threads, Proceed(t)
      PROVE  EffectsReady' /\ MapStep
  BY <1>2, ProceedMap
<1>3. CASE HashStart
  BY <1>3, HashQuietMap
<1>4. CASE HashStep
  BY <1>4, HashQuietMap, HashMapMap DEF HashStep
<1>5. CASE DoGC
  BY <1>5, DoGCMap
<1>6. CASE Clear
  BY <1>6, ClearMap
<1> QED BY <1>1, <1>2, <1>3, <1>4, <1>5, <1>6 DEF Next

LEMMA StutterMap ==
    ASSUME EffectsReady, UNCHANGED vars
    PROVE  EffectsReady' /\ MapStep
<1>1. UNCHANGED <<live, gc, pfx, len, child, val, pc, key, arg, cur, res>>
  BY DEF vars, tree, threads
<1>2. EffectsReady'
  BY <1>1 DEF EffectsReady, Inside, IsLeaf, Slot
<1>3. Reqs' = Reqs
  BY <1>1 DEF Reqs, Request
<1> QED BY <1>1, <1>2, <1>3, ViewQuiet, MapStutter

LEMMA InitMap == Init => EffectsReady /\ KV!Init
<1> SUFFICES ASSUME Init PROVE EffectsReady /\ KV!Init
  OBVIOUS
<1>1. \A t \in Threads : pc[t] = "idle" /\ ~Inside(t)
  BY DEF Init, Inside
<1>2. EffectsReady
  BY <1>1 DEF EffectsReady, Inside
<1>3. root \in Addr /\ \A n \in live : len[n] # KeyLen
  BY FirstRoot, KeyLenAssumption DEF Init
<1>4. View = [k \in Keys |-> NoValue]
  BY <1>3 DEF View, HasLeaf, IsLeaf
<1>5. [t \in Threads |-> Request(t)] = [t \in Threads |-> NoCall]
  BY <1>1, RequestIs
<1>6. res = [t \in Threads |-> NoValue]
  BY DEF Init
<1> QED BY <1>2, <1>4, <1>5, <1>6 DEF KV!Init, KV!NoCall, NoCall

\* While threads keep their own ranges, nothing comes between the test for a
\* value and the emplace, and delete_value takes out the leaf it looked at.
THEOREM EffectsGuarded ==
    ASSUME "del" \in Ops => Disjoint,
           Disjoint \/ \A v, w \in Value : Merge(v, w) = w
    PROVE  Spec => []EffectsReady
<1>1. Init => IndInv /\ EffectsReady
  BY InitInv, InitMap
<1>2. IndInv /\ EffectsReady /\ [Next]_vars => IndInv' /\ EffectsReady'
  BY NextInv, StutterInv, NextMap, StutterMap
<1> QED BY <1>1, <1>2, PTL DEF Spec

\* The trie is an atomic map, whatever the interleaving: insert, delete_value
\* and get_value each take effect in one step, a compare_exchange, an
\* exchange, a store into a leaf or the load that answers, and
\* hash_and_normalize, do_gc and clear change the map only as they may.  The
\* callers' contract: who deletes has the range of its subnode for itself,
\* and either that goes for every thread, or value_merge_fn overwrites (two
\* threads may then both find a leaf without a value).
THEOREM SnapshotLinearizable ==
    ASSUME "del" \in Ops => Disjoint,
           Disjoint \/ \A v, w \in Value : Merge(v, w) = w
    PROVE  Spec => Linearizable
<1>1. Init => KV!Init
  BY InitMap
<1>2. IndInv /\ EffectsReady /\ [Next]_vars
        => [KV!Next]_<<View, [t \in Threads |-> Request(t)], res>>
  BY NextMap, StutterMap DEF MapStep, Reqs
<1> QED BY <1>1, <1>2, Inductive, EffectsGuarded, PTL DEF Spec, Linearizable, KV!Spec

=============================================================================
