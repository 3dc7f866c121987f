------------------------- MODULE LayeredTrieProofs --------------------------
(***************************************************************************)
(* Theorems about the layered trie, for any number of threads, keys and    *)
(* layers, any branching and any key length.                               *)
(***************************************************************************)
EXTENDS LayeredTrieInv, TriePrefixTheorems, FiniteSetTheorems

-----------------------------------------------------------------------------
(* What the recursive functions of the model compute *)

LEMMA FollowFact ==
    ASSUME NEW S, NEW kids
    PROVE  \A x : x \in Follow(S, kids)
                  <=> x \in S \/ \E m \in S \cap DOMAIN kids : x \in kids[m]
BY DEF Follow

\* f holds the sets whose last one is the closure.
ClosureBy(n, kids, f) ==
    /\ Closure(n, kids) = f[KeyLen + 1]
    /\ f[0] = {n}
    /\ \A i \in 0 .. KeyLen : f[i + 1] = Follow(f[i], kids)

LEMMA ClosureSteps ==
    ASSUME NEW n, NEW kids
    PROVE  \E f : ClosureBy(n, kids, f)
<1> DEFINE D == 0 .. KeyLen + 1
           R(f) == f = [i \in D |-> IF i = 0 THEN {n} ELSE Follow(f[i - 1], kids)]
           H(g, h) == g[0] = {n} /\ \A i \in 0 .. KeyLen : i < h => g[i + 1] = Follow(g[i], kids)
           G == {h \in D : \E g : H(g, h)}
<1>1. KeyLen \in Nat /\ KeyLen + 1 \in Nat
  BY KeyLenAssumption
<1>2. 0 \in G
  <2> DEFINE g == [i \in {0} |-> {n}]
  <2>1. H(g, 0)
    OBVIOUS
  <2>2. 0 \in D
    BY <1>1
  <2>3. \E h : H(h, 0)
    <3> HIDE DEF g
    <3> QED BY <2>1
  <2> QED BY <2>2, <2>3
<1>3. ASSUME NEW h \in 0 .. KeyLen + 1, h + 1 <= KeyLen + 1, h \in G
      PROVE  h + 1 \in G
  <2>1. PICK g : H(g, h)
    BY <1>3
  <2> DEFINE g2 == [i \in 0 .. h + 1 |-> IF i = h + 1 THEN Follow(g[h], kids) ELSE g[i]]
  <2>2. g2[0] = {n} /\ g2[h + 1] = Follow(g[h], kids)
    BY <2>1, <1>1
  <2>3. \A i \in 0 .. h : g2[i] = g[i]
    BY <1>1
  <2> HIDE DEF g2
  <2>4. ASSUME NEW i \in 0 .. KeyLen, i < h + 1
        PROVE  g2[i + 1] = Follow(g2[i], kids)
    <3>1. CASE i = h
      BY <3>1, <2>2, <2>3
    <3>2. CASE i # h
      <4>1. i < h /\ i + 1 \in 0 .. h /\ i \in 0 .. h
        BY <2>4, <3>2, <1>1
      <4> QED BY <4>1, <2>1, <2>3
    <3> QED BY <3>1, <3>2
  <2>5. H(g2, h + 1)
    BY <2>2, <2>4
  <2> QED BY <2>5, <1>1, <1>3
<1>4. KeyLen + 1 \in G
  <2>1. 0 \in Nat /\ KeyLen + 1 \in 0 .. KeyLen + 1
    BY <1>1
  <2> HIDE DEF G
  <2> QED BY <2>1, <1>1, <1>2, <1>3, RangeInduction
<1>5. PICK g : /\ g[0] = {n}
               /\ \A j \in 0 .. KeyLen : g[j + 1] = Follow(g[j], kids)
  <2>1. PICK g : H(g, KeyLen + 1)
    BY <1>4
  <2>2. \A j \in 0 .. KeyLen : j < KeyLen + 1
    BY <1>1
  <2>3. \A j \in 0 .. KeyLen : g[j + 1] = Follow(g[j], kids)
    BY <2>1, <2>2
  <2> QED BY <2>1, <2>3
<1>6. \E f : R(f)
  <2> DEFINE f == [i \in D |-> g[i]]
  <2>1. ASSUME NEW i \in D
        PROVE  g[i] = IF i = 0 THEN {n} ELSE Follow(f[i - 1], kids)
    <3>1. CASE i = 0
      BY <3>1, <1>5
    <3>2. CASE i # 0
      <4>1. PICK j \in 0 .. KeyLen : j = i - 1 /\ j \in D /\ j + 1 = i
        BY <3>2, <1>1
      <4>2. f[j] = g[j]
        BY <4>1
      <4>3. g[j + 1] = Follow(g[j], kids)
        BY <4>1, <1>5
      <4> HIDE DEF f
      <4> QED BY <4>1, <4>2, <4>3, <3>2
    <3> QED BY <3>1, <3>2
  <2>2. f = [i \in D |-> IF i = 0 THEN {n} ELSE Follow(f[i - 1], kids)]
    <3>1. f = [i \in D |-> g[i]]
      OBVIOUS
    <3> HIDE DEF f
    <3> QED BY <3>1, <2>1
  <2> QED BY <2>2
<1>7. PICK f : f = (CHOOSE h : R(h)) /\ R(f)
  BY <1>6
<1>8. Closure(n, kids) = f[KeyLen + 1]
  BY <1>7 DEF Closure
<1>9. \A i \in D : f[i] = IF i = 0 THEN {n} ELSE Follow(f[i - 1], kids)
  <2>1. R(f)
    BY <1>7
  <2> QED BY <2>1
<1>10. f[0] = {n}
  BY <1>1, <1>9
<1>11. ASSUME NEW i \in 0 .. KeyLen
       PROVE  f[i + 1] = Follow(f[i], kids)
  <2>1. i + 1 \in D /\ i + 1 # 0 /\ i + 1 - 1 = i
    BY <1>1
  <2> QED BY <2>1, <1>9
<1>12. ClosureBy(n, kids, f)
  BY <1>8, <1>10, <1>11 DEF ClosureBy
<1> QED BY <1>12

\* What is closed under kids contains the closure of its elements.
LEMMA ClosureIn ==
    ASSUME NEW n, NEW kids, NEW T, n \in T,
           \A m \in T \cap DOMAIN kids : kids[m] \subseteq T
    PROVE  Closure(n, kids) \subseteq T
<1>0. PICK f : ClosureBy(n, kids, f)
  BY ClosureSteps
<1>1. /\ Closure(n, kids) = f[KeyLen + 1]
      /\ f[0] = {n}
      /\ \A i \in 0 .. KeyLen : f[i + 1] = Follow(f[i], kids)
  BY <1>0 DEF ClosureBy
<1> DEFINE G == {i \in 0 .. KeyLen + 1 : f[i] \subseteq T}
<1>2. KeyLen \in Nat /\ KeyLen + 1 \in Nat /\ 0 \in Nat /\ KeyLen + 1 \in 0 .. KeyLen + 1
  BY KeyLenAssumption
<1>3. 0 \in G
  BY <1>1, <1>2
<1>4. ASSUME NEW i \in 0 .. KeyLen + 1, i + 1 <= KeyLen + 1, i \in G
      PROVE  i + 1 \in G
  <2>1. i \in 0 .. KeyLen /\ i + 1 \in 0 .. KeyLen + 1
    BY <1>2, <1>4
  <2>2. f[i + 1] = Follow(f[i], kids) /\ f[i] \subseteq T
    BY <2>1, <1>1, <1>4
  <2>3. Follow(f[i], kids) \subseteq T
    BY <2>2, FollowFact
  <2> QED BY <2>1, <2>2, <2>3
<1>5. KeyLen + 1 \in G
  <2> HIDE DEF G
  <2> QED BY <1>2, <1>3, <1>4, RangeInduction
<1> QED BY <1>1, <1>5

\* The closure contains a set whose elements other than n follow one with a
\* smaller length.
RootedAt(n, kids, T) ==
    \A x \in T : /\ x.len \in PrefixLen
                 /\ \/ x = n
                    \/ \E p \in T : x \in kids[p] /\ p.len < x.len

LEMMA ClosureHas ==
    ASSUME NEW n, NEW kids, NEW T, T \subseteq DOMAIN kids, RootedAt(n, kids, T)
    PROVE  T \subseteq Closure(n, kids)
<1>0. PICK f : ClosureBy(n, kids, f)
  BY ClosureSteps
<1>1. /\ Closure(n, kids) = f[KeyLen + 1]
      /\ f[0] = {n}
      /\ \A i \in 0 .. KeyLen : f[i + 1] = Follow(f[i], kids)
  BY <1>0 DEF ClosureBy
<1> DEFINE G == {i \in 0 .. KeyLen + 1 : n \in f[i] /\ \A x \in T : x.len < i => x \in f[i]}
<1>2. KeyLen \in Nat /\ KeyLen + 1 \in Nat /\ 0 \in Nat /\ KeyLen + 1 \in 0 .. KeyLen + 1
  BY KeyLenAssumption
<1>3. 0 \in G
  BY <1>1, <1>2 DEF PrefixLen, RootedAt
<1>4. ASSUME NEW i \in 0 .. KeyLen + 1, i + 1 <= KeyLen + 1, i \in G
      PROVE  i + 1 \in G
  <2>1. i \in 0 .. KeyLen /\ i + 1 \in 0 .. KeyLen + 1
    BY <1>2, <1>4
  <2>2. f[i + 1] = Follow(f[i], kids) /\ n \in f[i] /\ \A x \in T : x.len < i => x \in f[i]
    BY <2>1, <1>1, <1>4
  <2>3. \A x : x \in f[i + 1] <=> x \in f[i] \/ \E m \in f[i] \cap DOMAIN kids : x \in kids[m]
    BY <2>2, FollowFact
  <2>4. ASSUME NEW x \in T, x.len < i + 1
        PROVE  x \in f[i + 1]
    <3>1. CASE x = n
      BY <3>1, <2>2, <2>3
    <3>2. CASE x # n
      <4>1. PICK p \in T : x \in kids[p] /\ p.len < x.len
        BY <3>2 DEF RootedAt
      <4>2. p.len < i
        BY <4>1, <2>4, <2>1 DEF PrefixLen, RootedAt
      <4>3. p \in f[i] /\ p \in DOMAIN kids
        BY <4>2, <2>2
      <4> QED BY <4>1, <4>3, <2>3
    <3> QED BY <3>1, <3>2
  <2>5. n \in f[i + 1]
    BY <2>2, <2>3
  <2> QED BY <2>1, <2>4, <2>5
<1>5. KeyLen + 1 \in G
  <2> HIDE DEF G
  <2> QED BY <1>2, <1>3, <1>4, RangeInduction
<1>6. \A x \in T : x.len < KeyLen + 1
  BY <1>2 DEF PrefixLen, RootedAt
<1> QED BY <1>1, <1>5, <1>6

\* f holds the paths whose last one is Path(n, next).
PathBy(n, next, f) ==
    /\ Path(n, next) = f[KeyLen]
    /\ f[0] = <<n>>
    /\ \A i \in 0 .. KeyLen - 1 : f[i + 1] = Longer(f[i], next)

LEMMA PathSteps ==
    ASSUME NEW n, NEW next
    PROVE  \E f : PathBy(n, next, f)
<1> DEFINE D == 0 .. KeyLen
           R(f) == f = [i \in D |-> IF i = 0 THEN <<n>> ELSE Longer(f[i - 1], next)]
           H(g, h) == g[0] = <<n>> /\ \A i \in 0 .. KeyLen - 1 : i < h => g[i + 1] = Longer(g[i], next)
           G == {h \in D : \E g : H(g, h)}
<1>1. KeyLen \in Nat /\ KeyLen - 1 \in Nat
  BY KeyLenAssumption
<1>2. 0 \in G
  <2> DEFINE g == [i \in {0} |-> <<n>>]
  <2>1. H(g, 0)
    OBVIOUS
  <2>2. 0 \in D
    BY <1>1
  <2>3. \E h : H(h, 0)
    <3> HIDE DEF g
    <3> QED BY <2>1
  <2> QED BY <2>2, <2>3
<1>3. ASSUME NEW h \in 0 .. KeyLen, h + 1 <= KeyLen, h \in G
      PROVE  h + 1 \in G
  <2>1. PICK g : H(g, h)
    BY <1>3
  <2> DEFINE g2 == [i \in 0 .. h + 1 |-> IF i = h + 1 THEN Longer(g[h], next) ELSE g[i]]
  <2>2. g2[0] = <<n>> /\ g2[h + 1] = Longer(g[h], next)
    BY <2>1, <1>1
  <2>3. \A i \in 0 .. h : g2[i] = g[i]
    BY <1>1
  <2> HIDE DEF g2
  <2>4. ASSUME NEW i \in 0 .. KeyLen - 1, i < h + 1
        PROVE  g2[i + 1] = Longer(g2[i], next)
    <3>1. CASE i = h
      BY <3>1, <2>2, <2>3
    <3>2. CASE i # h
      <4>1. i < h /\ i + 1 \in 0 .. h /\ i \in 0 .. h
        BY <2>4, <3>2, <1>1
      <4> QED BY <4>1, <2>1, <2>3
    <3> QED BY <3>1, <3>2
  <2>5. H(g2, h + 1)
    BY <2>2, <2>4
  <2> QED BY <2>5, <1>1, <1>3
<1>4. KeyLen \in G
  <2>1. 0 \in Nat /\ KeyLen \in 0 .. KeyLen
    BY <1>1
  <2> HIDE DEF G
  <2> QED BY <2>1, <1>1, <1>2, <1>3, RangeInduction
<1>5. PICK g : /\ g[0] = <<n>>
               /\ \A j \in 0 .. KeyLen - 1 : g[j + 1] = Longer(g[j], next)
  <2>1. PICK g : H(g, KeyLen)
    BY <1>4
  <2>2. \A j \in 0 .. KeyLen - 1 : j < KeyLen
    BY <1>1
  <2>3. \A j \in 0 .. KeyLen - 1 : g[j + 1] = Longer(g[j], next)
    BY <2>1, <2>2
  <2> QED BY <2>1, <2>3
<1>6. \E f : R(f)
  <2> DEFINE f == [i \in D |-> g[i]]
  <2>1. ASSUME NEW i \in D
        PROVE  g[i] = IF i = 0 THEN <<n>> ELSE Longer(f[i - 1], next)
    <3>1. CASE i = 0
      BY <3>1, <1>5
    <3>2. CASE i # 0
      <4>1. PICK j \in 0 .. KeyLen - 1 : j = i - 1 /\ j \in D /\ j + 1 = i
        BY <3>2, <1>1
      <4>2. f[j] = g[j]
        BY <4>1
      <4>3. g[j + 1] = Longer(g[j], next)
        BY <4>1, <1>5
      <4> HIDE DEF f
      <4> QED BY <4>1, <4>2, <4>3, <3>2
    <3> QED BY <3>1, <3>2
  <2>2. f = [i \in D |-> IF i = 0 THEN <<n>> ELSE Longer(f[i - 1], next)]
    <3>1. f = [i \in D |-> g[i]]
      OBVIOUS
    <3> HIDE DEF f
    <3> QED BY <3>1, <2>1
  <2> QED BY <2>2
<1>7. PICK f : f = (CHOOSE h : R(h)) /\ R(f)
  BY <1>6
<1>8. Path(n, next) = f[KeyLen]
  BY <1>7 DEF Path
<1>9. \A i \in D : f[i] = IF i = 0 THEN <<n>> ELSE Longer(f[i - 1], next)
  <2>1. R(f)
    BY <1>7
  <2> QED BY <2>1
<1>10. f[0] = <<n>>
  BY <1>1, <1>9
<1>11. ASSUME NEW i \in 0 .. KeyLen - 1
       PROVE  f[i + 1] = Longer(f[i], next)
  <2>1. i + 1 \in D /\ i + 1 # 0 /\ i + 1 - 1 = i
    BY <1>1
  <2> QED BY <2>1, <1>9
<1>12. PathBy(n, next, f)
  BY <1>8, <1>10, <1>11 DEF PathBy
<1> QED BY <1>12

\* A path from n along next in a set T that is closed under next.
IsPath(s, n, next, T) ==
    /\ s \in Seq(T) /\ Len(s) \in Nat \ {0}
    /\ s[1] = n
    /\ \A j \in 1 .. Len(s) - 1 : s[j] \in DOMAIN next /\ s[j + 1] = next[s[j]]

LEMMA LongerPath ==
    ASSUME NEW n, NEW next, NEW T, NEW s, IsPath(s, n, next, T),
           \A m \in T \cap DOMAIN next : next[m] \in T
    PROVE  IsPath(Longer(s, next), n, next, T)
<1> DEFINE e == s[Len(s)]
<1>1. s \in Seq(T) /\ Len(s) \in Nat \ {0} /\ e \in T
  BY DEF IsPath
<1>2. CASE e \notin DOMAIN next
  BY <1>2 DEF Longer
<1>3. CASE e \in DOMAIN next
  <2> DEFINE r == Append(s, next[e])
  <2>1. Longer(s, next) = r
    BY <1>3 DEF Longer
  <2>2. next[e] \in T
    BY <1>1, <1>3
  <2>3. /\ r \in Seq(T) /\ Len(r) = Len(s) + 1
        /\ r[Len(s) + 1] = next[e]
        /\ \A j \in 1 .. Len(s) : r[j] = s[j]
    BY <1>1, <2>2
  <2> HIDE DEF r
  <2>4. r[1] = n
    BY <1>1, <2>3 DEF IsPath
  <2>5. ASSUME NEW j \in 1 .. Len(r) - 1
        PROVE  r[j] \in DOMAIN next /\ r[j + 1] = next[r[j]]
    <3>1. CASE j = Len(s)
      BY <3>1, <2>3, <1>1, <1>3
    <3>2. CASE j # Len(s)
      <4>1. j \in 1 .. Len(s) - 1 /\ j \in 1 .. Len(s) /\ j + 1 \in 1 .. Len(s)
        BY <3>2, <2>3, <1>1
      <4>2. s[j] \in DOMAIN next /\ s[j + 1] = next[s[j]]
        BY <4>1 DEF IsPath
      <4> QED BY <4>1, <4>2, <2>3
    <3> QED BY <3>1, <3>2
  <2>6. Len(r) \in Nat \ {0}
    BY <2>3, <1>1
  <2> QED BY <2>1, <2>3, <2>4, <2>5, <2>6 DEF IsPath
<1> QED BY <1>2, <1>3

LEMMA FirstPath ==
    ASSUME NEW n, NEW next, NEW T, n \in T
    PROVE  IsPath(<<n>>, n, next, T)
BY DEF IsPath

\* Path is such a path, and it only depends on next within T.
LEMMA PathFact ==
    ASSUME NEW n, NEW next, NEW next2, NEW T, n \in T,
           \A m \in T \cap DOMAIN next : next[m] \in T,
           \A m \in T : m \in DOMAIN next <=> m \in DOMAIN next2,
           \A m \in T \cap DOMAIN next : next2[m] = next[m]
    PROVE  /\ IsPath(Path(n, next), n, next, T)
           /\ Path(n, next2) = Path(n, next)
<1>0. (\E f : PathBy(n, next, f)) /\ (\E g : PathBy(n, next2, g))
  BY PathSteps
<1>1. PICK f : PathBy(n, next, f)
  BY <1>0
<1>2. PICK g : PathBy(n, next2, g)
  BY <1>0
<1> DEFINE G == {i \in 0 .. KeyLen : IsPath(f[i], n, next, T) /\ g[i] = f[i]}
<1>3. KeyLen \in Nat /\ 0 \in Nat /\ KeyLen \in 0 .. KeyLen
  BY KeyLenAssumption
<1>4. 0 \in G
  BY <1>1, <1>2, <1>3, FirstPath DEF PathBy
<1>5. ASSUME NEW i \in 0 .. KeyLen, i + 1 <= KeyLen, i \in G
      PROVE  i + 1 \in G
  <2>1. i \in 0 .. KeyLen - 1 /\ i + 1 \in 0 .. KeyLen
    BY <1>3, <1>5
  <2>2. f[i + 1] = Longer(f[i], next) /\ g[i + 1] = Longer(f[i], next2)
    BY <2>1, <1>1, <1>2, <1>5 DEF PathBy
  <2>3. IsPath(f[i], n, next, T)
    BY <1>5
  <2>4. IsPath(Longer(f[i], next), n, next, T)
    BY <2>3, LongerPath
  <2>5. f[i][Len(f[i])] \in T
    BY <2>3 DEF IsPath
  <2>6. Longer(f[i], next2) = Longer(f[i], next)
    BY <2>5 DEF Longer
  <2> QED BY <2>1, <2>2, <2>4, <2>6
<1>6. KeyLen \in G
  <2> HIDE DEF G
  <2> QED BY <1>3, <1>4, <1>5, RangeInduction
<1> QED BY <1>1, <1>2, <1>6 DEF PathBy

-----------------------------------------------------------------------------
(* What the invariant says of nodes and layers *)

LEMMA LayerNumbers ==
    /\ MaxLayer \in Nat /\ Never \in Nat
    /\ \A y \in Layers : y \in Nat /\ y < Never
BY LayerAssumption DEF Never, Layers

LEMMA NameFact ==
    ASSUME NEW k \in Key, NEW l \in PrefixLen, NEW y \in Layers
    PROVE  /\ Name(k, l, y) \in NodeName
           /\ Name(k, l, y).pfx = Truncate(k, l)
           /\ Name(k, l, y).len = l /\ Name(k, l, y).layer = y
           /\ Name(k, l, y).pfx = Truncate(Name(k, l, y).pfx, l)
<1>1. Truncate(k, l) = Truncate(Truncate(k, l), l)
  BY DEF Truncate
<1> QED BY <1>1, TruncateFact DEF Name, NodeName

LEMMA NullFact == Null \notin NodeName
<1>1. NodeName \subseteq [pfx : Key, len : PrefixLen, layer : Nat]
  BY LayerNumbers DEF NodeName
<1> QED BY <1>1, NullAssumption

LEMMA RootFact ==
    ASSUME NEW y \in Layers
    PROVE  Root(y) \in NodeName /\ Root(y).len = 0 /\ Root(y).layer = y
<1>1. ZeroKey \in Key /\ 0 \in PrefixLen
  BY BranchAssumption, KeyLenAssumption DEF ZeroKey, Key, PrefixLen
<1> QED BY <1>1, NameFact DEF Root

\* The fields of a name and of a node.
LEMMA NodeFact ==
    ASSUME NodesOK, NEW n \in DOMAIN node
    PROVE  /\ n \in NodeName /\ n.pfx \in Key /\ n.len \in PrefixLen
           /\ n.layer \in Nat /\ n # Null
           /\ node[n].superseded_in_layer \in Nat
           /\ node[n].children \in [Branch -> NodeName \cup {Null}]
           /\ node[n].active_children \in Nat /\ node[n].value \in Value
           /\ \A c : c \in ChildrenOf(n)
                     <=> c # Null /\ \E b \in Branch : node[n].children[b] = c
           /\ Pfxs[n] = n.pfx /\ Lens[n] = n.len /\ Kids[n] = node[n].children
<1>1. n \in NodeName /\ node[n] \in NodeBody
  BY DEF NodesOK
<1>2. n.pfx \in Key /\ n.len \in PrefixLen /\ n.layer \in Nat /\ n # Null
  BY <1>1, LayerNumbers, NullFact DEF NodeName
<1>3. /\ node[n].superseded_in_layer \in Nat
      /\ node[n].children \in [Branch -> NodeName \cup {Null}]
      /\ node[n].active_children \in Nat /\ node[n].value \in Value
  BY <1>1, LayerNumbers DEF NodeBody
<1>4. \A c : c \in ChildrenOf(n)
             <=> c # Null /\ \E b \in Branch : node[n].children[b] = c
  <2>1. CASE is_leaf(n)
    <3>1. \A b \in Branch : node[n].children[b] = Null
      BY <2>1 DEF NodesOK, NoKids
    <3> QED BY <2>1, <3>1 DEF ChildrenOf
  <2>2. CASE ~is_leaf(n)
    BY <2>2 DEF ChildrenOf
  <2> QED BY <2>1, <2>2
<1> QED BY <1>1, <1>2, <1>3, <1>4 DEF Pfxs, Lens, Kids

LEMMA TreeTyped ==
    ASSUME NodesOK, NEW L, L \subseteq DOMAIN node
    PROVE  NodesTyped(L, Pfxs, Lens)
BY NodeFact DEF NodesTyped

\* A node has no more children than there are slots.
LEMMA FewValues ==
    ASSUME NEW R, NEW f \in [Branch -> R], NEW T, T = {f[b] : b \in Branch}
    PROVE  IsFiniteSet(T) /\ Cardinality(T) <= Cardinality(Branch)
<1>1. f \in Surjection(Branch, T)
  BY DEF Surjection
<1> QED BY <1>1, FiniteAssumption, FS_Surjection

LEMMA FewChildren ==
    ASSUME NEW kids \in [Branch -> NodeName \cup {Null}], NEW S,
           S \subseteq {kids[b] : b \in Branch}
    PROVE  IsFiniteSet(S) /\ Cardinality(S) \in 0 .. Cardinality(Branch)
<1> DEFINE T == {kids[b] : b \in Branch}
<1>1. IsFiniteSet(T) /\ Cardinality(T) <= Cardinality(Branch)
  BY FewValues
<1> HIDE DEF T
<1>2. IsFiniteSet(S) /\ Cardinality(S) <= Cardinality(T)
  BY <1>1, FS_Subset DEF T
<1>3. Cardinality(S) \in Nat /\ Cardinality(T) \in Nat /\ Cardinality(Branch) \in Nat
  BY <1>1, <1>2, FiniteAssumption, FS_CardinalityType
<1> QED BY <1>1, <1>2, <1>3

LEMMA ChildrenFinite ==
    ASSUME NodesOK, NEW n \in DOMAIN node
    PROVE  IsFiniteSet(ChildrenOf(n)) /\ Cardinality(ChildrenOf(n)) \in 0 .. Cardinality(Branch)
<1>1. node[n].children \in [Branch -> NodeName \cup {Null}]
  BY NodeFact
<1>2. ChildrenOf(n) \subseteq {node[n].children[b] : b \in Branch}
  BY DEF ChildrenOf
<1> QED BY <1>1, <1>2, FewChildren

\* Every node is in the tree of a layer that exists.
LEMMA NodeInLayer ==
    ASSUME LayerInv, NEW n \in DOMAIN node
    PROVE  \E y \in roots : n \in Tree(y)
<1>1. /\ n.layer \in Nat /\ node[n].superseded_in_layer \in Nat
      /\ n.layer <= active_layer /\ n.layer < node[n].superseded_in_layer
      /\ \/ node[n].superseded_in_layer = Never
         \/ /\ node[n].superseded_in_layer <= active_layer
            /\ node[n].superseded_in_layer - 1 \in roots
  BY NodeFact DEF LayerInv, NodesOK
<1>2. /\ active_layer \in Nat /\ active_layer < Never
      /\ active_layer \in roots /\ (active_layer >= 2 => active_layer - 1 \in roots)
  BY LayerNumbers DEF LayerInv, BoundsOK, LastTwoStay, RecentKept
<1>3. CASE node[n].superseded_in_layer # Never
  <2> DEFINE y == node[n].superseded_in_layer - 1
  <2>1. y \in roots /\ n.layer <= y /\ y < node[n].superseded_in_layer /\ y # active_layer
    BY <1>1, <1>2, <1>3
  <2> QED BY <2>1 DEF Tree
<1>4. CASE node[n].superseded_in_layer = Never /\ n \notin Pending
  <2>1. n \in Tree(active_layer)
    BY <1>1, <1>2, <1>4 DEF Tree
  <2> QED BY <2>1, <1>2
<1>5. CASE n \in Pending
  <2>1. PICK t \in Threads : pc[t] = "mark" /\ n \in ChainSet(old[t])
    BY <1>5 DEF Pending
  <2>2. active_layer >= 2 /\ ChainSet(old[t]) \subseteq Tree(active_layer - 1)
    BY <2>1 DEF LayerInv, CallsOK, CallOK
  <2> QED BY <2>1, <2>2, <1>2
<1> QED BY <1>3, <1>4, <1>5

\* A child of a node of a layer is a node of the layer.
LEMMA TreeEdge ==
    ASSUME LayerInv, NEW y \in roots, NEW m \in Tree(y), NEW b \in Branch,
           node[m].children[b] # Null
    PROVE  LET c == node[m].children[b]
           IN  /\ c \in Tree(y) /\ c \in ChildrenOf(m)
               /\ m.len < c.len
               /\ IsPrefixOf(m.pfx, m.len, c.pfx, c.len)
               /\ BranchBits(c.pfx, m.len) = b
<1> DEFINE c == node[m].children[b]
<1>1. m \in DOMAIN node /\ Tree(y) \subseteq DOMAIN node
  BY DEF Tree
<1>2. NodesOK
  BY DEF LayerInv
<1>3. Kids[m][b] = c /\ Pfxs[m] = m.pfx /\ Lens[m] = m.len /\ c \in ChildrenOf(m)
  BY <1>1, <1>2, NodeFact
<1>4. TrieShape(Tree(y), Pfxs, Lens, Kids, Null)
  BY DEF LayerInv, LayersOK
<1> HIDE DEF c
<1>5. /\ c \in Tree(y) /\ Lens[m] < Lens[c]
      /\ IsPrefixOf(Pfxs[m], Lens[m], Pfxs[c], Lens[c])
      /\ BranchBits(Pfxs[c], Lens[m]) = b
  BY <1>3, <1>4 DEF TrieShape, ShapeEdges, c
<1>6. Pfxs[c] = c.pfx /\ Lens[c] = c.len
  BY <1>1, <1>2, <1>5, NodeFact
<1> QED BY <1>3, <1>5, <1>6 DEF c

\* The children of nodes in memory are in memory.
LEMMA ChildrenKept ==
    ASSUME LayerInv, NEW n \in DOMAIN node, NEW c \in ChildrenOf(n)
    PROVE  c \in DOMAIN node /\ c.layer <= n.layer
<1>1. PICK y \in roots : n \in Tree(y)
  BY NodeInLayer
<1>2. PICK b \in Branch : node[n].children[b] = c /\ c # Null
  BY NodeFact DEF LayerInv
<1>3. c \in Tree(y)
  BY <1>1, <1>2, TreeEdge
<1> QED BY <1>3 DEF Tree, LayerInv, NodesOK

\* What the active layer made is in it.
LEMMA NewNodes ==
    ASSUME LayerInv, NEW n \in DOMAIN node, n.layer = active_layer
    PROVE  n \in Tree(active_layer) /\ node[n].superseded_in_layer = Never
<1>1. active_layer \in Nat /\ active_layer < Never /\ n.layer <= active_layer
      /\ node[n].superseded_in_layer \in Nat
  BY LayerNumbers, NodeFact DEF LayerInv, BoundsOK, NodesOK
<1>2. node[n].superseded_in_layer = Never
  BY <1>1 DEF LayerInv, NodesOK
<1>3. n \notin Pending
  <2> SUFFICES ASSUME NEW t \in Threads, pc[t] = "mark", n \in ChainSet(old[t])
               PROVE  FALSE
    BY DEF Pending
  <2>1. n \in Tree(active_layer - 1)
    BY DEF LayerInv, CallsOK, CallOK
  <2> QED BY <2>1, <1>1 DEF Tree
<1> QED BY <1>1, <1>2, <1>3 DEF Tree

\* Matches tests whether a node is on the way to a key.
LEMMA MatchesFact ==
    ASSUME NEW n \in NodeName, NEW k \in Key
    PROVE  Matches(n, k) <=> IsPrefixOf(n.pfx, n.len, k, KeyLen)
<1>1. n.pfx \in Key /\ n.len \in PrefixLen /\ KeyLen \in PrefixLen
  BY KeyLenAssumption DEF NodeName, PrefixLen
<1> DEFINE M == MatchLen(n.pfx, n.len, k, KeyLen)
<1>2. M \in PrefixLen /\ M <= n.len
  BY <1>1, MatchLenFact
<1>3. M >= n.len <=> IsPrefixOf(n.pfx, n.len, k, KeyLen)
  BY <1>1, CoversFact
<1> HIDE DEF M
<1>4. M = n.len <=> M >= n.len
  BY <1>1, <1>2 DEF PrefixLen
<1> QED BY <1>3, <1>4 DEF Matches, M

\* The slot that a thread is about to change.
LEMMA SlotFact ==
    ASSUME LayerInv, NEW t \in Threads, pc[t] \in {"try", "mark"}
    PROVE  /\ cur[t] \in Tree(active_layer) /\ active_layer \in roots
           /\ active_layer \in Layers /\ active_layer > 0
           /\ cur[t] \in DOMAIN node /\ cur[t].layer = active_layer
           /\ arg[t].layer = active_layer
           /\ arg[t].key \in Keys /\ arg[t].key \in Key
           /\ arg[t].value \in Value /\ arg[t].do_gc \in BOOLEAN
           /\ cur[t].len < KeyLen
           /\ IsPrefixOf(cur[t].pfx, cur[t].len, arg[t].key, KeyLen)
           /\ Bits(cur[t], arg[t].key) \in Branch
<1>1. /\ CallOK(t) /\ pc[t] # "idle"
      /\ active_layer \in roots /\ active_layer \in Layers /\ active_layer \in Nat
  BY LayerNumbers DEF LayerInv, CallsOK, BoundsOK, LastTwoStay, RecentKept
<1>2. /\ cur[t] \in DOMAIN node /\ cur[t].layer = active_layer
      /\ arg[t].layer = active_layer /\ active_layer > 0
      /\ arg[t].key \in Keys /\ arg[t].value \in Value /\ arg[t].do_gc \in BOOLEAN
      /\ ~is_leaf(cur[t]) /\ Matches(cur[t], arg[t].key)
  BY <1>1 DEF CallOK
<1>3. cur[t] \in Tree(active_layer)
  BY <1>2, NewNodes
<1>4. arg[t].key \in Key
  BY <1>2, KeysAssumption
<1>5. cur[t] \in NodeName /\ cur[t].len \in PrefixLen
  BY <1>2, NodeFact DEF LayerInv
<1>6. cur[t].len < KeyLen
  BY <1>2, <1>5, KeyLenAssumption DEF is_leaf, PrefixLen
<1>7. IsPrefixOf(cur[t].pfx, cur[t].len, arg[t].key, KeyLen)
  BY <1>2, <1>4, <1>5, MatchesFact
<1>8. Bits(cur[t], arg[t].key) \in Branch
  BY <1>4, <1>5, <1>6, BranchBitsType DEF Bits
<1> QED BY <1>1, <1>2, <1>3, <1>4, <1>6, <1>7, <1>8

-----------------------------------------------------------------------------
(* Sealed layers do not change *)

\* A step within a layer: it may add nodes of the active layer, change those,
\* mark nodes as superseded in it, and drop nodes that are in no layer left.
KeepsSealed ==
    /\ active_layer' = active_layer /\ roots' \subseteq roots
    /\ \A n \in DOMAIN node' \ DOMAIN node : n.layer = active_layer
    /\ \A y \in roots' : Tree(y) \subseteq DOMAIN node'
    /\ \A n \in DOMAIN node \cap DOMAIN node' :
          /\ n.layer < active_layer =>
                /\ node'[n].children = node[n].children
                /\ node'[n].active_children = node[n].active_children
                /\ node'[n].value = node[n].value
          /\ \/ node'[n].superseded_in_layer = node[n].superseded_in_layer
             \/ /\ n.layer < active_layer
                /\ node[n].superseded_in_layer >= active_layer
                /\ node'[n].superseded_in_layer = active_layer

LEMMA SealedTree ==
    ASSUME LayerInv, KeepsSealed, NEW y \in roots', y < active_layer
    PROVE  Tree(y)' = Tree(y)
<1>1. /\ y \in Nat /\ active_layer \in Nat /\ active_layer' = active_layer
      /\ y \in roots /\ NodesOK
  BY LayerNumbers DEF LayerInv, BoundsOK, KeepsSealed
<1>2. ASSUME NEW n \in Tree(y) PROVE n \in Tree(y)'
  <2>1. /\ n \in DOMAIN node /\ n \in DOMAIN node'
        /\ n.layer <= y /\ y < node[n].superseded_in_layer
    BY DEF Tree, KeepsSealed
  <2>2. node[n].superseded_in_layer \in Nat
    BY <2>1, <1>1, NodeFact
  <2>3. y < node'[n].superseded_in_layer
    BY <2>1, <2>2, <1>1 DEF KeepsSealed
  <2> QED BY <2>1, <2>3, <1>1 DEF Tree
<1>3. ASSUME NEW n \in Tree(y)' PROVE n \in Tree(y)
  <2>1. n \in DOMAIN node' /\ n.layer <= y /\ y < node'[n].superseded_in_layer
    BY DEF Tree
  <2>2. n \in DOMAIN node
    BY <2>1, <1>1 DEF KeepsSealed
  <2>3. node[n].superseded_in_layer \in Nat
    BY <2>2, <1>1, NodeFact
  <2>4. y < node[n].superseded_in_layer
    BY <2>1, <2>2, <2>3, <1>1 DEF KeepsSealed
  <2> QED BY <2>1, <2>2, <2>4, <1>1 DEF Tree
<1> QED BY <1>2, <1>3

LEMMA SealedKept ==
    ASSUME LayerInv, KeepsSealed, NEW y \in roots', y < active_layer
    PROVE  /\ Root(y) \in Tree(y)'
           /\ TrieShape(Tree(y), Pfxs, Lens, Kids, Null)'
           /\ \A n \in Tree(y) : /\ n \in DOMAIN node /\ n \in DOMAIN node'
                                 /\ node'[n].children = node[n].children
                                 /\ node'[n].active_children = node[n].active_children
                                 /\ node'[n].value = node[n].value
<1>1. Tree(y)' = Tree(y)
  BY SealedTree
<1>2. y \in roots /\ NodesOK /\ y \in Nat /\ active_layer \in Nat
  BY LayerNumbers DEF LayerInv, BoundsOK, KeepsSealed
<1>3. /\ Root(y) \in Tree(y)
      /\ TrieShape(Tree(y), Pfxs, Lens, Kids, Null)
  BY <1>2 DEF LayerInv, LayersOK
<1>4. \A n \in Tree(y) : n \in DOMAIN node /\ n \in DOMAIN node' /\ n.layer < active_layer
  <2> SUFFICES ASSUME NEW n \in Tree(y)
               PROVE  n \in DOMAIN node /\ n \in DOMAIN node' /\ n.layer < active_layer
    OBVIOUS
  <2>1. n \in DOMAIN node /\ n \in DOMAIN node' /\ n.layer <= y
    BY DEF Tree, KeepsSealed
  <2>2. n.layer \in Nat
    BY <2>1, <1>2, NodeFact
  <2> QED BY <2>1, <2>2, <1>2
<1>5. \A n \in Tree(y) :
         /\ node'[n].children = node[n].children
         /\ node'[n].active_children = node[n].active_children
         /\ node'[n].value = node[n].value
  BY <1>4 DEF KeepsSealed
<1>6. NodesTyped(Tree(y), Pfxs, Lens)
  BY <1>2, <1>4, TreeTyped
<1>7. \A n \in Tree(y) :
         /\ Pfxs[n] = n.pfx /\ Lens[n] = n.len /\ Kids[n] = node[n].children
         /\ Pfxs'[n] = n.pfx /\ Lens'[n] = n.len /\ Kids'[n] = node'[n].children
  BY <1>4 DEF Pfxs, Lens, Kids
<1>8. TrieShape(Tree(y), Pfxs', Lens', Kids', Null)
  <2>1. /\ \A n \in Tree(y) : Pfxs'[n] = Pfxs[n] /\ Lens'[n] = Lens[n]
        /\ \A n \in Tree(y), b \in Branch : Kids'[n][b] = Kids[n][b]
    BY <1>5, <1>7
  <2> QED BY <2>1, <1>3, <1>6, ShapeSame
<1>9. TrieShape(Tree(y), Pfxs, Lens, Kids, Null)'
  BY <1>1, <1>8
<1> QED BY <1>1, <1>3, <1>4, <1>5, <1>9

\* What a layer holds.
LEMMA SealedHolds ==
    ASSUME LayerInv, KeepsSealed, NEW y \in roots', y < active_layer, NEW m, Holds(y, m)
    PROVE  Holds(y, m)'
BY SealedTree, SealedKept DEF Holds

\* A chain of nodes of the layer below the active one.
LEMMA ChainFact ==
    ASSUME LayerInv, NEW y \in roots, NEW n \in Tree(y)
    PROVE  /\ IsPath(Chain(n), n, UniqueChild, Tree(y))
           /\ n \in ChainSet(n) /\ ChainSet(n) \subseteq Tree(y)
           /\ \A m \in Tree(y) \cap DOMAIN UniqueChild : ChildrenOf(m) = {UniqueChild[m]}
<1>1. NodesOK /\ Tree(y) \subseteq DOMAIN node
  BY DEF LayerInv, Tree
<1>2. \A m \in Tree(y) \cap DOMAIN UniqueChild : ChildrenOf(m) = {UniqueChild[m]}
  <2> SUFFICES ASSUME NEW m \in Tree(y), m \in DOMAIN UniqueChild
               PROVE  ChildrenOf(m) = {UniqueChild[m]}
    OBVIOUS
  <2>1. /\ m \in DOMAIN node /\ node[m].active_children = 1
        /\ UniqueChild[m] = get_unique_child(m)
    BY DEF UniqueChild
  <2>2. Cardinality(ChildrenOf(m)) = 1
    BY <2>1, <1>1 DEF NodesOK
  <2>3. IsFiniteSet(ChildrenOf(m))
    BY <2>1, <1>1, ChildrenFinite
  <2>4. PICK c : ChildrenOf(m) = {c}
    BY <2>2, <2>3, FS_Singleton
  <2> QED BY <2>1, <2>4 DEF get_unique_child
<1>3. \A m \in Tree(y) \cap DOMAIN UniqueChild : UniqueChild[m] \in Tree(y)
  <2> SUFFICES ASSUME NEW m \in Tree(y), m \in DOMAIN UniqueChild
               PROVE  UniqueChild[m] \in Tree(y)
    OBVIOUS
  <2>1. UniqueChild[m] \in ChildrenOf(m)
    BY <1>2
  <2>2. PICK b \in Branch : node[m].children[b] = UniqueChild[m] /\ UniqueChild[m] # Null
    BY <2>1, <1>1, NodeFact
  <2> QED BY <2>2, TreeEdge
<1>4. IsPath(Chain(n), n, UniqueChild, Tree(y))
  BY <1>3, PathFact DEF Chain
<1>5. n \in ChainSet(n) /\ ChainSet(n) \subseteq Tree(y)
  BY <1>4 DEF IsPath, ChainSet
<1> QED BY <1>2, <1>4, <1>5

LEMMA ChainKept ==
    ASSUME LayerInv, KeepsSealed, NEW y \in roots', y < active_layer, NEW n \in Tree(y)
    PROVE  Path(n, UniqueChild') = Chain(n)
<1>1. y \in roots
  BY DEF KeepsSealed
<1>2. \A m \in Tree(y) : /\ m \in DOMAIN node /\ m \in DOMAIN node'
                         /\ node'[m].children = node[m].children
                         /\ node'[m].active_children = node[m].active_children
  BY SealedKept
<1>3. \A m \in Tree(y) : m \in DOMAIN UniqueChild <=> m \in DOMAIN UniqueChild'
  BY <1>2 DEF UniqueChild
<1>4. \A m \in Tree(y) \cap DOMAIN UniqueChild : UniqueChild'[m] = UniqueChild[m]
  <2> SUFFICES ASSUME NEW m \in Tree(y), m \in DOMAIN UniqueChild
               PROVE  UniqueChild'[m] = UniqueChild[m]
    OBVIOUS
  <2>1. ChildrenOf(m)' = ChildrenOf(m)
    BY <1>2 DEF ChildrenOf
  <2>2. get_unique_child(m)' = get_unique_child(m)
    BY <2>1 DEF get_unique_child
  <2>3. UniqueChild[m] = get_unique_child(m)
    BY DEF UniqueChild
  <2>4. m \in DOMAIN UniqueChild'
    BY <1>3
  <2>5. UniqueChild'[m] = get_unique_child(m)'
    BY <2>4 DEF UniqueChild
  <2> QED BY <2>2, <2>3, <2>5
<1>5. \A m \in Tree(y) \cap DOMAIN UniqueChild : UniqueChild[m] \in Tree(y)
  <2> SUFFICES ASSUME NEW m \in Tree(y), m \in DOMAIN UniqueChild
               PROVE  UniqueChild[m] \in Tree(y)
    OBVIOUS
  <2>1. UniqueChild[m] \in ChildrenOf(m)
    BY <1>1, ChainFact
  <2>2. PICK b \in Branch : node[m].children[b] = UniqueChild[m] /\ UniqueChild[m] # Null
    BY <2>1, <1>2, NodeFact DEF LayerInv
  <2> QED BY <2>2, <1>1, TreeEdge
<1>6. Path(n, UniqueChild') = Path(n, UniqueChild)
  BY <1>3, <1>4, <1>5, PathFact
<1> QED BY <1>6 DEF Chain

-----------------------------------------------------------------------------
(* The other threads *)

LastTwoKept == active_layer \in roots' /\ (active_layer >= 2 => active_layer - 1 \in roots')

LEMMA RecentFrame ==
    ASSUME LayerInv, KeepsSealed, LastTwoKept, NEW n, Recent(n)
    PROVE  Recent(n)'
<1>1. /\ n \in DOMAIN node /\ node[n].superseded_in_layer >= active_layer
      /\ n.layer \in Nat /\ active_layer \in Nat /\ node[n].superseded_in_layer \in Nat
      /\ n.layer <= active_layer /\ n.layer # 0
  BY NodeFact, LayerNumbers DEF Recent, LayerInv, BoundsOK, NodesOK
<1>2. n \in DOMAIN node'
  <2>1. CASE n.layer = active_layer
    BY <2>1, <1>1, NewNodes DEF KeepsSealed, LastTwoKept
  <2>2. CASE n.layer # active_layer
    <3>1. /\ active_layer >= 2 /\ n.layer <= active_layer - 1
          /\ active_layer - 1 < node[n].superseded_in_layer /\ active_layer - 1 # active_layer
      BY <2>2, <1>1
    <3>2. n \in Tree(active_layer - 1)
      BY <3>1, <1>1 DEF Tree
    <3> QED BY <3>1, <3>2 DEF KeepsSealed, LastTwoKept
  <2> QED BY <2>1, <2>2
<1> QED BY <1>1, <1>2 DEF Recent, KeepsSealed

LEMMA MarkFrame ==
    ASSUME LayerInv, KeepsSealed, LastTwoKept, NEW n, n \in Tree(active_layer - 1),
           active_layer >= 2
    PROVE  ChainSet(n)' = ChainSet(n)
<1>1. /\ active_layer - 1 \in roots' /\ active_layer - 1 < active_layer
  BY LayerNumbers DEF LayerInv, BoundsOK, LastTwoKept
<1>2. Path(n, UniqueChild') = Chain(n)
  BY <1>1, ChainKept
<1>3. Chain(n)' = Chain(n)
  BY <1>2 DEF Chain
<1> QED BY <1>3 DEF ChainSet

LEMMA CallFrame ==
    ASSUME LayerInv, KeepsSealed, LastTwoKept, NEW u \in Threads, pc[u] # "idle",
           pc'[u] = pc[u], arg'[u] = arg[u], cur'[u] = cur[u], exp'[u] = exp[u], old'[u] = old[u]
    PROVE  CallOK(u)'
<1>1. /\ CallOK(u) /\ active_layer' = active_layer /\ active_layer \in Nat
      /\ active_layer \in roots'
  BY LayerNumbers DEF LayerInv, CallsOK, BoundsOK, KeepsSealed, LastTwoKept
<1>2. cur[u] \in DOMAIN node' /\ cur[u].layer = active_layer
  BY <1>1, NewNodes DEF CallOK, KeepsSealed
<1>3. exp[u] # Null => Recent(exp[u])'
  <2> SUFFICES ASSUME exp[u] # Null PROVE Recent(exp[u])'
    OBVIOUS
  <2>1. PICK e : e = exp[u]
    OBVIOUS
  <2>2. Recent(e)
    BY <2>1, <1>1 DEF CallOK
  <2>3. Recent(e)'
    BY <2>2, RecentFrame
  <2> QED BY <2>1, <2>3 DEF Recent
<1>4. ASSUME pc[u] = "mark"
      PROVE  /\ active_layer >= 2
             /\ (old[u] \in Tree(active_layer - 1) /\ ChainSet(old[u]) \subseteq Tree(active_layer - 1))'
  <2>1. PICK o : o = old[u]
    OBVIOUS
  <2>2. /\ active_layer >= 2 /\ o \in Tree(active_layer - 1)
        /\ ChainSet(o) \subseteq Tree(active_layer - 1)
    BY <2>1, <1>1, <1>4 DEF CallOK
  <2>3. ChainSet(o)' = ChainSet(o)
    BY <2>2, MarkFrame
  <2>4. PICK y : y = active_layer - 1
    OBVIOUS
  <2>5. y \in roots' /\ y < active_layer
    BY <2>2, <2>4, <1>1 DEF LastTwoKept
  <2>6. Tree(y)' = Tree(y)
    BY <2>5, SealedTree
  <2>7. o \in Tree(y)' /\ ChainSet(o)' \subseteq Tree(y)'
    BY <2>2, <2>3, <2>4, <2>6
  <2>8. active_layer' - 1 = y /\ old'[u] = o
    BY <2>1, <2>4, <1>1
  <2> QED BY <2>2, <2>7, <2>8
<1>5. /\ arg[u].layer = active_layer /\ active_layer > 0
      /\ arg[u].key \in Keys /\ arg[u].value \in Value /\ arg[u].do_gc \in BOOLEAN
      /\ pc[u] = "at" /\ Matches(cur[u], arg[u].key) => is_leaf(cur[u])
      /\ pc[u] \in {"try", "mark"} => ~is_leaf(cur[u]) /\ Matches(cur[u], arg[u].key)
      /\ pc[u] = "mark" => (exp[u] # Null => exp[u].layer = active_layer)
  BY <1>1 DEF CallOK
<1> QED BY <1>1, <1>2, <1>3, <1>4, <1>5 DEF CallOK

\* What is pending after a step of thread t.
LEMMA PendingFrame ==
    ASSUME LayerInv, KeepsSealed, LastTwoKept, NEW t \in Threads,
           \A u \in Threads \ {t} : pc'[u] = pc[u] /\ old'[u] = old[u], NEW n
    PROVE  n \in Pending' <=>
              \/ \E u \in Threads \ {t} : pc[u] = "mark" /\ n \in ChainSet(old[u])
              \/ pc'[t] = "mark" /\ n \in ChainSet(old[t])'
<1>1. ASSUME NEW u \in Threads \ {t}, pc[u] = "mark"
      PROVE  ChainSet(old[u])' = ChainSet(old[u])
  <2>1. PICK o : o = old[u]
    OBVIOUS
  <2>2. active_layer >= 2 /\ o \in Tree(active_layer - 1)
    BY <2>1, <1>1 DEF LayerInv, CallsOK, CallOK
  <2>3. ChainSet(o)' = ChainSet(o)
    BY <2>2, MarkFrame
  <2> QED BY <2>1, <2>3
<1>2. n \in Pending' <=> \E u \in Threads : pc'[u] = "mark" /\ n \in ChainSet(old[u])'
  BY DEF Pending
<1> QED BY <1>1, <1>2

-----------------------------------------------------------------------------
(* A step of one thread *)

\* Thread t ends up in an allowed place, and the others stay where they are.
ThreadStep(t) ==
    /\ pc' \in [Threads -> {"idle", "at", "try", "mark"}]
    /\ arg' \in [Threads -> [layer : Layers \cup {NoLayer}, key : Key, value : Value, do_gc : BOOLEAN]]
    /\ cur' \in [Threads -> NodeName \cup {Null}]
    /\ exp' \in [Threads -> NodeName \cup {Null}]
    /\ old' \in [Threads -> NodeName \cup {Null}]
    /\ \A u \in Threads \ {t} : /\ pc'[u] = pc[u] /\ arg'[u] = arg[u] /\ cur'[u] = cur[u]
                                /\ exp'[u] = exp[u] /\ old'[u] = old[u]
    /\ IF pc'[t] = "idle" THEN arg'[t] = NoArg /\ cur'[t] = Null /\ exp'[t] = Null ELSE CallOK(t)'
    /\ old'[t] # Null <=> pc'[t] = "mark"

\* The layers after the step, the active one included.
ActiveShape ==
    /\ Root(active_layer) \in Tree(active_layer)
    /\ TrieShape(Tree(active_layer), Pfxs, Lens, Kids, Null)

LEMMA CallsFrame ==
    ASSUME LayerInv, KeepsSealed, LastTwoKept, NEW t \in Threads, ThreadStep(t)
    PROVE  CallsOK'
<1>1. ASSUME NEW u \in Threads
      PROVE  /\ IF pc'[u] = "idle" THEN arg'[u] = NoArg /\ cur'[u] = Null /\ exp'[u] = Null
                ELSE CallOK(u)'
             /\ old'[u] # Null <=> pc'[u] = "mark"
  <2>1. CASE u = t
    BY <2>1 DEF ThreadStep
  <2>2. CASE u # t
    <3>1. /\ pc'[u] = pc[u] /\ arg'[u] = arg[u] /\ cur'[u] = cur[u]
          /\ exp'[u] = exp[u] /\ old'[u] = old[u]
      BY <2>2 DEF ThreadStep
    <3>2. /\ pc[u] = "idle" => arg[u] = NoArg /\ cur[u] = Null /\ exp[u] = Null
          /\ old[u] # Null <=> pc[u] = "mark"
      BY DEF LayerInv, CallsOK
    <3>3. pc[u] # "idle" => CallOK(u)'
      BY <3>1, CallFrame
    <3> QED BY <3>1, <3>2, <3>3
  <2> QED BY <2>1, <2>2
<1> QED BY <1>1 DEF CallsOK, ThreadStep

LEMMA ZeroKept ==
    ASSUME LayerZero, DOMAIN node' \subseteq DOMAIN node
    PROVE  LayerZero'
BY DEF LayerZero

LEMMA StepInv ==
    ASSUME LayerInv, KeepsSealed, NEW t \in Threads, ThreadStep(t), roots' = roots,
           UNCHANGED <<freeable_lowerbound, sealed>>, failed' \in BOOLEAN,
           NodesOK', LayerZero', ActiveShape',
           kv' \in [Keys -> Value], Holds(active_layer, kv)'
    PROVE  LayerInv'
<1>1. /\ active_layer' = active_layer /\ active_layer \in Layers /\ active_layer \in Nat
      /\ roots \subseteq 0 .. active_layer /\ BoundsOK
  BY LayerNumbers DEF LayerInv, BoundsOK, KeepsSealed
<1>2. BoundsOK'
  BY <1>1 DEF BoundsOK, LastTwoStay, RecentKept
<1>3. LastTwoKept
  BY <1>1 DEF LastTwoKept, BoundsOK, LastTwoStay, RecentKept
<1>4. CallsOK'
  BY <1>3, CallsFrame
<1>5. LayersOK'
  <2> SUFFICES ASSUME NEW y \in roots'
               PROVE  /\ Root(y) \in Tree(y)'
                      /\ TrieShape(Tree(y), Pfxs, Lens, Kids, Null)'
    BY DEF LayersOK
  <2>1. CASE y < active_layer
    BY <2>1, SealedKept
  <2>2. CASE ~(y < active_layer)
    <3>1. y = active_layer'
      BY <2>2, <1>1
    <3> QED BY <3>1 DEF ActiveShape
  <2> QED BY <2>1, <2>2
<1>6. ContentsOK'
  <2>1. ASSUME NEW y \in roots', y < active_layer'
        PROVE  Holds(y, sealed[y])'
    <3>1. PICK m : m = sealed[y]
      OBVIOUS
    <3>2. Holds(y, m)
      BY <3>1, <2>1, <1>1 DEF LayerInv, ContentsOK
    <3>3. Holds(y, m)'
      BY <3>2, <2>1, <1>1, SealedHolds
    <3> QED BY <3>1, <3>3
  <2>2. sealed' \in [Layers -> [Keys -> Value]]
    BY DEF LayerInv, ContentsOK
  <2> QED BY <2>1, <2>2 DEF ContentsOK
<1> QED BY <1>2, <1>4, <1>5, <1>6 DEF LayerInv

LEMMA ReturnStep ==
    ASSUME LayerInv, NEW t \in Threads, Return(t)
    PROVE  ThreadStep(t)
<1>1. CallsOK
  BY DEF LayerInv
<1>2. NoArg \in [layer : Layers \cup {NoLayer}, key : Key, value : Value, do_gc : BOOLEAN]
  BY BranchAssumption, ValueAssumption DEF NoArg, ZeroKey, Key
<1>3. /\ pc' \in [Threads -> {"idle", "at", "try", "mark"}]
      /\ arg' \in [Threads -> [layer : Layers \cup {NoLayer}, key : Key, value : Value, do_gc : BOOLEAN]]
      /\ cur' \in [Threads -> NodeName \cup {Null}]
      /\ exp' \in [Threads -> NodeName \cup {Null}]
      /\ old' \in [Threads -> NodeName \cup {Null}]
  BY <1>1, <1>2 DEF Return, CallsOK
<1>4. /\ pc'[t] = "idle" /\ arg'[t] = NoArg /\ cur'[t] = Null /\ exp'[t] = Null /\ old'[t] = Null
      /\ \A u \in Threads \ {t} : /\ pc'[u] = pc[u] /\ arg'[u] = arg[u] /\ cur'[u] = cur[u]
                                  /\ exp'[u] = exp[u] /\ old'[u] = old[u]
  BY <1>1 DEF Return, CallsOK
<1> QED BY <1>3, <1>4 DEF ThreadStep

\* A call with arguments a goes to node n of the active layer.
CallArgs(a) ==
    /\ a \in [layer : Layers \cup {NoLayer}, key : Key, value : Value, do_gc : BOOLEAN]
    /\ a.key \in Keys
    /\ a.layer = active_layer /\ active_layer > 0

LEMMA GoToStep ==
    ASSUME LayerInv, NEW t \in Threads, NEW n, NEW a, GoTo(t, n, a, node'),
           CallArgs(a), active_layer' = active_layer, NodesOK', LayerZero', ActiveShape',
           n \in Tree(active_layer)', n.layer = active_layer
    PROVE  ThreadStep(t)
<1>1. CallsOK /\ active_layer \in Nat
  BY LayerNumbers DEF LayerInv, BoundsOK
<1>2. /\ a \in [layer : Layers \cup {NoLayer}, key : Key, value : Value, do_gc : BOOLEAN]
      /\ a.key \in Keys /\ a.key \in Key /\ a.value \in Value /\ a.do_gc \in BOOLEAN
      /\ a.layer = active_layer /\ active_layer > 0
  BY DEF CallArgs
<1>3. n \in DOMAIN node' /\ Tree(active_layer)' \subseteq DOMAIN node'
  BY DEF Tree
<1>4. n \in NodeName /\ node'[n] \in NodeBody
  BY <1>3 DEF NodesOK
<1>5. n.pfx \in Key /\ n.len \in PrefixLen /\ node'[n].children \in [Branch -> NodeName \cup {Null}]
  BY <1>4 DEF NodeName, NodeBody
<1> DEFINE reads == InPlace(n, a) /\ ~is_leaf(n)
<1>0. PICK c : c = node'[n].children[Bits(n, a.key)]
  OBVIOUS
<1>6. ASSUME reads
      PROVE  c \in NodeName \cup {Null} /\ (c # Null => Recent(c)')
  <2>1. Bits(n, a.key) \in Branch
    BY <1>2, <1>5, <1>6, BranchBitsType, KeyLenAssumption DEF Bits, is_leaf, PrefixLen
  <2>2. c \in NodeName \cup {Null}
    BY <2>1, <1>5, <1>0
  <2>3. ASSUME c # Null PROVE Recent(c)'
    <3>1. Kids'[n] = node'[n].children
      BY <1>3 DEF Kids
    <3>2. c \in Tree(active_layer)' /\ Lens'[n] < Lens'[c]
      BY <2>1, <2>3, <3>1, <1>0 DEF ActiveShape, TrieShape, ShapeEdges
    <3>3. c \in DOMAIN node' /\ active_layer' < node'[c].superseded_in_layer
      BY <3>2 DEF Tree
    <3>4. node'[c].superseded_in_layer \in Nat /\ c.len \in Nat /\ n.len \in Nat
      BY <3>3, <1>5, LayerNumbers DEF NodesOK, NodeBody, NodeName, PrefixLen
    <3>5. Lens'[n] = n.len /\ Lens'[c] = c.len
      BY <3>3, <1>3 DEF Lens
    <3>6. c.layer # 0
      BY <3>2, <3>3, <3>4, <3>5 DEF LayerZero
    <3> QED BY <3>3, <3>4, <3>6, <1>1 DEF Recent
  <2> QED BY <2>2, <2>3
<1>7. \E q \in {"at", "try"}, e \in NodeName \cup {Null} :
         /\ pc'  = [pc EXCEPT ![t] = q]
         /\ exp' = [exp EXCEPT ![t] = e]
         /\ e # Null => Recent(e)'
         /\ q = "try" <=> reads
  <2>1. CASE reads
    BY <2>1, <1>6, <1>0 DEF GoTo
  <2>2. CASE ~reads
    BY <2>2 DEF GoTo
  <2> QED BY <2>1, <2>2
<1>8. PICK q \in {"at", "try"}, e \in NodeName \cup {Null} :
         /\ pc'  = [pc EXCEPT ![t] = q]
         /\ exp' = [exp EXCEPT ![t] = e]
         /\ e # Null => Recent(e)'
         /\ q = "try" <=> reads
  BY <1>7
<1>9. /\ arg' = [arg EXCEPT ![t] = a] /\ cur' = [cur EXCEPT ![t] = n]
      /\ old' = [old EXCEPT ![t] = Null]
  BY DEF GoTo
<1>10. /\ pc' \in [Threads -> {"idle", "at", "try", "mark"}]
       /\ arg' \in [Threads -> [layer : Layers \cup {NoLayer}, key : Key, value : Value, do_gc : BOOLEAN]]
       /\ cur' \in [Threads -> NodeName \cup {Null}]
       /\ exp' \in [Threads -> NodeName \cup {Null}]
       /\ old' \in [Threads -> NodeName \cup {Null}]
  BY <1>1, <1>2, <1>4, <1>8, <1>9 DEF CallsOK
<1>11. /\ pc'[t] = q /\ arg'[t] = a /\ cur'[t] = n /\ exp'[t] = e /\ old'[t] = Null
       /\ \A u \in Threads \ {t} : /\ pc'[u] = pc[u] /\ arg'[u] = arg[u] /\ cur'[u] = cur[u]
                                   /\ exp'[u] = exp[u] /\ old'[u] = old[u]
  BY <1>1, <1>8, <1>9 DEF CallsOK
<1>12. InPlace(n, a) <=> Matches(n, a.key)
  BY <1>2 DEF InPlace
<1>13. exp'[t] # Null => Recent(exp[t])'
  BY <1>8, <1>11
<1>14. CallOK(t)'
  <2>1. /\ pc'[t] # "mark"
        /\ pc'[t] = "at" /\ Matches(cur'[t], arg'[t].key) => is_leaf(cur'[t])
        /\ pc'[t] \in {"try", "mark"} => ~is_leaf(cur'[t]) /\ Matches(cur'[t], arg'[t].key)
    BY <1>8, <1>11, <1>12
  <2>2. /\ arg'[t].layer = active_layer' /\ active_layer' > 0
        /\ arg'[t].key \in Keys /\ arg'[t].value \in Value /\ arg'[t].do_gc \in BOOLEAN
        /\ cur'[t] \in DOMAIN node' /\ cur'[t].layer = active_layer'
    BY <1>2, <1>3, <1>11
  <2> QED BY <2>1, <2>2, <1>13 DEF CallOK
<1> QED BY <1>8, <1>10, <1>11, <1>14 DEF ThreadStep

-----------------------------------------------------------------------------
(* Steps that only read *)

LEMMA ReadStep ==
    ASSUME LayerInv, NEW t \in Threads, UNCHANGED trie_vars,
           pc[t] # "mark", pc'[t] # "mark",
           \A u \in Threads \ {t} : pc'[u] = pc[u] /\ old'[u] = old[u]
    PROVE  /\ KeepsSealed /\ NodesOK' /\ LayerZero' /\ ActiveShape'
           /\ Tree(active_layer)' = Tree(active_layer)
           /\ \A m : Holds(active_layer, m) => Holds(active_layer, m)'
<1>1. /\ node' = node /\ roots' = roots /\ active_layer' = active_layer
      /\ active_layer \in roots /\ BoundsOK /\ active_layer \in Nat
  BY LayerNumbers DEF trie_vars, LayerInv, BoundsOK, LastTwoStay, RecentKept
<1>2. KeepsSealed
  BY <1>1 DEF KeepsSealed, Tree
<1>3. LastTwoKept
  BY <1>1 DEF LastTwoKept, BoundsOK, LastTwoStay, RecentKept
<1>4. NodesOK'
  <2>1. \A n : ChildrenOf(n)' = ChildrenOf(n)
    BY <1>1 DEF ChildrenOf
  <2> QED BY <2>1, <1>1 DEF LayerInv, NodesOK
<1>5. \A n : n \in Pending' <=> n \in Pending
  <2> SUFFICES ASSUME NEW n PROVE n \in Pending' <=> n \in Pending
    OBVIOUS
  <2>1. n \in Pending' <=> \E u \in Threads \ {t} : pc[u] = "mark" /\ n \in ChainSet(old[u])
    BY <1>2, <1>3, PendingFrame
  <2> QED BY <2>1 DEF Pending
<1>6. Tree(active_layer)' = Tree(active_layer)
  BY <1>1, <1>5 DEF Tree
<1>7. ActiveShape'
  <2>1. Pfxs' = Pfxs /\ Lens' = Lens /\ Kids' = Kids
    BY <1>1 DEF Pfxs, Lens, Kids
  <2>2. ActiveShape
    BY <1>1 DEF LayerInv, LayersOK, ActiveShape
  <2> QED BY <2>1, <2>2, <1>1, <1>6 DEF ActiveShape
<1>8. \A m : Holds(active_layer, m) => Holds(active_layer, m)'
  BY <1>1, <1>6 DEF Holds
<1>9. LayerZero'
  BY <1>1 DEF LayerInv, LayerZero
<1> QED BY <1>2, <1>4, <1>6, <1>7, <1>8, <1>9

LEMMA ReadInv ==
    ASSUME LayerInv, NEW t \in Threads, ThreadStep(t), pc[t] # "mark", pc'[t] # "mark",
           UNCHANGED <<trie_vars, kv, sealed>>, failed' \in BOOLEAN
    PROVE  LayerInv'
<1>1. \A u \in Threads \ {t} : pc'[u] = pc[u] /\ old'[u] = old[u]
  BY DEF ThreadStep
<1>2. UNCHANGED trie_vars
  OBVIOUS
<1>3. /\ KeepsSealed /\ NodesOK' /\ LayerZero' /\ ActiveShape'
      /\ \A m : Holds(active_layer, m) => Holds(active_layer, m)'
  BY <1>1, <1>2, ReadStep
<1>4. Holds(active_layer, kv)'
  <2>1. PICK m : m = kv
    OBVIOUS
  <2>2. Holds(active_layer, m)'
    BY <2>1, <1>3 DEF LayerInv, ContentsOK
  <2> QED BY <2>1, <2>2
<1>5. kv' \in [Keys -> Value]
  BY DEF LayerInv, ContentsOK
<1>6. roots' = roots /\ UNCHANGED <<freeable_lowerbound, sealed>>
  BY DEF trie_vars
<1> QED BY <1>3, <1>4, <1>5, <1>6, StepInv

\* Every thread but t keeps its place.
LEMMA GoToOthers ==
    ASSUME CallsOK, NEW t \in Threads, NEW n, NEW a, NEW mem, GoTo(t, n, a, mem)
    PROVE  /\ pc'[t] \in {"at", "try"}
           /\ \A u \in Threads \ {t} : pc'[u] = pc[u] /\ old'[u] = old[u]
<1>1. pc'[t] = IF InPlace(n, a) /\ ~is_leaf(n) THEN "try" ELSE "at"
  BY DEF GoTo, CallsOK
<1>2. \A u \in Threads \ {t} : pc'[u] = pc[u] /\ old'[u] = old[u]
  BY DEF GoTo, CallsOK
<1> QED BY <1>1, <1>2

LEMMA GoToRead ==
    ASSUME LayerInv, NEW t \in Threads, NEW n, NEW a, GoTo(t, n, a, node), CallArgs(a),
           UNCHANGED <<trie_vars, kv, sealed>>, failed' \in BOOLEAN, pc[t] # "mark",
           n \in Tree(active_layer), n.layer = active_layer
    PROVE  LayerInv'
<1>1. UNCHANGED trie_vars /\ node' = node /\ active_layer' = active_layer
  BY DEF trie_vars
<1>2. CallsOK
  BY DEF LayerInv
<1>3. /\ pc'[t] # "mark"
      /\ \A u \in Threads \ {t} : pc'[u] = pc[u] /\ old'[u] = old[u]
  BY <1>2, GoToOthers
<1>4. NodesOK' /\ LayerZero' /\ ActiveShape' /\ Tree(active_layer)' = Tree(active_layer)
  BY <1>1, <1>3, ReadStep
<1>5. GoTo(t, n, a, node')
  BY <1>1
<1>6. n \in Tree(active_layer)'
  BY <1>4
<1>7. ThreadStep(t)
  BY <1>1, <1>4, <1>5, <1>6, GoToStep
<1> QED BY <1>3, <1>7, ReadInv

LEMMA StartInsertInv ==
    ASSUME LayerInv, NEW t \in Threads, NEW k \in Keys, NEW v \in Value, NEW gc \in BOOLEAN,
           StartInsert(t, k, v, gc), ~failed
    PROVE  LayerInv'
<1> DEFINE a == [layer |-> active_layer, key |-> k, value |-> v, do_gc |-> gc]
<1>1. /\ active_layer \in roots /\ active_layer > 0 /\ active_layer \in Layers
      /\ pc[t] = "idle" /\ UNCHANGED <<trie_vars, kv, sealed>> /\ failed' = failed
  BY DEF StartInsert, LayerInv, BoundsOK
<1>2. PICK n : n = Root(active_layer)
  OBVIOUS
<1>3. n \in Tree(active_layer) /\ n.layer = active_layer
  BY <1>1, <1>2, RootFact DEF LayerInv, LayersOK
<1>4. CallArgs(a)
  BY <1>1, KeysAssumption DEF CallArgs
<1>5. PICK b : b = a
  OBVIOUS
<1>6. GoTo(t, n, b, node)
  BY <1>2, <1>5 DEF StartInsert
<1>7. CallArgs(b)
  BY <1>4, <1>5
<1> HIDE DEF a
<1>8. pc[t] # "mark" /\ failed' \in BOOLEAN
  BY <1>1 DEF LayerInv, BoundsOK
<1> QED BY <1>1, <1>3, <1>6, <1>7, <1>8, GoToRead

LEMMA AssertFailsInv ==
    ASSUME LayerInv, NEW t \in Threads, AssertFails(t)
    PROVE  LayerInv'
<1>1. CallsOK /\ pc[t] = "at"
  BY DEF LayerInv, AssertFails
<1>2. /\ UNCHANGED <<trie_vars, kv, sealed>> /\ UNCHANGED <<pc, arg, cur, exp, old>>
      /\ failed' \in BOOLEAN /\ UNCHANGED trie_vars
  BY DEF AssertFails, ghosts, thread_vars
<1>3. KeepsSealed
  BY <1>1, <1>2, ReadStep
<1>4. LastTwoKept
  BY <1>2, LayerNumbers DEF LayerInv, BoundsOK, LastTwoStay, RecentKept, LastTwoKept, trie_vars
<1>5. CallOK(t)'
  BY <1>1, <1>2, <1>3, <1>4, CallFrame
<1>6. ThreadStep(t)
  BY <1>1, <1>2, <1>5 DEF ThreadStep, CallsOK
<1> QED BY <1>1, <1>2, <1>6, ReadInv

LEMMA GcReturnsInv ==
    ASSUME LayerInv, NEW t \in Threads, GcReturns(t), ~failed
    PROVE  LayerInv'
<1>1. pc[t] # "mark" /\ UNCHANGED <<trie_vars, kv, sealed>> /\ failed' \in BOOLEAN /\ Return(t)
  BY DEF GcReturns, ghosts, LayerInv, BoundsOK
<1>2. ThreadStep(t)
  BY <1>1, ReturnStep
<1>3. pc'[t] # "mark"
  BY <1>1 DEF Return, LayerInv, CallsOK
<1> QED BY <1>1, <1>2, <1>3, ReadInv

\* The arguments of a call that is under way.
LEMMA ArgsFact ==
    ASSUME LayerInv, NEW t \in Threads, pc[t] # "idle"
    PROVE  CallArgs(arg[t])
BY DEF LayerInv, CallsOK, CallOK, CallArgs

LEMMA InsertDescendInv ==
    ASSUME LayerInv, NEW t \in Threads, InsertDescend(t), ~failed
    PROVE  LayerInv'
<1>1. /\ pc[t] = "try" /\ UNCHANGED <<trie_vars, kv, sealed>> /\ failed' \in BOOLEAN
      /\ GoTo(t, exp[t], arg[t], node)
      /\ exp[t] # Null /\ exp[t].layer = arg[t].layer
  BY DEF InsertDescend, ghosts, LayerInv, BoundsOK, Below, OldLayer
<1>2. PICK n, a : n = exp[t] /\ a = arg[t]
  OBVIOUS
<1>3. CallArgs(a)
  BY <1>1, <1>2, ArgsFact
<1>4. n \in DOMAIN node /\ n.layer = active_layer
  BY <1>1, <1>2, <1>3 DEF LayerInv, CallsOK, CallOK, Recent, CallArgs
<1>5. n \in Tree(active_layer)
  BY <1>4, NewNodes
<1>6. GoTo(t, n, a, node)
  BY <1>1, <1>2
<1> QED BY <1>1, <1>3, <1>4, <1>5, <1>6, GoToRead

LEMMA InsertRetryInv ==
    ASSUME LayerInv, NEW t \in Threads, InsertRetry(t), ~failed
    PROVE  LayerInv'
<1>1. /\ pc[t] = "try" /\ UNCHANGED <<trie_vars, kv, sealed>> /\ failed' \in BOOLEAN
      /\ UNCHANGED <<pc, arg, cur, old>> /\ UNCHANGED trie_vars
      /\ node' = node /\ active_layer' = active_layer
  BY DEF InsertRetry, ghosts, LayerInv, BoundsOK, trie_vars
<1>2. PICK c : c = node[cur[t]].children[Bits(cur[t], arg[t].key)]
  OBVIOUS
<1>3. exp' = [exp EXCEPT ![t] = c]
  BY <1>2 DEF InsertRetry
<1>4. /\ cur[t] \in Tree(active_layer) /\ active_layer \in roots
      /\ Bits(cur[t], arg[t].key) \in Branch /\ cur[t] \in DOMAIN node
  BY <1>1, SlotFact
<1>5. /\ CallsOK /\ CallOK(t) /\ NodesOK /\ active_layer \in Nat
  BY <1>1, LayerNumbers DEF LayerInv, CallsOK, BoundsOK
<1>6. c \in NodeName \cup {Null}
  BY <1>2, <1>4, <1>5, NodeFact
<1>7. c # Null => Recent(c)
  <2> SUFFICES ASSUME c # Null PROVE Recent(c)
    OBVIOUS
  <2>1. c \in Tree(active_layer) /\ cur[t].len < c.len
    BY <1>2, <1>4, TreeEdge
  <2>2. c \in DOMAIN node /\ active_layer < node[c].superseded_in_layer
    BY <2>1 DEF Tree
  <2>3. /\ node[c].superseded_in_layer \in Nat /\ c.len \in Nat /\ cur[t].len \in Nat
    BY <2>2, <1>4, <1>5, NodeFact DEF PrefixLen
  <2>4. c.layer # 0
    BY <2>1, <2>2, <2>3 DEF LayerInv, LayerZero
  <2> QED BY <2>2, <2>3, <2>4, <1>5 DEF Recent
<1>8. c # Null => Recent(c)'
  BY <1>1, <1>7 DEF Recent
<1>9. exp'[t] = c /\ exp' \in [Threads -> NodeName \cup {Null}]
      /\ \A u \in Threads \ {t} : exp'[u] = exp[u]
  BY <1>3, <1>5, <1>6 DEF CallsOK
<1>10. CallOK(t)'
  <2>1. exp'[t] # Null => Recent(exp[t])'
    BY <1>8, <1>9
  <2> QED BY <2>1, <1>1, <1>5 DEF CallOK
<1>11. ThreadStep(t)
  BY <1>1, <1>5, <1>9, <1>10 DEF ThreadStep, CallsOK
<1> QED BY <1>1, <1>11, ReadInv

-----------------------------------------------------------------------------
(* Changing a slot *)

\* The children in slots f.
KidsIn(f) == {f[e] : e \in Branch} \ {Null}

\* One slot changes from f[b] to new.
LEMMA SlotCount ==
    ASSUME NEW f \in [Branch -> NodeName \cup {Null}], NEW g \in [Branch -> NodeName \cup {Null}],
           NEW b \in Branch, NEW new,
           \A e \in Branch : g[e] = IF e = b THEN new ELSE f[e],
           \A d, e \in Branch : f[d] = f[e] /\ f[d] # Null => d = e,
           \A e \in Branch : new # Null => new # f[e]
    PROVE  Cardinality(KidsIn(g))
             = Cardinality(KidsIn(f))
               + ((IF f[b] = Null THEN 1 ELSE 0) - (IF new = Null THEN 1 ELSE 0))
<1> DEFINE S == {f[e] : e \in Branch} \ {Null}
           R == {g[e] : e \in Branch} \ {Null}
<1>1. IsFiniteSet(S) /\ Cardinality(S) \in Nat
  BY FewChildren, FS_CardinalityType
<1>2. R = (S \ {f[b]}) \cup ({new} \ {Null})
  OBVIOUS
<1>3. f[b] = Null => S \ {f[b]} = S
  OBVIOUS
<1>4. f[b] # Null => f[b] \in S
  OBVIOUS
<1>5. new # Null => new \notin S \ {f[b]}
  OBVIOUS
<1> HIDE DEF S, R
<1>6. /\ IsFiniteSet(S \ {f[b]})
      /\ Cardinality(S \ {f[b]}) = Cardinality(S) - (IF f[b] = Null THEN 0 ELSE 1)
  BY <1>1, <1>3, <1>4, FS_RemoveElement
<1> DEFINE r == Cardinality(S)
<1>7. ASSUME new = Null
      PROVE  Cardinality(R) = Cardinality(S \ {f[b]})
  <2>1. R = S \ {f[b]}
    BY <1>2, <1>7
  <2> QED BY <2>1
<1>8. ASSUME new # Null
      PROVE  Cardinality(R) = Cardinality(S \ {f[b]}) + 1
  <2>1. R = (S \ {f[b]}) \cup {new}
    BY <1>2, <1>8
  <2> QED BY <2>1, <1>5, <1>6, <1>8, FS_AddElement
<1>9. Cardinality(R) = r + ((IF f[b] = Null THEN 1 ELSE 0) - (IF new = Null THEN 1 ELSE 0))
  <2> HIDE DEF r
  <2>1. /\ r \in Nat
        /\ Cardinality(S \ {f[b]}) = r - (IF f[b] = Null THEN 0 ELSE 1)
    BY <1>1, <1>6 DEF r
  <2> QED BY <2>1, <1>7, <1>8
<1> QED BY <1>9 DEF R, S, KidsIn

\* What a node that is published must be like.
GoodFields(new, fields) ==
    /\ new \in NodeName /\ new \notin DOMAIN node /\ new.layer = active_layer
    /\ new.pfx = Truncate(new.pfx, new.len)
    /\ fields.children \in [Branch -> NodeName \cup {Null}]
    /\ fields.value \in Value /\ fields.superseded_in_layer = Never
    /\ fields = Fields(fields.children, fields.active_children, fields.value, Never)
    /\ is_leaf(new) => fields.children = NoKids
    /\ fields.active_children = Cardinality({fields.children[e] : e \in Branch} \ {Null})
    /\ \A e \in Branch : fields.children[e] # Null => fields.children[e].layer <= active_layer

LEMMA FieldsFact ==
    ASSUME NEW kids, NEW cnt, NEW val, NEW sup
    PROVE  /\ Fields(kids, cnt, val, sup).children = kids
           /\ Fields(kids, cnt, val, sup).active_children = cnt
           /\ Fields(kids, cnt, val, sup).value = val
           /\ Fields(kids, cnt, val, sup).superseded_in_layer = sup
BY DEF Fields

\* What a successful compare_exchange in slot b of node n does.
Published(new, fields, n, b) ==
    /\ roots' = roots /\ active_layer' = active_layer
    /\ UNCHANGED <<freeable_lowerbound, kv, sealed, failed>>
    /\ DOMAIN node' = DOMAIN node \cup ({new} \ {Null})
    /\ new # Null => node'[new] = fields
    /\ \A m \in DOMAIN node : m # n => node'[m] = node[m]
    /\ node'[n].children \in [Branch -> NodeName \cup {Null}]
    /\ \A e \in Branch : node'[n].children[e] = IF e = b THEN new ELSE node[n].children[e]
    /\ node'[n].active_children = node[n].active_children
         + ((IF node[n].children[b] = Null THEN 1 ELSE 0) - (IF new = Null THEN 1 ELSE 0))
    /\ node'[n].value = node[n].value
    /\ node'[n].superseded_in_layer = node[n].superseded_in_layer
    /\ node'[n] \in [children : [Branch -> NodeName \cup {Null}], active_children : Int,
                     value : Value, superseded_in_layer : 1 .. MaxLayer \cup {Never}]

LEMMA PublishFact ==
    ASSUME LayerInv, NEW t \in Threads, pc[t] = "try", NEW new, NEW fields,
           Publish(t, new, fields), new # Null => GoodFields(new, fields)
    PROVE  /\ exp[t] = node[cur[t]].children[Bits(cur[t], arg[t].key)]
           /\ Published(new, fields, cur[t], Bits(cur[t], arg[t].key))
<1>0. PICK n, b : n = cur[t] /\ b = Bits(cur[t], arg[t].key)
  OBVIOUS
<1>1. n \in DOMAIN node /\ b \in Branch /\ node[n] \in NodeBody
  BY <1>0, SlotFact DEF LayerInv, NodesOK
<1> DEFINE change == (IF exp[t] = Null THEN 1 ELSE 0) - (IF new = Null THEN 1 ELSE 0)
           linked == [node EXCEPT ![n] =
                         Fields([@.children EXCEPT ![b] = new], @.active_children + change,
                                @.value, @.superseded_in_layer)]
<1>2. /\ exp[t] = node[n].children[b]
      /\ node' = IF new = Null THEN linked ELSE Put(linked, new, fields)
      /\ roots' = roots /\ active_layer' = active_layer
      /\ UNCHANGED <<freeable_lowerbound, kv, sealed, failed>>
  BY <1>0 DEF Publish, SlotUnchanged, ghosts
<1>3. new \in NodeName \cup {Null}
  BY DEF GoodFields
<1>4. change \in Int
  OBVIOUS
<1> HIDE DEF change
<1>5. /\ DOMAIN linked = DOMAIN node
      /\ \A m \in DOMAIN node : m # n => linked[m] = node[m]
      /\ linked[n] = Fields([node[n].children EXCEPT ![b] = new],
                            node[n].active_children + change, node[n].value,
                            node[n].superseded_in_layer)
  BY <1>1
<1>6. /\ linked[n].children = [node[n].children EXCEPT ![b] = new]
      /\ linked[n].active_children = node[n].active_children + change
      /\ linked[n].value = node[n].value
      /\ linked[n].superseded_in_layer = node[n].superseded_in_layer
  BY <1>5, FieldsFact
<1>7. linked[n] \in [children : [Branch -> NodeName \cup {Null}], active_children : Int,
                     value : Value, superseded_in_layer : 1 .. MaxLayer \cup {Never}]
  BY <1>1, <1>3, <1>4, <1>5 DEF NodeBody, Fields
<1>8. /\ node[n].children \in [Branch -> NodeName \cup {Null}]
      /\ linked[n].children \in [Branch -> NodeName \cup {Null}]
      /\ \A e \in Branch : linked[n].children[e] = IF e = b THEN new ELSE node[n].children[e]
  BY <1>1, <1>3, <1>6 DEF NodeBody
<1> HIDE DEF linked
<1>9. ASSUME new # Null
      PROVE  /\ DOMAIN node' = DOMAIN node \cup {new}
             /\ node'[new] = fields
             /\ \A m \in DOMAIN node : node'[m] = linked[m]
  <2>1. new \notin DOMAIN node
    BY <1>9 DEF GoodFields
  <2> QED BY <1>2, <1>5, <1>9, <2>1 DEF Put
<1>10. new = Null => node' = linked
  BY <1>2
<1>11. /\ DOMAIN node' = DOMAIN node \cup ({new} \ {Null})
       /\ new # Null => node'[new] = fields
       /\ \A m \in DOMAIN node : m # n => node'[m] = node[m]
       /\ node'[n] = linked[n]
  BY <1>1, <1>5, <1>9, <1>10
<1>12. Published(new, fields, n, b)
  BY <1>2, <1>6, <1>7, <1>8, <1>11 DEF Published, change
<1> QED BY <1>0, <1>2, <1>12

\* The nodes are in order after it, and the sealed layers untouched.
LEMMA PublishNodes ==
    ASSUME LayerInv, NEW t \in Threads, pc[t] = "try", NEW new, NEW fields,
           Publish(t, new, fields), new # Null => GoodFields(new, fields)
    PROVE  KeepsSealed /\ LastTwoKept /\ NodesOK'
<1>1. PICK n, b : n = cur[t] /\ b = Bits(cur[t], arg[t].key)
  OBVIOUS
<1>0. Published(new, fields, n, b)
  BY <1>1, PublishFact
<1>2. /\ roots' = roots /\ active_layer' = active_layer
      /\ DOMAIN node' = DOMAIN node \cup ({new} \ {Null})
      /\ new # Null => node'[new] = fields
      /\ \A m \in DOMAIN node : m # n => node'[m] = node[m]
      /\ node'[n].children \in [Branch -> NodeName \cup {Null}]
      /\ \A e \in Branch : node'[n].children[e] = IF e = b THEN new ELSE node[n].children[e]
      /\ node'[n].active_children = node[n].active_children
           + ((IF node[n].children[b] = Null THEN 1 ELSE 0) - (IF new = Null THEN 1 ELSE 0))
      /\ node'[n].value = node[n].value
      /\ node'[n].superseded_in_layer = node[n].superseded_in_layer
      /\ node'[n] \in [children : [Branch -> NodeName \cup {Null}], active_children : Int,
                       value : Value, superseded_in_layer : 1 .. MaxLayer \cup {Never}]
  BY <1>0 DEF Published
<1>3. /\ n \in Tree(active_layer) /\ active_layer \in roots /\ active_layer \in Layers
      /\ n \in DOMAIN node /\ n.layer = active_layer /\ n.len < KeyLen /\ b \in Branch
  BY <1>1, SlotFact
<1>4. NodesOK /\ BoundsOK /\ active_layer \in Nat /\ active_layer < Never
  BY LayerNumbers DEF LayerInv, BoundsOK
<1>5. new # Null => /\ new \in NodeName /\ new \notin DOMAIN node /\ new.layer = active_layer
                    /\ fields.superseded_in_layer = Never /\ new # n
  BY <1>3 DEF GoodFields
<1>6. KeepsSealed
  <2>1. \A y \in roots' : Tree(y) \subseteq DOMAIN node'
    BY <1>2 DEF Tree
  <2>2. \A m \in DOMAIN node' \ DOMAIN node : m.layer = active_layer
    BY <1>2, <1>5
  <2>3. \A m \in DOMAIN node : m.layer < active_layer => m # n
    BY <1>3, <1>4
  <2> QED BY <2>1, <2>2, <2>3, <1>2 DEF KeepsSealed
<1>7. LastTwoKept
  BY <1>2, <1>4 DEF LastTwoKept, BoundsOK, LastTwoStay, RecentKept
<1>8. /\ ~is_leaf(n) /\ ChildrenOf(n) = {node[n].children[e] : e \in Branch} \ {Null}
      /\ ChildrenOf(n)' = {node'[n].children[e] : e \in Branch} \ {Null}
  BY <1>3, KeyLenAssumption, NodeFact, <1>4 DEF is_leaf, ChildrenOf, PrefixLen
<1>9. /\ node[n].children \in [Branch -> NodeName \cup {Null}]
      /\ node[n].active_children = Cardinality(ChildrenOf(n))
      /\ node[n].active_children \in Nat
  BY <1>3, <1>4, NodeFact DEF NodesOK
<1>10. node'[n].active_children = Cardinality(ChildrenOf(n)') /\ Cardinality(ChildrenOf(n)') \in Nat
  <2>1. PICK f, g : f = node[n].children /\ g = node'[n].children
    OBVIOUS
  <2>2. \A d, e \in Branch : f[d] = f[e] /\ f[d] # Null => d = e
    BY <2>1, <1>3, TreeEdge
  <2>3. \A e \in Branch : new # Null => new # f[e]
    BY <2>1, <1>3, <1>5, ChildrenKept, TreeEdge
  <2>4. /\ f \in [Branch -> NodeName \cup {Null}] /\ g \in [Branch -> NodeName \cup {Null}]
        /\ \A e \in Branch : g[e] = IF e = b THEN new ELSE f[e]
    BY <2>1, <1>2, <1>9
  <2>5. Cardinality(KidsIn(g)) = Cardinality(KidsIn(f))
               + ((IF f[b] = Null THEN 1 ELSE 0) - (IF new = Null THEN 1 ELSE 0))
    BY <2>2, <2>3, <2>4, <1>3, SlotCount
  <2>6. Cardinality(KidsIn(g)) \in Nat
    BY <2>4, FewChildren, FS_CardinalityType DEF KidsIn
  <2>7. ChildrenOf(n) = KidsIn(f) /\ ChildrenOf(n)' = KidsIn(g)
    BY <2>1, <1>8 DEF KidsIn
  <2> QED BY <2>1, <2>5, <2>6, <2>7, <1>2, <1>9
<1>11. DOMAIN node' \subseteq NodeName
  BY <1>2, <1>4, <1>5 DEF NodesOK
<1>12. ASSUME NEW m \in DOMAIN node'
       PROVE  /\ node'[m] \in NodeBody /\ m.pfx = Truncate(m.pfx, m.len)
              /\ is_leaf(m) => node'[m].children = NoKids
              /\ m.layer <= active_layer'
              /\ m.layer < node'[m].superseded_in_layer
              /\ \/ node'[m].superseded_in_layer = Never
                 \/ /\ node'[m].superseded_in_layer <= active_layer'
                    /\ node'[m].superseded_in_layer - 1 \in roots'
              /\ node'[m].active_children = Cardinality(ChildrenOf(m)')
              /\ \A c \in ChildrenOf(m)' : c.layer <= m.layer
  <2>1. CASE m = new /\ m # Null
    <3>1. /\ node'[m] = fields /\ GoodFields(m, fields)
      BY <2>1, <1>2
    <3>2. \A c \in ChildrenOf(m)' : c.layer <= m.layer
      BY <3>1 DEF ChildrenOf, GoodFields
    <3>3. fields.active_children = Cardinality(ChildrenOf(m)') /\ fields.active_children \in Nat
      <4>1. CASE is_leaf(m)
        <5>1. {fields.children[e] : e \in Branch} \ {Null} = {}
          BY <3>1, <4>1 DEF GoodFields, NoKids
        <5>2. ChildrenOf(m)' = {}
          BY <4>1 DEF ChildrenOf
        <5>3. fields.active_children = Cardinality({fields.children[e] : e \in Branch} \ {Null})
          BY <3>1 DEF GoodFields
        <5>4. fields.active_children = 0
          BY <5>1, <5>3, FS_EmptySet
        <5> QED BY <5>2, <5>4, FS_EmptySet
      <4>2. CASE ~is_leaf(m)
        <5>1. ChildrenOf(m)' = {fields.children[e] : e \in Branch} \ {Null}
          BY <3>1, <4>2 DEF ChildrenOf
        <5>2. fields.children \in [Branch -> NodeName \cup {Null}]
          BY <3>1 DEF GoodFields
        <5>3. IsFiniteSet({fields.children[e] : e \in Branch} \ {Null})
          BY <5>2, FewChildren
        <5> QED BY <5>1, <5>3, <3>1, FS_CardinalityType DEF GoodFields
      <4> QED BY <4>1, <4>2
    <3>4. fields \in NodeBody
      <4>1. /\ fields = Fields(fields.children, fields.active_children, fields.value, Never)
            /\ fields.children \in [Branch -> NodeName \cup {Null}] /\ fields.value \in Value
        BY <3>1 DEF GoodFields
      <4> QED BY <4>1, <3>3 DEF Fields, NodeBody
    <3> QED BY <3>1, <3>2, <3>3, <3>4, <1>2, <1>4 DEF GoodFields
  <2>2. CASE m = n
    <3>1. node'[n] \in NodeBody
      BY <1>2, <1>10 DEF NodeBody
    <3>2. \A c \in ChildrenOf(n)' : c.layer <= n.layer
      <4> SUFFICES ASSUME NEW c \in ChildrenOf(n)' PROVE c.layer <= n.layer
        OBVIOUS
      <4>1. PICK e \in Branch : c = node'[n].children[e] /\ c # Null
        BY <1>8
      <4>2. CASE e = b
        BY <4>1, <4>2, <1>2, <1>3, <1>4, <1>5
      <4>3. CASE e # b
        <5>1. c \in ChildrenOf(n)
          BY <4>1, <4>3, <1>2, <1>8
        <5> QED BY <5>1, <1>3, <1>4 DEF NodesOK
      <4> QED BY <4>2, <4>3
    <3>3. /\ n.layer <= active_layer /\ n.layer < node[n].superseded_in_layer
          /\ n.pfx = Truncate(n.pfx, n.len)
          /\ \/ node[n].superseded_in_layer = Never
             \/ /\ node[n].superseded_in_layer <= active_layer
                /\ node[n].superseded_in_layer - 1 \in roots
      BY <1>3, <1>4 DEF NodesOK
    <3> QED BY <2>2, <3>1, <3>2, <3>3, <1>2, <1>8, <1>10
  <2>3. CASE m # n /\ m # new
    <3>1. m \in DOMAIN node /\ node'[m] = node[m]
      BY <2>3, <1>2
    <3>2. ChildrenOf(m)' = ChildrenOf(m)
      BY <3>1 DEF ChildrenOf
    <3> QED BY <3>1, <3>2, <1>2, <1>4 DEF NodesOK
  <2>4. m # Null
    BY <1>11, NullFact
  <2> QED BY <2>1, <2>2, <2>3, <2>4
<1>13. NodesOK'
  BY <1>11, <1>12 DEF NodesOK
<1> QED BY <1>6, <1>7, <1>13

-----------------------------------------------------------------------------
(* Changing a value *)

\* A layer has one leaf for a key.
LEMMA LeafUnique ==
    ASSUME LayerInv, NEW y \in roots, NEW m \in Tree(y), NEW n \in Tree(y),
           is_leaf(m), is_leaf(n), m.pfx = n.pfx
    PROVE  m = n
<1>1. NodesOK /\ m \in DOMAIN node /\ n \in DOMAIN node
  BY DEF LayerInv, Tree
<1>2. /\ Pfxs[m] = m.pfx /\ Lens[m] = m.len /\ Pfxs[n] = n.pfx /\ Lens[n] = n.len
      /\ n.pfx \in Key /\ n.len \in PrefixLen
  BY <1>1, NodeFact
<1>3. IsPrefixOf(Pfxs[m], Lens[m], Pfxs[n], Lens[n]) /\ Lens[m] = Lens[n]
  BY <1>2, PrefixRefl DEF is_leaf
<1>4. ShapeUnique(Tree(y), Pfxs, Lens)
  BY DEF LayerInv, LayersOK, TrieShape
<1> QED BY <1>3, <1>4 DEF ShapeUnique

LEMMA ModifyInv ==
    ASSUME LayerInv, NEW t \in Threads, Modify(t), ~failed
    PROVE  LayerInv'
<1>1. /\ pc[t] = "at" /\ InPlace(cur[t], arg[t]) /\ is_leaf(cur[t]) /\ Return(t)
      /\ UNCHANGED <<roots, active_layer, freeable_lowerbound, sealed, failed>>
      /\ failed' \in BOOLEAN
  BY DEF Modify, LayerInv, BoundsOK
<1>2. /\ ThreadStep(t) /\ pc'[t] = "idle"
      /\ \A u \in Threads \ {t} : pc'[u] = pc[u] /\ old'[u] = old[u]
  BY <1>1, ReturnStep DEF Return, LayerInv, CallsOK
<1>3. CASE arg[t].do_gc
  <2>1. UNCHANGED <<trie_vars, kv, sealed>>
    BY <1>1, <1>3 DEF Modify, trie_vars
  <2> QED BY <2>1, <1>1, <1>2, ReadInv
<1>4. CASE ~arg[t].do_gc
  <2>1. PICK n, k, v : n = cur[t] /\ k = arg[t].key /\ v = arg[t].value
    OBVIOUS
  <2>2. /\ node' = [node EXCEPT ![n].value = v]
        /\ kv' = [kv EXCEPT ![k] = v]
    BY <1>4, <2>1 DEF Modify
  <2>3. /\ n \in DOMAIN node /\ n.layer = active_layer /\ k \in Keys /\ k \in Key /\ v \in Value
        /\ Matches(n, k) /\ is_leaf(n)
    BY <1>1, <2>1, KeysAssumption DEF LayerInv, CallsOK, CallOK, InPlace
  <2>4. /\ NodesOK /\ BoundsOK /\ active_layer \in roots /\ active_layer \in Nat
        /\ n \in Tree(active_layer)
    BY <2>3, NewNodes, LayerNumbers DEF LayerInv, BoundsOK, LastTwoStay, RecentKept
  <2>5. n.pfx = k
    <3>1. n \in NodeName /\ n.pfx \in Key
      BY <2>3, <2>4, NodeFact
    <3>2. IsPrefixOf(n.pfx, KeyLen, k, KeyLen)
      BY <3>1, <2>3, MatchesFact DEF is_leaf
    <3> QED BY <3>1, <3>2, <2>3, FullPrefix
  <2>6. /\ DOMAIN node' = DOMAIN node
        /\ \A m \in DOMAIN node : m # n => node'[m] = node[m]
        /\ node'[n] = [node[n] EXCEPT !.value = v]
    BY <2>2, <2>3
  <2>7. node[n] \in NodeBody
    BY <2>3, <2>4 DEF NodesOK
  <2>8. /\ node'[n] \in NodeBody /\ node'[n].children = node[n].children
        /\ node'[n].active_children = node[n].active_children
        /\ node'[n].superseded_in_layer = node[n].superseded_in_layer
        /\ node'[n].value = v
    BY <2>3, <2>6, <2>7 DEF NodeBody
  <2>9. \A m \in DOMAIN node : /\ node'[m] \in NodeBody
                               /\ node'[m].children = node[m].children
                               /\ node'[m].active_children = node[m].active_children
                               /\ node'[m].superseded_in_layer = node[m].superseded_in_layer
    BY <2>4, <2>6, <2>8 DEF NodesOK
  <2>10. KeepsSealed
    <3>1. \A y \in roots' : Tree(y) \subseteq DOMAIN node'
      BY <2>6 DEF Tree
    <3>2. \A m \in DOMAIN node : m.layer < active_layer => node'[m].value = node[m].value
      BY <2>3, <2>4, <2>6
    <3> QED BY <3>1, <3>2, <2>6, <2>9, <1>1 DEF KeepsSealed
  <2>11. LastTwoKept
    BY <1>1, <2>4 DEF LastTwoKept, BoundsOK, LastTwoStay, RecentKept
  <2>12. NodesOK'
    <3>1. \A m \in DOMAIN node : ChildrenOf(m)' = ChildrenOf(m)
      BY <2>9 DEF ChildrenOf
    <3> QED BY <3>1, <2>4, <2>6, <2>9, <1>1 DEF NodesOK
  <2>13. \A m : m \in Pending' <=> m \in Pending
    <3> SUFFICES ASSUME NEW m PROVE m \in Pending' <=> m \in Pending
      OBVIOUS
    <3>1. m \in Pending' <=> \E u \in Threads \ {t} : pc[u] = "mark" /\ m \in ChainSet(old[u])
      BY <1>2, <2>10, <2>11, PendingFrame
    <3> QED BY <3>1, <1>1 DEF Pending
  <2>14. Tree(active_layer)' = Tree(active_layer)
    BY <1>1, <2>6, <2>9, <2>13 DEF Tree
  <2>15. /\ Root(active_layer) \in Tree(active_layer)
         /\ TrieShape(Tree(active_layer), Pfxs, Lens, Kids, Null)
         /\ Tree(active_layer) \subseteq DOMAIN node
    BY <2>4 DEF LayerInv, LayersOK, Tree
  <2>16. ActiveShape'
    <3>1. NodesTyped(Tree(active_layer), Pfxs, Lens)
      BY <2>4, <2>15, TreeTyped
    <3>2. \A m \in Tree(active_layer) : /\ Pfxs'[m] = Pfxs[m] /\ Lens'[m] = Lens[m]
                                        /\ Kids'[m] = Kids[m]
      BY <2>6, <2>9, <2>15 DEF Pfxs, Lens, Kids
    <3>3. \A m \in Tree(active_layer), e \in Branch : Kids'[m][e] = Kids[m][e]
      BY <3>2
    <3>4. TrieShape(Tree(active_layer), Pfxs', Lens', Kids', Null)
      BY <2>15, <3>1, <3>2, <3>3, ShapeSame
    <3> QED BY <3>4, <2>14, <2>15, <1>1 DEF ActiveShape
  <2>17. kv \in [Keys -> Value] /\ Holds(active_layer, kv)
    BY DEF LayerInv, ContentsOK
  <2>18. kv' \in [Keys -> Value] /\ \A q \in Keys : kv'[q] = IF q = k THEN v ELSE kv[q]
    BY <2>2, <2>3, <2>17
  <2>19. Holds(active_layer, kv)'
    <3>1. ASSUME NEW m \in Tree(active_layer), is_leaf(m), m.pfx \in Keys
          PROVE  node'[m].value = kv'[m.pfx]
      <4>1. CASE m = n
        BY <4>1, <2>5, <2>8, <2>18, <2>3
      <4>2. CASE m # n
        <5>1. m.pfx # k
          BY <4>2, <3>1, <2>3, <2>4, <2>5, LeafUnique
        <5>2. node'[m] = node[m]
          BY <4>2, <2>6, <2>15
        <5> QED BY <5>1, <5>2, <3>1, <2>17, <2>18 DEF Holds
      <4> QED BY <4>1, <4>2
    <3>2. ASSUME NEW q \in Keys, \A m \in Tree(active_layer) : ~(is_leaf(m) /\ m.pfx = q)
          PROVE  kv'[q] = Inactive
      <4>1. q # k
        BY <3>2, <2>3, <2>4, <2>5
      <4> QED BY <4>1, <3>2, <2>17, <2>18 DEF Holds
    <3> QED BY <3>1, <3>2, <2>14 DEF Holds
  <2>20. LayerZero'
    BY <2>6, ZeroKept DEF LayerInv
  <2> QED BY <1>1, <1>2, <2>10, <2>12, <2>16, <2>18, <2>19, <2>20, StepInv
<1> QED BY <1>3, <1>4

-----------------------------------------------------------------------------
(* Publishing a node *)

\* From a node towards one below it.
LEMMA PathDown ==
    ASSUME LayerInv, NEW y \in roots, NEW n \in Tree(y), NEW x \in Tree(y),
           IsPrefixOf(n.pfx, n.len, x.pfx, x.len), n.len < x.len
    PROVE  LET c == node[n].children[BranchBits(x.pfx, n.len)]
           IN  c # Null /\ IsPrefixOf(c.pfx, c.len, x.pfx, x.len)
<1>1. PICK c, b : b = BranchBits(x.pfx, n.len) /\ c = node[n].children[b]
  OBVIOUS
<1>2. /\ NodesOK /\ n \in DOMAIN node /\ x \in DOMAIN node
  BY DEF LayerInv, Tree
<1>3. /\ Pfxs[n] = n.pfx /\ Lens[n] = n.len /\ Kids[n] = node[n].children
      /\ Pfxs[x] = x.pfx /\ Lens[x] = x.len /\ x.pfx \in Key
      /\ n.len \in PrefixLen /\ x.len \in PrefixLen
  BY <1>2, NodeFact
<1>4. TrieShape(Tree(y), Pfxs, Lens, Kids, Null)
  BY DEF LayerInv, LayersOK
<1>5. c # Null /\ IsPrefixOf(Pfxs[c], Lens[c], Pfxs[x], Lens[x])
  BY <1>1, <1>3, <1>4 DEF TrieShape, ShapePaths
<1>6. n.len < KeyLen
  BY <1>3, KeyLenAssumption DEF PrefixLen
<1>7. b \in Branch
  BY <1>1, <1>3, <1>6, BranchBitsType
<1>8. c \in Tree(y)
  BY <1>1, <1>5, <1>7, TreeEdge
<1>9. Pfxs[c] = c.pfx /\ Lens[c] = c.len
  BY <1>8, <1>2, NodeFact DEF Tree
<1> QED BY <1>1, <1>3, <1>5, <1>9

\* What was replaced when thread t is about to mark nodes.
Replaced(t) == IF pc[t] = "mark" THEN ChainSet(old[t]) ELSE {}

\* The active layer after thread t has published a node.
LEMMA PublishTree ==
    ASSUME LayerInv, NEW t \in Threads, pc[t] = "try", NEW new, NEW fields,
           Publish(t, new, fields), new # Null => GoodFields(new, fields),
           \A u \in Threads \ {t} : pc'[u] = pc[u] /\ old'[u] = old[u],
           NEW gone, Replaced(t)' = gone, gone \subseteq DOMAIN node,
           NEW n, n = cur[t], NEW b, b = Bits(cur[t], arg[t].key), NEW L, L = Tree(active_layer)
    PROVE  /\ Tree(active_layer)' = (L \ gone) \cup ({new} \ {Null})
           /\ \A x \in L : /\ Pfxs'[x] = Pfxs[x] /\ Lens'[x] = Lens[x]
                           /\ \A e \in Branch : Kids'[x][e] = IF x = n /\ e = b THEN new ELSE Kids[x][e]
                           /\ node'[x].value = node[x].value
           /\ new # Null => /\ Pfxs'[new] = new.pfx /\ Lens'[new] = new.len
                            /\ Kids'[new] = fields.children
                            /\ node'[new].value = fields.value
<1>1. /\ Published(new, fields, n, b)
      /\ KeepsSealed /\ LastTwoKept
      /\ NodesOK /\ active_layer \in Nat /\ active_layer < Never
  BY PublishFact, PublishNodes, LayerNumbers DEF LayerInv, BoundsOK
<1>2. n \in DOMAIN node /\ n.layer = active_layer
  BY SlotFact
<1>3. /\ active_layer' = active_layer
      /\ DOMAIN node' = DOMAIN node \cup ({new} \ {Null})
      /\ new # Null => node'[new] = fields
      /\ \A m \in DOMAIN node : m # n => node'[m] = node[m]
      /\ \A e \in Branch : node'[n].children[e] = IF e = b THEN new ELSE node[n].children[e]
      /\ node'[n].value = node[n].value
      /\ node'[n].superseded_in_layer = node[n].superseded_in_layer
  BY <1>1 DEF Published
<1>4. new # Null => /\ new \notin DOMAIN node /\ new.layer = active_layer
                    /\ fields.superseded_in_layer = Never
  BY DEF GoodFields
<1>5. \A m : m \in Pending' <=> m \in Pending \/ m \in gone
  <2> SUFFICES ASSUME NEW m PROVE m \in Pending' <=> m \in Pending \/ m \in gone
    OBVIOUS
  <2>1. m \in Pending' <=> \/ \E u \in Threads \ {t} : pc[u] = "mark" /\ m \in ChainSet(old[u])
                           \/ pc'[t] = "mark" /\ m \in ChainSet(old[t])'
    BY <1>1, PendingFrame
  <2>2. m \in gone <=> pc'[t] = "mark" /\ m \in ChainSet(old[t])'
    BY DEF Replaced
  <2> QED BY <2>1, <2>2 DEF Pending
<1>6. \A m \in Pending : m \in DOMAIN node
  BY DEF LayerInv, CallsOK, CallOK, Pending, Tree
<1>7. ASSUME NEW m PROVE m \in Tree(active_layer)' <=> m \in (L \ gone) \cup ({new} \ {Null})
  <2>1. m \in Tree(active_layer)' <=> /\ m \in DOMAIN node' /\ m.layer <= active_layer
                                      /\ active_layer < node'[m].superseded_in_layer
                                      /\ m \notin Pending'
    BY <1>3 DEF Tree
  <2>2. CASE m = new /\ new # Null
    BY <2>1, <2>2, <1>1, <1>3, <1>4, <1>5, <1>6
  <2>3. CASE ~(m = new /\ new # Null)
    <3>1. m \in L <=> /\ m \in DOMAIN node /\ m.layer <= active_layer
                      /\ active_layer < node[m].superseded_in_layer
                      /\ m \notin Pending
      BY DEF Tree
    <3>2. m \in DOMAIN node' <=> m \in DOMAIN node
      BY <2>3, <1>3
    <3>3. m \in DOMAIN node => node'[m].superseded_in_layer = node[m].superseded_in_layer
      BY <1>3
    <3> QED BY <2>1, <2>3, <3>1, <3>2, <3>3, <1>5
  <2> QED BY <2>2, <2>3
<1>8. ASSUME NEW x \in L
      PROVE  /\ Pfxs'[x] = Pfxs[x] /\ Lens'[x] = Lens[x]
             /\ \A e \in Branch : Kids'[x][e] = IF x = n /\ e = b THEN new ELSE Kids[x][e]
             /\ node'[x].value = node[x].value
  <2>1. x \in DOMAIN node /\ x \in DOMAIN node'
    BY <1>3 DEF Tree
  <2>2. Kids[x] = node[x].children /\ Kids'[x] = node'[x].children
    BY <2>1 DEF Kids
  <2>3. Pfxs'[x] = Pfxs[x] /\ Lens'[x] = Lens[x]
    BY <2>1 DEF Pfxs, Lens
  <2> QED BY <2>1, <2>2, <2>3, <1>3
<1>9. ASSUME new # Null
      PROVE  /\ Pfxs'[new] = new.pfx /\ Lens'[new] = new.len
             /\ Kids'[new] = fields.children
             /\ node'[new].value = fields.value
  BY <1>3, <1>9 DEF Pfxs, Lens, Kids
<1> QED BY <1>7, <1>8, <1>9

LEMMA PublishZero ==
    ASSUME LayerInv, NEW t \in Threads, pc[t] = "try", NEW new, NEW fields,
           Publish(t, new, fields), new # Null => GoodFields(new, fields)
    PROVE  LayerZero'
<1>1. DOMAIN node' = DOMAIN node \cup ({new} \ {Null})
  <2>1. PICK n, b : Published(new, fields, n, b)
    BY PublishFact
  <2> QED BY <2>1 DEF Published
<1>2. active_layer > 0 /\ active_layer \in Nat
  BY SlotFact, LayerNumbers DEF LayerInv, BoundsOK
<1>3. new # Null => new.layer # 0
  BY <1>2 DEF GoodFields
<1> QED BY <1>1, <1>3 DEF LayerInv, LayerZero

LEMMA PublishInv ==
    ASSUME LayerInv, NEW t \in Threads, pc[t] = "try", NEW new, NEW fields,
           Publish(t, new, fields), new # Null => GoodFields(new, fields),
           ThreadStep(t), ActiveShape', Holds(active_layer, kv)'
    PROVE  LayerInv'
<1>1. KeepsSealed /\ NodesOK' /\ LayerZero'
  BY PublishNodes, PublishZero
<1>2. /\ roots' = roots /\ UNCHANGED <<freeable_lowerbound, sealed, kv>> /\ failed' = failed
  BY DEF Publish, ghosts
<1>3. kv' \in [Keys -> Value] /\ failed' \in BOOLEAN
  BY <1>2 DEF LayerInv, ContentsOK, BoundsOK
<1> QED BY <1>1, <1>2, <1>3, StepInv

LEMMA LeafFact ==
    ASSUME LayerInv, NEW t \in Threads, pc[t] = "try"
    PROVE  /\ Leaf(t) \in NodeName /\ Leaf(t) # Null
           /\ Leaf(t).pfx = arg[t].key /\ Leaf(t).len = KeyLen /\ Leaf(t).layer = active_layer
           /\ is_leaf(Leaf(t)) /\ Leaf(t).pfx = Truncate(Leaf(t).pfx, Leaf(t).len)
<1>1. /\ arg[t].key \in Key /\ arg[t].layer = active_layer /\ active_layer \in Layers
      /\ KeyLen \in PrefixLen
  BY SlotFact, KeyLenAssumption DEF PrefixLen
<1>2. /\ Leaf(t) \in NodeName /\ Leaf(t).pfx = Truncate(arg[t].key, KeyLen)
      /\ Leaf(t).len = KeyLen /\ Leaf(t).layer = active_layer
  BY <1>1, NameFact DEF Leaf
<1>3. Truncate(arg[t].key, KeyLen) = arg[t].key
  <2>1. /\ Truncate(arg[t].key, KeyLen) \in Key
        /\ IsPrefixOf(Truncate(arg[t].key, KeyLen), KeyLen, arg[t].key, KeyLen)
    <3>1. KeyLen <= KeyLen
      BY KeyLenAssumption
    <3> QED BY <3>1, <1>1, TruncateFact
  <2> QED BY <2>1, <1>1, FullPrefix
<1> QED BY <1>2, <1>3, NullFact DEF is_leaf

LEMMA EmptyLeafGood ==
    ASSUME NEW new \in NodeName, new \notin DOMAIN node, new.layer = active_layer,
           new.pfx = Truncate(new.pfx, new.len)
    PROVE  GoodFields(new, EmptyLeaf)
<1>1. /\ EmptyLeaf.children = NoKids /\ EmptyLeaf.active_children = 0
      /\ EmptyLeaf.value = Inactive /\ EmptyLeaf.superseded_in_layer = Never
  BY FieldsFact DEF EmptyLeaf
<1>2. EmptyLeaf = Fields(EmptyLeaf.children, EmptyLeaf.active_children, EmptyLeaf.value, Never)
  BY <1>1 DEF EmptyLeaf
<1>3. NoKids \in [Branch -> NodeName \cup {Null}] /\ \A e \in Branch : NoKids[e] = Null
  BY DEF NoKids
<1>4. {NoKids[e] : e \in Branch} \ {Null} = {}
  BY <1>3
<1>5. Cardinality({EmptyLeaf.children[e] : e \in Branch} \ {Null}) = 0
  BY <1>1, <1>4, FS_EmptySet
<1> QED BY <1>1, <1>2, <1>3, <1>5, ValueAssumption DEF GoodFields

\* What the thread is at, as a place in the active layer.
LEMMA PlaceFact ==
    ASSUME LayerInv, NEW t \in Threads, pc[t] = "try",
           NEW n, n = cur[t], NEW k, k = arg[t].key, NEW b, b = Bits(cur[t], arg[t].key),
           NEW L, L = Tree(active_layer)
    PROVE  /\ n \in L /\ L \subseteq DOMAIN node /\ k \in Key /\ k \in Keys
           /\ Pfxs[n] = n.pfx /\ Lens[n] = n.len /\ n.len < KeyLen /\ n.len \in PrefixLen
           /\ Kids[n] = node[n].children
           /\ IsPrefixOf(Pfxs[n], Lens[n], k, KeyLen) /\ b = BranchBits(k, Lens[n]) /\ b \in Branch
           /\ NodesTyped(L, Pfxs, Lens) /\ TrieShape(L, Pfxs, Lens, Kids, Null)
           /\ Root(active_layer) \in L /\ active_layer \in roots
<1>1. /\ n \in L /\ k \in Key /\ k \in Keys /\ n \in DOMAIN node /\ n.len < KeyLen
      /\ IsPrefixOf(n.pfx, n.len, k, KeyLen) /\ b \in Branch /\ active_layer \in roots
  BY SlotFact
<1>2. NodesOK /\ L \subseteq DOMAIN node
  BY DEF LayerInv, Tree
<1>3. Pfxs[n] = n.pfx /\ Lens[n] = n.len /\ n.len \in PrefixLen /\ Kids[n] = node[n].children
  BY <1>1, <1>2, NodeFact
<1>4. NodesTyped(L, Pfxs, Lens)
  BY <1>2, TreeTyped
<1>5. TrieShape(L, Pfxs, Lens, Kids, Null) /\ Root(active_layer) \in L
  BY <1>1 DEF LayerInv, LayersOK
<1>6. b = BranchBits(k, Lens[n])
  BY <1>3 DEF Bits
<1> QED BY <1>1, <1>2, <1>3, <1>4, <1>5, <1>6

LEMMA InsertAttachInv ==
    ASSUME LayerInv, NEW t \in Threads, InsertAttach(t), ~failed
    PROVE  LayerInv'
<1>1. /\ pc[t] = "try" /\ exp[t] = Null
      /\ Publish(t, Leaf(t), EmptyLeaf)
      /\ GoTo(t, Leaf(t), arg[t], node')
  BY DEF InsertAttach, Absent
<1>2. PICK n, k, b, L, new, a :
         /\ n = cur[t] /\ k = arg[t].key /\ b = Bits(cur[t], arg[t].key)
         /\ L = Tree(active_layer) /\ new = Leaf(t) /\ a = arg[t]
  OBVIOUS
<1>3. /\ n \in L /\ L \subseteq DOMAIN node /\ k \in Key /\ k \in Keys
      /\ Pfxs[n] = n.pfx /\ Lens[n] = n.len /\ n.len < KeyLen
      /\ Kids[n] = node[n].children
      /\ IsPrefixOf(Pfxs[n], Lens[n], k, KeyLen) /\ b = BranchBits(k, Lens[n]) /\ b \in Branch
      /\ NodesTyped(L, Pfxs, Lens) /\ TrieShape(L, Pfxs, Lens, Kids, Null)
      /\ Root(active_layer) \in L /\ active_layer \in roots
  BY <1>1, <1>2, PlaceFact
<1>4. /\ new \in NodeName /\ new # Null /\ new.pfx = k /\ new.len = KeyLen
      /\ new.layer = active_layer /\ is_leaf(new) /\ new.pfx = Truncate(new.pfx, new.len)
  BY <1>1, <1>2, LeafFact
<1>5. node[n].children[b] = Null
  BY <1>1, <1>2 DEF Publish, SlotUnchanged
<1>6. ASSUME NEW x \in L, is_leaf(x), x.pfx = k PROVE FALSE
  <2>1. IsPrefixOf(n.pfx, n.len, x.pfx, x.len) /\ n.len < x.len
    BY <1>3, <1>6 DEF is_leaf
  <2>2. node[n].children[BranchBits(x.pfx, n.len)] # Null
    BY <2>1, <1>2, <1>3, PathDown
  <2> QED BY <2>2, <1>3, <1>5, <1>6
<1>7. new \notin DOMAIN node
  <2> SUFFICES ASSUME new \in DOMAIN node PROVE FALSE
    OBVIOUS
  <2>1. new \in L
    BY <1>2, <1>4, NewNodes
  <2> QED BY <2>1, <1>4, <1>6
<1>8. GoodFields(new, EmptyLeaf)
  BY <1>4, <1>7, EmptyLeafGood
<1>9. Publish(t, new, EmptyLeaf) /\ GoTo(t, new, a, node')
  BY <1>1, <1>2
<1>10. /\ \A u \in Threads \ {t} : pc'[u] = pc[u] /\ old'[u] = old[u]
       /\ Replaced(t)' = {}
  BY <1>9, GoToOthers DEF LayerInv, Replaced
<1>11. /\ Tree(active_layer)' = (L \ {}) \cup ({new} \ {Null})
       /\ \A x \in L : /\ Pfxs'[x] = Pfxs[x] /\ Lens'[x] = Lens[x]
                       /\ \A e \in Branch : Kids'[x][e] = IF x = n /\ e = b THEN new ELSE Kids[x][e]
                       /\ node'[x].value = node[x].value
       /\ new # Null => /\ Pfxs'[new] = new.pfx /\ Lens'[new] = new.len
                        /\ Kids'[new] = EmptyLeaf.children
                        /\ node'[new].value = EmptyLeaf.value
  BY <1>1, <1>2, <1>8, <1>9, <1>10, PublishTree
<1>12. Tree(active_layer)' = L \cup {new}
  BY <1>4, <1>11
<1>13. /\ EmptyLeaf.value = Inactive
       /\ \A e \in Branch : EmptyLeaf.children[e] = Null
  BY FieldsFact DEF EmptyLeaf, NoKids
<1>14. active_layer' = active_layer /\ kv' = kv
  BY <1>1 DEF Publish, ghosts
<1>15. TrieShape(L \cup {new}, Pfxs', Lens', Kids', Null)
  <2>1. Added(L, Pfxs, Lens, Kids, n, b, new, k, KeyLen, L \cup {new}, Pfxs', Lens', Kids')
    BY <1>4, <1>11 DEF Added
  <2>2. Attached(L, Pfxs, Lens, Kids, Null, n, k, KeyLen, new, L \cup {new}, Pfxs', Lens', Kids')
    BY <2>1, <1>3, <1>4, <1>5, <1>11, <1>13 DEF Attached
  <2>3. KeyLen \in PrefixLen /\ Lens[n] < KeyLen /\ new \notin L
    BY <1>3, <1>7, KeyLenAssumption DEF PrefixLen
  <2> QED BY <2>2, <2>3, <1>3, <1>4, ShapeAttach
<1>16. ActiveShape'
  BY <1>3, <1>12, <1>14, <1>15 DEF ActiveShape
<1>17. Holds(active_layer, kv)'
  <2>1. Holds(active_layer, kv)
    BY DEF LayerInv, ContentsOK
  <2>2. kv[k] = Inactive
    BY <2>1, <1>2, <1>3, <1>6 DEF Holds
  <2>3. ASSUME NEW m \in L \cup {new}, is_leaf(m), m.pfx \in Keys
        PROVE  node'[m].value = kv[m.pfx]
    <3>1. CASE m = new
      BY <3>1, <2>2, <1>4, <1>11, <1>13
    <3>2. CASE m # new
      BY <3>2, <2>1, <2>3, <1>2, <1>11 DEF Holds
    <3> QED BY <3>1, <3>2
  <2>4. ASSUME NEW q \in Keys, \A m \in L \cup {new} : ~(is_leaf(m) /\ m.pfx = q)
        PROVE  kv[q] = Inactive
    BY <2>1, <2>4, <1>2 DEF Holds
  <2> QED BY <2>3, <2>4, <1>12, <1>14 DEF Holds
<1>18. ThreadStep(t)
  <2>1. CallArgs(a)
    BY <1>1, <1>2, ArgsFact
  <2>2. NodesOK' /\ LayerZero'
    BY <1>1, <1>8, <1>9, PublishNodes, PublishZero
  <2>3. new \in Tree(active_layer)'
    BY <1>12
  <2> QED BY <2>1, <2>2, <2>3, <1>4, <1>9, <1>14, <1>16, GoToStep
<1> QED BY <1>1, <1>8, <1>9, <1>16, <1>17, <1>18, PublishInv

\* The node that a split puts between node n and its child c.
LEMMA SplitName ==
    ASSUME LayerInv, NEW n \in Tree(active_layer), NEW k \in Key, n.len < KeyLen,
           IsPrefixOf(n.pfx, n.len, k, KeyLen), NEW b \in Branch, b = BranchBits(k, n.len),
           NEW c \in Tree(active_layer), node[n].children[b] = c,
           NEW l, l = MatchLen(c.pfx, c.len, k, KeyLen), l # c.len,
           NEW new, new = Name(k, l, active_layer)
    PROVE  /\ l \in PrefixLen /\ l < c.len /\ l < KeyLen
           /\ new \in NodeName /\ new # Null /\ new \notin DOMAIN node
           /\ new.pfx = Truncate(k, l) /\ new.len = l /\ new.layer = active_layer
           /\ new.pfx = Truncate(new.pfx, new.len)
           /\ BranchBits(c.pfx, l) \in Branch
<1>1. /\ NodesOK /\ active_layer \in Layers /\ active_layer \in roots
      /\ n \in DOMAIN node /\ c \in DOMAIN node
  BY LayerNumbers DEF LayerInv, BoundsOK, LastTwoStay, RecentKept, Tree
<1>2. /\ n.pfx \in Key /\ n.len \in PrefixLen /\ c.pfx \in Key /\ c.len \in PrefixLen /\ c # Null
  BY <1>1, NodeFact
<1>3. /\ n.len < c.len /\ IsPrefixOf(n.pfx, n.len, c.pfx, c.len)
      /\ BranchBits(c.pfx, n.len) = BranchBits(k, n.len)
  BY <1>1, <1>2, TreeEdge
<1>4. PICK p, q, a, m : p = n.pfx /\ a = n.len /\ q = c.pfx /\ m = c.len
  OBVIOUS
<1>5. /\ l \in PrefixLen /\ a < l /\ l < m /\ l < KeyLen
      /\ IsPrefixOf(p, a, Truncate(k, l), l)
      /\ BranchBits(Truncate(k, l), a) = BranchBits(k, a)
      /\ BranchBits(q, l) \in Branch
  BY <1>2, <1>3, <1>4, PartFact
<1>6. /\ new \in NodeName /\ new.pfx = Truncate(k, l) /\ new.len = l /\ new.layer = active_layer
      /\ new.pfx = Truncate(new.pfx, new.len)
  BY <1>1, <1>5, NameFact
<1>7. new \notin DOMAIN node
  <2> SUFFICES ASSUME new \in DOMAIN node PROVE FALSE
    OBVIOUS
  <2>1. new \in Tree(active_layer)
    BY <1>6, NewNodes
  <2>2. /\ IsPrefixOf(n.pfx, n.len, new.pfx, new.len) /\ n.len < new.len
        /\ BranchBits(new.pfx, n.len) = b
    BY <1>4, <1>5, <1>6
  <2>3. IsPrefixOf(c.pfx, c.len, new.pfx, new.len)
    BY <2>1, <2>2, <1>1, PathDown
  <2>4. m <= l
    BY <2>3, <1>4, <1>6 DEF IsPrefixOf
  <2> QED BY <2>4, <1>2, <1>4, <1>5 DEF PrefixLen
<1> QED BY <1>4, <1>5, <1>6, <1>7, NullFact

\* What such a node is made of.
SplitBody(c, d) == Fields([NoKids EXCEPT ![d] = c], 1, Inactive, Never)

LEMMA SplitFields ==
    ASSUME NEW c \in NodeName, NEW d \in Branch, NEW fields, fields = SplitBody(c, d),
           NEW new \in NodeName, new \notin DOMAIN node, new.layer = active_layer,
           new.pfx = Truncate(new.pfx, new.len), ~is_leaf(new), c.layer <= active_layer
    PROVE  /\ GoodFields(new, fields)
           /\ \A e \in Branch : fields.children[e] = IF e = d THEN c ELSE Null
<1>1. /\ fields.children = [NoKids EXCEPT ![d] = c] /\ fields.active_children = 1
      /\ fields.value = Inactive /\ fields.superseded_in_layer = Never
  BY FieldsFact DEF SplitBody
<1>2. /\ fields.children \in [Branch -> NodeName \cup {Null}]
      /\ \A e \in Branch : fields.children[e] = IF e = d THEN c ELSE Null
  BY <1>1 DEF NoKids
<1>3. {fields.children[e] : e \in Branch} \ {Null} = {c}
  BY <1>2, NullFact
<1>4. Cardinality({fields.children[e] : e \in Branch} \ {Null}) = 1
  BY <1>3, FS_Singleton
<1>5. fields = Fields(fields.children, fields.active_children, fields.value, Never)
  BY <1>1 DEF SplitBody
<1>6. \A e \in Branch : fields.children[e] # Null => fields.children[e].layer <= active_layer
  BY <1>2
<1> QED BY <1>1, <1>2, <1>4, <1>5, <1>6, ValueAssumption DEF GoodFields

LEMMA InsertSplitInv ==
    ASSUME LayerInv, NEW t \in Threads, InsertSplit(t), ~failed
    PROVE  LayerInv'
<1>1. PICK n, k, b, L, c, l, new, a, fields :
         /\ n = cur[t] /\ k = arg[t].key /\ b = Bits(cur[t], arg[t].key)
         /\ L = Tree(active_layer) /\ c = exp[t] /\ l = MatchLen(c.pfx, c.len, k, KeyLen)
         /\ new = Name(k, l, active_layer) /\ a = arg[t]
         /\ fields = SplitBody(c, BranchBits(c.pfx, l))
  OBVIOUS
<1>2. pc[t] = "try" /\ c # Null /\ ~Matches(c, k)
  BY <1>1 DEF InsertSplit, Diverges
<1>3. arg[t].layer = active_layer
  BY <1>2, SlotFact
<1>4. Publish(t, new, fields) /\ GoTo(t, new, a, node')
  BY <1>1, <1>3 DEF InsertSplit, SplitBody
<1>5. node[n].children[b] = c
  BY <1>1, <1>4 DEF Publish, SlotUnchanged
<1>6. /\ n \in L /\ L \subseteq DOMAIN node /\ k \in Key /\ k \in Keys
      /\ Pfxs[n] = n.pfx /\ Lens[n] = n.len /\ n.len < KeyLen
      /\ Kids[n] = node[n].children
      /\ IsPrefixOf(Pfxs[n], Lens[n], k, KeyLen) /\ b = BranchBits(k, Lens[n]) /\ b \in Branch
      /\ NodesTyped(L, Pfxs, Lens) /\ TrieShape(L, Pfxs, Lens, Kids, Null)
      /\ Root(active_layer) \in L /\ active_layer \in roots
  BY <1>1, <1>2, PlaceFact
<1>70. c \in L
  BY <1>1, <1>2, <1>5, <1>6, TreeEdge
<1>71. Pfxs[c] = c.pfx /\ Lens[c] = c.len
  BY <1>70, <1>6, NodeFact DEF LayerInv
<1>72. l # c.len
  BY <1>1, <1>2 DEF Matches
<1>73. n \in Tree(active_layer) /\ c \in Tree(active_layer)
  BY <1>1, <1>6, <1>70
<1>74. IsPrefixOf(n.pfx, n.len, k, KeyLen) /\ b = BranchBits(k, n.len)
  BY <1>6
<1>75. new = Name(k, l, active_layer) /\ l = MatchLen(c.pfx, c.len, k, KeyLen)
  BY <1>1
<1>7. /\ l \in PrefixLen /\ l < c.len /\ l < KeyLen
      /\ new \in NodeName /\ new # Null /\ new \notin DOMAIN node
      /\ new.pfx = Truncate(k, l) /\ new.len = l /\ new.layer = active_layer
      /\ new.pfx = Truncate(new.pfx, new.len)
      /\ BranchBits(c.pfx, l) \in Branch
  BY <1>5, <1>6, <1>72, <1>73, <1>74, <1>75, SplitName
<1>8. ~is_leaf(new)
  BY <1>7, KeyLenAssumption DEF is_leaf, PrefixLen
<1>9. /\ GoodFields(new, fields)
      /\ \A e \in Branch : fields.children[e] = IF e = BranchBits(c.pfx, l) THEN c ELSE Null
  <2>1. c \in NodeName /\ c.layer <= active_layer
    BY <1>6, <1>70 DEF LayerInv, NodesOK
  <2>2. PICK d : d = BranchBits(c.pfx, l)
    OBVIOUS
  <2>3. d \in Branch /\ fields = SplitBody(c, d)
    BY <2>2, <1>1, <1>7
  <2>4. /\ GoodFields(new, fields)
        /\ \A e \in Branch : fields.children[e] = IF e = d THEN c ELSE Null
    BY <2>1, <2>3, <1>7, <1>8, SplitFields
  <2> QED BY <2>2, <2>4
<1>10. /\ \A u \in Threads \ {t} : pc'[u] = pc[u] /\ old'[u] = old[u]
       /\ Replaced(t)' = {}
  BY <1>4, GoToOthers DEF LayerInv, Replaced
<1>11. /\ Tree(active_layer)' = (L \ {}) \cup ({new} \ {Null})
       /\ \A x \in L : /\ Pfxs'[x] = Pfxs[x] /\ Lens'[x] = Lens[x]
                       /\ \A e \in Branch : Kids'[x][e] = IF x = n /\ e = b THEN new ELSE Kids[x][e]
                       /\ node'[x].value = node[x].value
       /\ new # Null => /\ Pfxs'[new] = new.pfx /\ Lens'[new] = new.len
                        /\ Kids'[new] = fields.children
                        /\ node'[new].value = fields.value
  BY <1>1, <1>2, <1>4, <1>9, <1>10, PublishTree
<1>12. Tree(active_layer)' = L \cup {new}
  BY <1>7, <1>11
<1>13. active_layer' = active_layer /\ kv' = kv
  BY <1>4 DEF Publish, ghosts
<1>14. TrieShape(L \cup {new}, Pfxs', Lens', Kids', Null)
  <2>1. Added(L, Pfxs, Lens, Kids, n, b, new, Truncate(k, l), l, L \cup {new}, Pfxs', Lens', Kids')
    BY <1>7, <1>11 DEF Added
  <2>2. ~(l >= Lens[c]) /\ Lens[c] \in Nat /\ l \in Nat
    BY <1>6, <1>7, <1>70, <1>71 DEF NodesTyped, PrefixLen
  <2>3. /\ c = Kids[n][BranchBits(k, Lens[n])]
        /\ l = MatchLen(Pfxs[c], Lens[c], k, KeyLen)
        /\ \A e \in Branch : Kids'[new][e] = IF e = BranchBits(Pfxs[c], l) THEN c ELSE Null
    BY <1>5, <1>6, <1>7, <1>71, <1>75, <1>9, <1>11
  <2>4. SplitAt(L, Pfxs, Lens, Kids, Null, n, k, KeyLen, c, l, new, L \cup {new}, Pfxs', Lens', Kids')
    BY <2>1, <2>2, <2>3, <1>2, <1>6 DEF SplitAt
  <2>5. KeyLen \in PrefixLen /\ Lens[n] < KeyLen /\ new \notin L
    BY <1>6, <1>7, KeyLenAssumption DEF PrefixLen
  <2> QED BY <2>4, <2>5, <1>6, <1>7, ShapeSplit
<1>15. ActiveShape'
  BY <1>6, <1>12, <1>13, <1>14 DEF ActiveShape
<1>16. Holds(active_layer, kv)'
  <2>1. Holds(active_layer, kv)
    BY DEF LayerInv, ContentsOK
  <2>2. ASSUME NEW m \in L \cup {new}, is_leaf(m), m.pfx \in Keys
        PROVE  node'[m].value = kv[m.pfx]
    BY <2>1, <2>2, <1>1, <1>8, <1>11 DEF Holds
  <2>3. ASSUME NEW q \in Keys, \A m \in L \cup {new} : ~(is_leaf(m) /\ m.pfx = q)
        PROVE  kv[q] = Inactive
    BY <2>1, <2>3, <1>1 DEF Holds
  <2> QED BY <2>2, <2>3, <1>12, <1>13 DEF Holds
<1>17. ThreadStep(t)
  <2>1. CallArgs(a)
    BY <1>1, <1>2, ArgsFact
  <2>2. NodesOK' /\ LayerZero'
    BY <1>2, <1>4, <1>9, PublishNodes, PublishZero
  <2>3. new \in Tree(active_layer)'
    BY <1>12
  <2> QED BY <2>1, <2>2, <2>3, <1>4, <1>7, <1>13, <1>15, GoToStep
<1> QED BY <1>2, <1>4, <1>9, <1>15, <1>16, <1>17, PublishInv

-----------------------------------------------------------------------------
(* Replacing a node of an older layer *)

\* The child that is replaced, and its chain.
LEMMA OldFact ==
    ASSUME LayerInv, NEW t \in Threads, pc[t] = "try", OldLayer(t), SlotUnchanged(t),
           NEW c, c = exp[t]
    PROVE  /\ c # Null /\ c \in NodeName /\ Matches(c, arg[t].key)
           /\ c = node[cur[t]].children[Bits(cur[t], arg[t].key)]
           /\ c \in Tree(active_layer) /\ c \in Tree(active_layer - 1)
           /\ active_layer - 1 \in roots /\ active_layer >= 2
           /\ ChainSet(c) \subseteq Tree(active_layer)
           /\ ChainSet(c) \subseteq Tree(active_layer - 1)
<1>1. /\ cur[t] \in Tree(active_layer) /\ active_layer \in roots /\ active_layer > 0
      /\ arg[t].layer = active_layer /\ Bits(cur[t], arg[t].key) \in Branch
  BY SlotFact
<1>2. /\ c # Null /\ Matches(c, arg[t].key) /\ c.layer # active_layer
      /\ c = node[cur[t]].children[Bits(cur[t], arg[t].key)]
  BY <1>1 DEF OldLayer, Below, SlotUnchanged
<1>3. c \in Tree(active_layer)
  BY <1>1, <1>2, TreeEdge
<1>4. /\ c \in DOMAIN node /\ c.layer <= active_layer
      /\ active_layer < node[c].superseded_in_layer
  BY <1>3 DEF Tree
<1>0. NodesOK /\ LayerZero /\ active_layer \in Nat /\ cur[t] \in DOMAIN node
  BY <1>1, LayerNumbers DEF LayerInv, BoundsOK, Tree
<1>6. /\ c \in NodeName /\ c.layer \in Nat /\ node[c].superseded_in_layer \in Nat
      /\ cur[t].len \in Nat
  BY <1>0, <1>4, NodeFact DEF PrefixLen
<1>5. /\ NodesOK /\ active_layer \in Nat /\ active_layer - 1 \in roots /\ active_layer >= 2
  <2>1. cur[t].len < c.len
    BY <1>1, <1>2, TreeEdge
  <2>2. c.layer # 0
    BY <2>1, <1>0, <1>4, <1>6 DEF LayerZero
  <2>3. active_layer >= 2
    BY <2>2, <1>0, <1>2, <1>4, <1>6
  <2> QED BY <2>3, <1>0 DEF LayerInv, BoundsOK, LastTwoStay, RecentKept
<1>7. /\ c.layer <= active_layer - 1 /\ active_layer - 1 < node[c].superseded_in_layer
      /\ active_layer - 1 # active_layer
  BY <1>2, <1>4, <1>5, <1>6
<1>8. c \in Tree(active_layer - 1)
  BY <1>4, <1>7 DEF Tree
<1>9. /\ ChainSet(c) \subseteq Tree(active_layer)
      /\ ChainSet(c) \subseteq Tree(active_layer - 1)
  BY <1>1, <1>3, <1>5, <1>8, ChainFact
<1> QED BY <1>1, <1>2, <1>3, <1>5, <1>6, <1>8, <1>9

\* The thread goes on to mark what it replaced.
LEMMA SupersedeStep ==
    ASSUME LayerInv, NEW t \in Threads, pc[t] = "try", OldLayer(t), NEW new, NEW fields,
           Publish(t, new, fields), new # Null => GoodFields(new, fields),
           pc'  = [pc EXCEPT ![t] = "mark"], old' = [old EXCEPT ![t] = exp[t]],
           exp' = [exp EXCEPT ![t] = new], UNCHANGED <<arg, cur>>
    PROVE  /\ ThreadStep(t) /\ Replaced(t)' = ChainSet(exp[t])
           /\ \A u \in Threads \ {t} : pc'[u] = pc[u] /\ old'[u] = old[u]
<1>1. PICK c : c = exp[t]
  OBVIOUS
<1>2. SlotUnchanged(t)
  BY DEF Publish
<1>3. /\ c # Null /\ c \in NodeName /\ c \in Tree(active_layer - 1)
      /\ active_layer - 1 \in roots /\ active_layer >= 2
      /\ ChainSet(c) \subseteq Tree(active_layer - 1)
  BY <1>1, <1>2, OldFact
<1>4. KeepsSealed /\ LastTwoKept /\ NodesOK'
  BY PublishNodes
<1>5. CallsOK /\ CallOK(t) /\ active_layer \in Nat /\ active_layer < Never
  BY LayerNumbers DEF LayerInv, CallsOK, BoundsOK
<1>6. /\ active_layer' = active_layer /\ roots' = roots
      /\ DOMAIN node' = DOMAIN node \cup ({new} \ {Null})
      /\ new # Null => node'[new] = fields
  <2>1. PICK n, b : Published(new, fields, n, b)
    BY PublishFact
  <2> QED BY <2>1 DEF Published
<1>7. new # Null => /\ new \in NodeName /\ new.layer = active_layer
                    /\ fields.superseded_in_layer = Never
  BY DEF GoodFields
<1>8. /\ pc'[t] = "mark" /\ old'[t] = c /\ exp'[t] = new /\ arg' = arg /\ cur' = cur
      /\ \A u \in Threads \ {t} : pc'[u] = pc[u] /\ old'[u] = old[u] /\ exp'[u] = exp[u]
  BY <1>1, <1>5 DEF CallsOK
<1>9. ChainSet(c)' = ChainSet(c)
  BY <1>3, <1>4, MarkFrame
<1>10. ChainSet(old[t])' = ChainSet(c)
  BY <1>8, <1>9
<1>11. Tree(active_layer - 1)' = Tree(active_layer - 1)
  <2>1. PICK y : y = active_layer - 1
    OBVIOUS
  <2>2. y \in roots' /\ y < active_layer
    BY <2>1, <1>3, <1>5, <1>6
  <2>3. Tree(y)' = Tree(y)
    BY <2>2, <1>4, SealedTree
  <2>4. active_layer' - 1 = y
    BY <2>1, <1>6
  <2> QED BY <2>1, <2>3, <2>4
<1>12. exp'[t] # Null => Recent(exp[t])'
  <2> SUFFICES ASSUME new # Null
               PROVE  /\ new \in DOMAIN node' /\ new.layer # 0
                      /\ node'[new].superseded_in_layer >= active_layer'
    BY <1>8 DEF Recent
  <2> QED BY <1>3, <1>5, <1>6, <1>7, LayerNumbers
<1>13. CallOK(t)'
  <2>1. /\ arg[t].layer = active_layer /\ active_layer > 0
        /\ arg[t].key \in Keys /\ arg[t].value \in Value /\ arg[t].do_gc \in BOOLEAN
        /\ cur[t] \in DOMAIN node /\ cur[t].layer = active_layer
        /\ ~is_leaf(cur[t]) /\ Matches(cur[t], arg[t].key)
    BY <1>5 DEF CallOK
  <2>2. (old[t] \in Tree(active_layer - 1) /\ ChainSet(old[t]) \subseteq Tree(active_layer - 1))'
    BY <1>3, <1>8, <1>10, <1>11
  <2>3. exp'[t] # Null => exp'[t].layer = active_layer'
    BY <1>6, <1>7, <1>8
  <2> QED BY <2>1, <2>2, <2>3, <1>3, <1>6, <1>8, <1>12 DEF CallOK
<1>14. /\ pc' \in [Threads -> {"idle", "at", "try", "mark"}]
       /\ exp' \in [Threads -> NodeName \cup {Null}] /\ old' \in [Threads -> NodeName \cup {Null}]
       /\ arg' \in [Threads -> [layer : Layers \cup {NoLayer}, key : Key, value : Value, do_gc : BOOLEAN]]
       /\ cur' \in [Threads -> NodeName \cup {Null}]
  BY <1>1, <1>3, <1>5, <1>7 DEF CallsOK
<1>15. ThreadStep(t)
  BY <1>3, <1>8, <1>13, <1>14 DEF ThreadStep
<1>16. Replaced(t)' = ChainSet(exp[t])
  BY <1>1, <1>8, <1>10 DEF Replaced
<1> QED BY <1>8, <1>15, <1>16

\* A node without children is its own chain.
LEMMA ShortChain ==
    ASSUME LayerInv, NEW y \in roots, NEW c \in Tree(y), node[c].active_children = 0
    PROVE  /\ ChainSet(c) = {c}
           /\ \A e \in Branch : node[c].children[e] = Null
<1>1. IsPath(Chain(c), c, UniqueChild, Tree(y))
  BY ChainFact
<1>2. c \notin DOMAIN UniqueChild
  BY DEF UniqueChild
<1>3. Len(Chain(c)) \in Nat \ {0} /\ Chain(c)[1] = c
  BY <1>1 DEF IsPath
<1>4. Len(Chain(c)) = 1
  <2> SUFFICES ASSUME Len(Chain(c)) # 1 PROVE FALSE
    OBVIOUS
  <2>1. 1 \in 1 .. Len(Chain(c)) - 1
    BY <1>3
  <2>2. Chain(c)[1] \in DOMAIN UniqueChild
    BY <2>1, <1>1 DEF IsPath
  <2> QED BY <2>2, <1>2, <1>3
<1>5. ChainSet(c) = {c}
  BY <1>3, <1>4 DEF ChainSet
<1>6. NodesOK /\ c \in DOMAIN node
  BY DEF LayerInv, Tree
<1>7. Cardinality(ChildrenOf(c)) = 0 /\ IsFiniteSet(ChildrenOf(c))
  BY <1>6, ChildrenFinite DEF NodesOK
<1>8. ChildrenOf(c) = {}
  BY <1>7, FS_EmptySet
<1>9. \A e \in Branch : node[c].children[e] = Null
  BY <1>6, <1>8, NodeFact
<1> QED BY <1>5, <1>9

\* An unused child is taken out.
LEMMA SupersedeNone ==
    ASSUME LayerInv, NEW t \in Threads, pc[t] = "try", OldLayer(t), Unused(exp[t]),
           Publish(t, Null, EmptyLeaf),
           pc'  = [pc EXCEPT ![t] = "mark"], old' = [old EXCEPT ![t] = exp[t]],
           exp' = [exp EXCEPT ![t] = Null], UNCHANGED <<arg, cur>>
    PROVE  LayerInv'
<1>1. PICK n, k, b, L, c :
         /\ n = cur[t] /\ k = arg[t].key /\ b = Bits(cur[t], arg[t].key)
         /\ L = Tree(active_layer) /\ c = exp[t]
  OBVIOUS
<1>2. /\ n \in L /\ L \subseteq DOMAIN node /\ Kids[n] = node[n].children /\ b \in Branch
      /\ NodesTyped(L, Pfxs, Lens) /\ TrieShape(L, Pfxs, Lens, Kids, Null)
      /\ Root(active_layer) \in L /\ active_layer \in roots
  BY <1>1, PlaceFact
<1>3. SlotUnchanged(t) /\ active_layer' = active_layer /\ kv' = kv
  BY DEF Publish, ghosts
<1>4. c # Null /\ c \in L /\ c = node[n].children[b] /\ c.layer # active_layer
  <2>1. arg[t].layer = active_layer
    BY SlotFact
  <2> QED BY <2>1, <1>1, <1>3, OldFact DEF OldLayer
<1>5. node[c].active_children = 0 /\ ~is_active_leaf(c)
  BY <1>1 DEF Unused
<1>6. ChainSet(c) = {c} /\ \A e \in Branch : node[c].children[e] = Null
  BY <1>1, <1>2, <1>4, <1>5, ShortChain
<1>7. /\ ThreadStep(t) /\ Replaced(t)' = {c}
      /\ \A u \in Threads \ {t} : pc'[u] = pc[u] /\ old'[u] = old[u]
  BY <1>1, <1>6, SupersedeStep
<1>8. {c} \subseteq DOMAIN node
  BY <1>2, <1>4
<1>9. /\ Tree(active_layer)' = (L \ {c}) \cup ({Null} \ {Null})
      /\ \A x \in L : /\ Pfxs'[x] = Pfxs[x] /\ Lens'[x] = Lens[x]
                      /\ \A e \in Branch : Kids'[x][e] = IF x = n /\ e = b THEN Null ELSE Kids[x][e]
                      /\ node'[x].value = node[x].value
  BY <1>1, <1>7, <1>8, PublishTree
<1>10. Tree(active_layer)' = L \ {c}
  BY <1>9
<1>11. TrieShape(L \ {c}, Pfxs', Lens', Kids', Null)
  <2>1. \A e \in Branch : Kids[c][e] = Null
    BY <1>2, <1>4, <1>6 DEF Kids
  <2>2. \A x \in L \ {c}, e \in Branch : Kids'[x][e] = IF x = n /\ e = b THEN Null ELSE Kids[x][e]
    BY <1>9
  <2>3. TrieShape(L \ {c}, Pfxs, Lens, Kids', Null)
    BY <2>1, <2>2, <1>2, <1>4, ShapeRemove
  <2>4. NodesTyped(L \ {c}, Pfxs, Lens)
    BY <1>2 DEF NodesTyped
  <2>5. \A x \in L \ {c} : Pfxs'[x] = Pfxs[x] /\ Lens'[x] = Lens[x]
    BY <1>9
  <2>6. \A x \in L \ {c}, e \in Branch : Kids'[x][e] = Kids'[x][e]
    OBVIOUS
  <2> QED BY <2>3, <2>4, <2>5, <2>6, ShapeSame
<1>12. ActiveShape'
  <2>1. Root(active_layer).layer = active_layer
    BY RootFact DEF LayerInv, BoundsOK
  <2> QED BY <2>1, <1>2, <1>3, <1>4, <1>10, <1>11 DEF ActiveShape
<1>13. Holds(active_layer, kv)'
  <2>1. Holds(active_layer, kv)
    BY DEF LayerInv, ContentsOK
  <2>2. ASSUME NEW m \in L \ {c}, is_leaf(m), m.pfx \in Keys
        PROVE  node'[m].value = kv[m.pfx]
    BY <2>1, <2>2, <1>1, <1>9 DEF Holds
  <2>3. ASSUME NEW q \in Keys, \A m \in L \ {c} : ~(is_leaf(m) /\ m.pfx = q)
        PROVE  kv[q] = Inactive
    <3>1. CASE is_leaf(c) /\ c.pfx = q
      <4>1. node[c].value = kv[q]
        BY <3>1, <2>1, <1>1, <1>4 DEF Holds
      <4> QED BY <3>1, <4>1, <1>5 DEF is_active_leaf
    <3>2. CASE ~(is_leaf(c) /\ c.pfx = q)
      BY <3>2, <2>1, <2>3, <1>1 DEF Holds
    <3> QED BY <3>1, <3>2
  <2> QED BY <2>2, <2>3, <1>3, <1>10 DEF Holds
<1> QED BY <1>7, <1>12, <1>13, PublishInv

\* An unused child is replaced by a new leaf.
LEMMA SupersedeLeaf ==
    ASSUME LayerInv, NEW t \in Threads, pc[t] = "try", OldLayer(t), Unused(exp[t]),
           Publish(t, Leaf(t), EmptyLeaf),
           pc'  = [pc EXCEPT ![t] = "mark"], old' = [old EXCEPT ![t] = exp[t]],
           exp' = [exp EXCEPT ![t] = Leaf(t)], UNCHANGED <<arg, cur>>
    PROVE  LayerInv'
<1>1. PICK n, k, b, L, c, new :
         /\ n = cur[t] /\ k = arg[t].key /\ b = Bits(cur[t], arg[t].key)
         /\ L = Tree(active_layer) /\ c = exp[t] /\ new = Leaf(t)
  OBVIOUS
<1>2. /\ n \in L /\ L \subseteq DOMAIN node /\ k \in Key /\ k \in Keys
      /\ Kids[n] = node[n].children /\ b \in Branch
      /\ Pfxs[n] = n.pfx /\ Lens[n] = n.len /\ n.len < KeyLen
      /\ IsPrefixOf(Pfxs[n], Lens[n], k, KeyLen) /\ b = BranchBits(k, Lens[n])
      /\ NodesTyped(L, Pfxs, Lens) /\ TrieShape(L, Pfxs, Lens, Kids, Null)
      /\ Root(active_layer) \in L /\ active_layer \in roots
  BY <1>1, PlaceFact
<1>3. SlotUnchanged(t) /\ active_layer' = active_layer /\ kv' = kv
  BY DEF Publish, ghosts
<1>4. /\ c # Null /\ c \in L /\ c \in NodeName /\ c = node[n].children[b]
      /\ c.layer # active_layer /\ n.layer = active_layer /\ Matches(c, k)
  <2>1. arg[t].layer = active_layer /\ n.layer = active_layer
    BY <1>1, SlotFact
  <2> QED BY <2>1, <1>1, <1>3, OldFact DEF OldLayer
<1>5. node[c].active_children = 0 /\ ~is_active_leaf(c)
  BY <1>1 DEF Unused
<1>6. ChainSet(c) = {c} /\ \A e \in Branch : node[c].children[e] = Null
  BY <1>1, <1>2, <1>4, <1>5, ShortChain
<1>7. /\ new \in NodeName /\ new # Null /\ new.pfx = k /\ new.len = KeyLen
      /\ new.layer = active_layer /\ is_leaf(new) /\ new.pfx = Truncate(new.pfx, new.len)
  BY <1>1, LeafFact
\* The only leaf of the layer for k, if there is one, is c.
<1>8. ASSUME NEW x \in L, is_leaf(x), x.pfx = k PROVE x = c
  <2>1. IsPrefixOf(c.pfx, c.len, k, KeyLen) /\ c.pfx \in Key /\ c.len \in PrefixLen
    BY <1>2, <1>4, MatchesFact DEF NodeName
  <2>2. CASE is_leaf(c)
    <3>1. c.pfx = k
      BY <2>1, <2>2, <1>2, FullPrefix DEF is_leaf
    <3> QED BY <3>1, <2>2, <1>1, <1>2, <1>4, <1>8, LeafUnique
  <2>3. CASE ~is_leaf(c)
    <3>1. c.len < KeyLen
      BY <2>1, <2>3, KeyLenAssumption DEF is_leaf, PrefixLen
    <3>2. IsPrefixOf(c.pfx, c.len, x.pfx, x.len) /\ c.len < x.len
      BY <2>1, <3>1, <1>8 DEF is_leaf
    <3>3. node[c].children[BranchBits(x.pfx, c.len)] # Null
      BY <3>2, <1>1, <1>2, <1>4, PathDown
    <3>4. BranchBits(x.pfx, c.len) \in Branch
      BY <2>1, <3>1, <1>2, <1>8, BranchBitsType
    <3> QED BY <3>3, <3>4, <1>6
  <2> QED BY <2>2, <2>3
<1>9. new \notin DOMAIN node
  <2> SUFFICES ASSUME new \in DOMAIN node PROVE FALSE
    OBVIOUS
  <2>1. new \in L
    BY <1>1, <1>7, NewNodes
  <2> QED BY <2>1, <1>4, <1>7, <1>8
<1>10. GoodFields(new, EmptyLeaf)
  BY <1>7, <1>9, EmptyLeafGood
<1>11. Publish(t, new, EmptyLeaf) /\ exp' = [exp EXCEPT ![t] = new]
  BY <1>1
<1>12. /\ ThreadStep(t) /\ Replaced(t)' = {c}
       /\ \A u \in Threads \ {t} : pc'[u] = pc[u] /\ old'[u] = old[u]
  BY <1>1, <1>6, <1>10, <1>11, SupersedeStep
<1>13. {c} \subseteq DOMAIN node
  BY <1>2, <1>4
<1>14. /\ Tree(active_layer)' = (L \ {c}) \cup ({new} \ {Null})
       /\ \A x \in L : /\ Pfxs'[x] = Pfxs[x] /\ Lens'[x] = Lens[x]
                       /\ \A e \in Branch : Kids'[x][e] = IF x = n /\ e = b THEN new ELSE Kids[x][e]
                       /\ node'[x].value = node[x].value
       /\ new # Null => /\ Pfxs'[new] = new.pfx /\ Lens'[new] = new.len
                        /\ Kids'[new] = EmptyLeaf.children
                        /\ node'[new].value = EmptyLeaf.value
  BY <1>1, <1>10, <1>11, <1>12, <1>13, PublishTree
<1>15. Tree(active_layer)' = (L \ {c}) \cup {new}
  BY <1>7, <1>14
<1>16. /\ EmptyLeaf.value = Inactive
       /\ \A e \in Branch : EmptyLeaf.children[e] = Null
  BY FieldsFact DEF EmptyLeaf, NoKids
<1>17. TrieShape((L \ {c}) \cup {new}, Pfxs', Lens', Kids', Null)
  <2>1. PICK L1, C1 : /\ L1 = L \ {c}
                      /\ C1 = [x \in L |-> [e \in Branch |-> IF x = n /\ e = b THEN Null ELSE Kids[x][e]]]
    OBVIOUS
  <2>2. \A x \in L, e \in Branch : C1[x][e] = IF x = n /\ e = b THEN Null ELSE Kids[x][e]
    BY <2>1
  <2>3. \A e \in Branch : Kids[c][e] = Null
    BY <1>2, <1>4, <1>6 DEF Kids
  <2>4. \A x \in L \ {c}, e \in Branch : C1[x][e] = IF x = n /\ e = b THEN Null ELSE Kids[x][e]
    BY <2>2
  <2>5. TrieShape(L1, Pfxs, Lens, C1, Null)
    <3>1. TrieShape(L \ {c}, Pfxs, Lens, C1, Null)
      BY <2>3, <2>4, <1>2, <1>4, ShapeRemove
    <3> QED BY <3>1, <2>1
  <2>6. NodesTyped(L1, Pfxs, Lens) /\ n \in L1 /\ new \notin L1
    BY <2>1, <1>2, <1>4, <1>9 DEF NodesTyped
  <2>7. \A x \in L1, e \in Branch : Kids'[x][e] = IF x = n /\ e = b THEN new ELSE C1[x][e]
    BY <2>1, <2>2, <1>14
  <2>8. \A x \in L1 : Pfxs'[x] = Pfxs[x] /\ Lens'[x] = Lens[x]
    BY <2>1, <1>14
  <2>9. Added(L1, Pfxs, Lens, C1, n, b, new, k, KeyLen, L1 \cup {new}, Pfxs', Lens', Kids')
    BY <2>7, <2>8, <1>7, <1>14 DEF Added
  <2>10. C1[n][b] = Null
    BY <2>2, <1>2
  <2>11. \A e \in Branch : Kids'[new][e] = Null
    BY <1>7, <1>14, <1>16
  <2>12. Attached(L1, Pfxs, Lens, C1, Null, n, k, KeyLen, new, L1 \cup {new}, Pfxs', Lens', Kids')
    BY <2>9, <2>10, <2>11, <1>2 DEF Attached
  <2>13. KeyLen \in PrefixLen /\ Lens[n] < KeyLen
    BY <1>2, KeyLenAssumption DEF PrefixLen
  <2>14. TrieShape(L1 \cup {new}, Pfxs', Lens', Kids', Null)
    BY <2>5, <2>6, <2>12, <2>13, <1>2, <1>7, ShapeAttach
  <2> QED BY <2>1, <2>14
<1>18. ActiveShape'
  <2>1. Root(active_layer).layer = active_layer
    BY RootFact DEF LayerInv, BoundsOK
  <2> QED BY <2>1, <1>2, <1>3, <1>4, <1>15, <1>17 DEF ActiveShape
<1>19. Holds(active_layer, kv)'
  <2>1. Holds(active_layer, kv)
    BY DEF LayerInv, ContentsOK
  <2>2. kv[k] = Inactive
    <3>1. CASE \E x \in L : is_leaf(x) /\ x.pfx = k
      <4>1. is_leaf(c) /\ c.pfx = k
        BY <3>1, <1>8
      <4>2. node[c].value = kv[k]
        BY <4>1, <2>1, <1>1, <1>2, <1>4 DEF Holds
      <4> QED BY <4>1, <4>2, <1>5 DEF is_active_leaf
    <3>2. CASE ~ \E x \in L : is_leaf(x) /\ x.pfx = k
      BY <3>2, <2>1, <1>1, <1>2 DEF Holds
    <3> QED BY <3>1, <3>2
  <2>3. ASSUME NEW m \in (L \ {c}) \cup {new}, is_leaf(m), m.pfx \in Keys
        PROVE  node'[m].value = kv[m.pfx]
    <3>1. CASE m = new
      BY <3>1, <2>2, <1>7, <1>14, <1>16
    <3>2. CASE m # new
      BY <3>2, <2>1, <2>3, <1>1, <1>14 DEF Holds
    <3> QED BY <3>1, <3>2
  <2>4. ASSUME NEW q \in Keys, \A m \in (L \ {c}) \cup {new} : ~(is_leaf(m) /\ m.pfx = q)
        PROVE  kv[q] = Inactive
    <3>1. q # k
      BY <2>4, <1>7
    <3>2. ~(is_leaf(c) /\ c.pfx = q)
      <4> SUFFICES ASSUME is_leaf(c), c.pfx = q PROVE FALSE
        OBVIOUS
      <4>1. IsPrefixOf(c.pfx, KeyLen, k, KeyLen) /\ c.pfx \in Key
        BY <1>2, <1>4, MatchesFact DEF NodeName, is_leaf
      <4> QED BY <4>1, <3>1, <1>2, FullPrefix
    <3>3. \A m \in L : ~(is_leaf(m) /\ m.pfx = q)
      BY <2>4, <3>2
    <3> QED BY <3>3, <2>1, <1>1 DEF Holds
  <2> QED BY <2>3, <2>4, <1>3, <1>15 DEF Holds
<1> QED BY <1>10, <1>11, <1>12, <1>18, <1>19, PublishInv

\* The end of the chain, and a copy of it.
LEMMA CopyFact ==
    ASSUME LayerInv, NEW y \in roots, NEW c \in Tree(y), NEW e, e = ChainEnd(c)
    PROVE  e \in ChainSet(c) /\ e \in Tree(y)
<1>1. IsPath(Chain(c), c, UniqueChild, Tree(y)) /\ ChainSet(c) \subseteq Tree(y)
  BY ChainFact
<1>2. Len(Chain(c)) \in 1 .. Len(Chain(c))
  BY <1>1 DEF IsPath
<1>3. e \in ChainSet(c)
  BY <1>2 DEF ChainSet, ChainEnd
<1> QED BY <1>1, <1>3

LEMMA CopyGood ==
    ASSUME LayerInv, NEW e \in Tree(active_layer), e.layer # active_layer,
           NEW new, new = Name(e.pfx, e.len, active_layer),
           NEW fields, fields = Superseding(e, active_layer)
    PROVE  /\ GoodFields(new, fields) /\ new # Null
           /\ new.pfx = e.pfx /\ new.len = e.len /\ new.layer = active_layer
           /\ fields.children = node[e].children /\ fields.value = node[e].value
<1>1. /\ NodesOK /\ active_layer \in Layers /\ active_layer \in roots /\ active_layer \in Nat
      /\ e \in DOMAIN node
  BY LayerNumbers DEF LayerInv, BoundsOK, LastTwoStay, RecentKept, Tree
<1>2. /\ e.pfx \in Key /\ e.len \in PrefixLen /\ e.pfx = Truncate(e.pfx, e.len)
      /\ e.layer \in Nat /\ e.layer <= active_layer
      /\ node[e].children \in [Branch -> NodeName \cup {Null}]
      /\ node[e].value \in Value /\ node[e].active_children = Cardinality(ChildrenOf(e))
      /\ \A d : d \in ChildrenOf(e) <=> d # Null /\ \E f \in Branch : node[e].children[f] = d
      /\ \A d \in ChildrenOf(e) : d.layer <= e.layer
      /\ is_leaf(e) => node[e].children = NoKids
      /\ Pfxs[e] = e.pfx /\ Lens[e] = e.len
  BY <1>1, NodeFact DEF NodesOK
<1>3. /\ new \in NodeName /\ new.pfx = e.pfx /\ new.len = e.len /\ new.layer = active_layer
      /\ new.pfx = Truncate(new.pfx, new.len)
  BY <1>1, <1>2, NameFact
<1>4. new \notin DOMAIN node
  <2> SUFFICES ASSUME new \in DOMAIN node PROVE FALSE
    OBVIOUS
  <2>1. new \in Tree(active_layer)
    BY <1>3, NewNodes
  <2>2. Pfxs[new] = new.pfx /\ Lens[new] = new.len
    BY <1>1, NodeFact
  <2>3. IsPrefixOf(Pfxs[e], Lens[e], Pfxs[new], Lens[new]) /\ Lens[e] = Lens[new]
    BY <2>2, <1>2, <1>3, PrefixRefl
  <2>4. ShapeUnique(Tree(active_layer), Pfxs, Lens)
    BY <1>1 DEF LayerInv, LayersOK, TrieShape
  <2>5. e = new
    BY <2>1, <2>3, <2>4 DEF ShapeUnique
  <2> QED BY <2>5, <1>3
<1>5. /\ fields.children = node[e].children /\ fields.active_children = node[e].active_children
      /\ fields.value = node[e].value /\ fields.superseded_in_layer = Never
      /\ fields = Fields(node[e].children, node[e].active_children, node[e].value, Never)
  BY FieldsFact DEF Superseding
<1>6. {fields.children[f] : f \in Branch} \ {Null} = ChildrenOf(e)
  BY <1>2, <1>5
<1>7. fields.active_children = Cardinality({fields.children[f] : f \in Branch} \ {Null})
  BY <1>2, <1>5, <1>6
<1>8. \A f \in Branch : fields.children[f] # Null => fields.children[f].layer <= active_layer
  <2> SUFFICES ASSUME NEW f \in Branch, fields.children[f] # Null
               PROVE  fields.children[f].layer <= active_layer
    OBVIOUS
  <2>1. PICK d : d = fields.children[f]
    OBVIOUS
  <2>2. d \in ChildrenOf(e) /\ d \in NodeName
    BY <2>1, <1>2, <1>5
  <2>3. d.layer <= e.layer /\ d.layer \in Nat
    BY <2>2, <1>2, LayerNumbers DEF NodeName
  <2> QED BY <2>1, <2>3, <1>1, <1>2
<1>9. is_leaf(new) => fields.children = NoKids
  BY <1>2, <1>3, <1>5 DEF is_leaf
<1>10. fields = Fields(fields.children, fields.active_children, fields.value, Never)
  BY <1>5
<1>11. GoodFields(new, fields)
  BY <1>2, <1>3, <1>4, <1>5, <1>7, <1>8, <1>9, <1>10 DEF GoodFields
<1> QED BY <1>3, <1>5, <1>11, NullFact

\* A chain of the layer, in the terms of its shape.
LEMMA ChainShape ==
    ASSUME LayerInv, NEW y \in roots, NEW n \in Tree(y), NEW b \in Branch,
           NEW c, c = node[n].children[b], c # Null, NEW s, s = Chain(c), NEW z, z = Len(s)
    PROVE  /\ IsChain(Tree(y), Kids, Null, n, b, s, z)
           /\ s[z] = ChainEnd(c) /\ z \in Nat \ {0}
           /\ ChainSet(c) = FirstOf(s, z)
           /\ \A j \in 1 .. z - 1 : ~is_leaf(s[j])
<1>1. c \in Tree(y) /\ Tree(y) \subseteq DOMAIN node /\ NodesOK
  BY TreeEdge DEF LayerInv, Tree
<1>2. /\ IsPath(s, c, UniqueChild, Tree(y))
      /\ \A m \in Tree(y) \cap DOMAIN UniqueChild : ChildrenOf(m) = {UniqueChild[m]}
  BY <1>1, ChainFact
<1>3. /\ z \in Nat \ {0} /\ s[1] = c /\ \A j \in 1 .. z : s[j] \in Tree(y)
      /\ \A j \in 1 .. z - 1 : s[j] \in DOMAIN UniqueChild /\ s[j + 1] = UniqueChild[s[j]]
  BY <1>2 DEF IsPath
<1>4. ASSUME NEW j \in 1 .. z - 1
      PROVE  /\ \E f \in Branch : Kids[s[j]][f] = s[j + 1]
             /\ \A f \in Branch : Kids[s[j]][f] \in {Null, s[j + 1]}
             /\ s[j + 1] # Null /\ ~is_leaf(s[j])
  <2>1. PICK m, d : m = s[j] /\ d = s[j + 1]
    OBVIOUS
  <2>0. j \in 1 .. z
    BY <1>3
  <2>2. m \in Tree(y) /\ m \in DOMAIN UniqueChild /\ d = UniqueChild[m]
    BY <2>0, <2>1, <1>3
  <2>3. ChildrenOf(m) = {d} /\ m \in DOMAIN node
    BY <2>2, <1>1, <1>2
  <2>4. /\ Kids[m] = node[m].children
        /\ \A x : x \in ChildrenOf(m) <=> x # Null /\ \E f \in Branch : node[m].children[f] = x
    BY <2>3, <1>1, NodeFact
  <2>5. /\ d # Null /\ \E f \in Branch : Kids[m][f] = d
        /\ \A f \in Branch : Kids[m][f] \in {Null, d}
    BY <2>3, <2>4
  <2>6. ~is_leaf(m)
    BY <2>3 DEF ChildrenOf
  <2> QED BY <2>1, <2>5, <2>6
<1>5. s[1] = Kids[n][b]
  BY <1>1, <1>3 DEF Kids, Tree
<1>6. IsChain(Tree(y), Kids, Null, n, b, s, z)
  BY <1>3, <1>4, <1>5 DEF IsChain
<1> QED BY <1>3, <1>4, <1>6 DEF ChainEnd, ChainSet, FirstOf

\* A child that is in use is replaced by a copy of the end of its chain.
LEMMA SupersedeCopy ==
    ASSUME LayerInv, NEW t \in Threads, pc[t] = "try", OldLayer(t),
           NEW e, e = ChainEnd(exp[t]), NEW new, new = Name(e.pfx, e.len, active_layer),
           NEW fields, fields = Superseding(e, active_layer), Publish(t, new, fields),
           pc'  = [pc EXCEPT ![t] = "mark"], old' = [old EXCEPT ![t] = exp[t]],
           exp' = [exp EXCEPT ![t] = new], UNCHANGED <<arg, cur>>
    PROVE  LayerInv'
<1>1. PICK n, b, L, c, s, z :
         /\ n = cur[t] /\ b = Bits(cur[t], arg[t].key)
         /\ L = Tree(active_layer) /\ c = exp[t] /\ s = Chain(c) /\ z = Len(s)
  OBVIOUS
<1>2. /\ n \in L /\ L \subseteq DOMAIN node /\ Kids[n] = node[n].children /\ b \in Branch
      /\ NodesTyped(L, Pfxs, Lens) /\ TrieShape(L, Pfxs, Lens, Kids, Null)
      /\ Root(active_layer) \in L /\ active_layer \in roots
  BY <1>1, PlaceFact
<1>3. SlotUnchanged(t) /\ active_layer' = active_layer /\ kv' = kv
  BY DEF Publish, ghosts
<1>4. /\ c # Null /\ c \in L /\ c = node[n].children[b]
      /\ ChainSet(c) \subseteq L /\ ChainSet(c) \subseteq Tree(active_layer - 1)
  BY <1>1, <1>3, OldFact
<1>5. n.layer = active_layer /\ active_layer \in Nat
  BY <1>1, SlotFact, LayerNumbers
<1>6. /\ IsChain(L, Kids, Null, n, b, s, z)
      /\ s[z] = ChainEnd(c) /\ z \in Nat \ {0}
      /\ ChainSet(c) = FirstOf(s, z)
      /\ \A j \in 1 .. z - 1 : ~is_leaf(s[j])
  <2>1. /\ n \in Tree(active_layer) /\ c = node[n].children[b] /\ c # Null
        /\ s = Chain(c) /\ z = Len(s) /\ b \in Branch /\ active_layer \in roots
    BY <1>1, <1>2, <1>4
  <2>2. /\ IsChain(Tree(active_layer), Kids, Null, n, b, s, z)
        /\ s[z] = ChainEnd(c) /\ z \in Nat \ {0}
        /\ ChainSet(c) = FirstOf(s, z)
        /\ \A j \in 1 .. z - 1 : ~is_leaf(s[j])
    BY <2>1, ChainShape
  <2>3. L = Tree(active_layer)
    BY <1>1
  <2> QED BY <2>2, <2>3
<1>7. s[z] = e /\ e \in ChainSet(c) /\ e \in L
  BY <1>1, <1>2, <1>4, <1>6, CopyFact
<1>8. \A x \in ChainSet(c) : x.layer # active_layer
  <2> SUFFICES ASSUME NEW x \in ChainSet(c) PROVE x.layer # active_layer
    OBVIOUS
  <2>1. x \in DOMAIN node /\ x.layer <= active_layer - 1
    BY <1>4 DEF Tree
  <2>2. x.layer \in Nat
    BY <2>1, NodeFact DEF LayerInv
  <2> QED BY <2>1, <2>2, <1>5
<1>9. /\ GoodFields(new, fields) /\ new # Null
      /\ new.pfx = e.pfx /\ new.len = e.len /\ new.layer = active_layer
      /\ fields.children = node[e].children /\ fields.value = node[e].value
  BY <1>1, <1>7, <1>8, CopyGood
<1>10. new \notin DOMAIN node
  BY <1>9 DEF GoodFields
<1>11. /\ ThreadStep(t) /\ Replaced(t)' = ChainSet(c)
       /\ \A u \in Threads \ {t} : pc'[u] = pc[u] /\ old'[u] = old[u]
  BY <1>1, <1>9, SupersedeStep
<1>12. ChainSet(c) \subseteq DOMAIN node
  BY <1>2, <1>4
<1>13. /\ Tree(active_layer)' = (L \ ChainSet(c)) \cup ({new} \ {Null})
       /\ \A x \in L : /\ Pfxs'[x] = Pfxs[x] /\ Lens'[x] = Lens[x]
                       /\ \A f \in Branch : Kids'[x][f] = IF x = n /\ f = b THEN new ELSE Kids[x][f]
                       /\ node'[x].value = node[x].value
       /\ new # Null => /\ Pfxs'[new] = new.pfx /\ Lens'[new] = new.len
                        /\ Kids'[new] = fields.children
                        /\ node'[new].value = fields.value
  <2>1. PICK gone : gone = ChainSet(c)
    OBVIOUS
  <2>2. Replaced(t)' = gone /\ gone \subseteq DOMAIN node
    BY <2>1, <1>11, <1>12
  <2>3. /\ Tree(active_layer)' = (L \ gone) \cup ({new} \ {Null})
        /\ \A x \in L : /\ Pfxs'[x] = Pfxs[x] /\ Lens'[x] = Lens[x]
                        /\ \A f \in Branch : Kids'[x][f] = IF x = n /\ f = b THEN new ELSE Kids[x][f]
                        /\ node'[x].value = node[x].value
        /\ new # Null => /\ Pfxs'[new] = new.pfx /\ Lens'[new] = new.len
                         /\ Kids'[new] = fields.children
                         /\ node'[new].value = fields.value
    BY <2>2, <1>1, <1>9, <1>11, PublishTree
  <2> QED BY <2>1, <2>3
<1>14. Tree(active_layer)' = (L \ ChainSet(c)) \cup {new}
  BY <1>9, <1>13
<1>15. /\ Pfxs[e] = e.pfx /\ Lens[e] = e.len /\ Kids[e] = node[e].children /\ e # Null
  BY <1>2, <1>7, NodeFact DEF LayerInv
<1>16. TrieShape((L \ ChainSet(c)) \cup {new}, Pfxs', Lens', Kids', Null)
  <2>1. PICK L1 : L1 = L \ FirstOf(s, z - 1)
    OBVIOUS
  <2>2. PICK C1 : \A x \in L1, f \in Branch : C1[x][f] = IF x = n /\ f = b THEN e ELSE Kids[x][f]
    <3> DEFINE C1 == [x \in L1 |-> [f \in Branch |-> IF x = n /\ f = b THEN e ELSE Kids[x][f]]]
    <3>1. \A x \in L1, f \in Branch : C1[x][f] = IF x = n /\ f = b THEN e ELSE Kids[x][f]
      OBVIOUS
    <3> HIDE DEF C1
    <3> QED BY <3>1
  <2>3. TrieShape(L1, Pfxs, Lens, C1, Null) /\ n \in L1 /\ e \in L1
    <3>1. Rewired(L1, Kids, n, b, s[z], C1)
      BY <2>2, <1>7 DEF Rewired
    <3>2. /\ NodesTyped(L, Pfxs, Lens) /\ TrieShape(L, Pfxs, Lens, Kids, Null)
          /\ n \in L /\ b \in Branch /\ IsChain(L, Kids, Null, n, b, s, z) /\ s[z] # Null
      BY <1>2, <1>6, <1>7, <1>15
    <3>3. TrieShape(L1, Pfxs, Lens, C1, Null) /\ n \in L1 /\ s[z] \in L1
      BY <2>1, <3>1, <3>2, ShapeBypass
    <3> QED BY <3>3, <1>7
  <2>4. NodesTyped(L1, Pfxs, Lens) /\ L1 \subseteq L
    BY <2>1, <1>2 DEF NodesTyped
  <2>5. n # e /\ new \notin L1
    BY <2>4, <1>2, <1>5, <1>7, <1>8, <1>10
  <2>6. ASSUME NEW x \in L1 \ {e}, NEW f \in Branch
        PROVE  Kids'[x][f] = IF C1[x][f] = e THEN new ELSE C1[x][f]
    <3>1. Kids'[x][f] = IF x = n /\ f = b THEN new ELSE Kids[x][f]
      BY <2>4, <1>13
    <3>2. C1[x][f] = IF x = n /\ f = b THEN e ELSE Kids[x][f]
      BY <2>2
    <3>3. C1[n][b] = e
      BY <2>2, <2>3, <1>2
    <3>4. C1[x][f] = e => x = n /\ f = b
      BY <3>3, <2>3, <2>4, <1>2, <1>15, ShapeOneParent
    <3> QED BY <3>1, <3>2, <3>4
  <2>7. \A f \in Branch : Kids'[new][f] = C1[e][f]
    BY <2>2, <2>3, <2>5, <1>9, <1>13, <1>15
  <2>8. /\ Pfxs'[new] = Pfxs[e] /\ Lens'[new] = Lens[e]
        /\ \A x \in L1 \ {e} : Pfxs'[x] = Pfxs[x] /\ Lens'[x] = Lens[x]
    BY <2>4, <1>9, <1>13, <1>15
  <2>9. Copied(L1, Pfxs, Lens, C1, e, new, Pfxs', Lens', Kids')
    BY <2>6, <2>7, <2>8 DEF Copied
  <2>10. TrieShape((L1 \ {e}) \cup {new}, Pfxs', Lens', Kids', Null)
    BY <2>3, <2>4, <2>5, <2>9, <1>9, <1>15, ShapeCopy
  <2>11. \A x : x \in ChainSet(c) <=> x = e \/ x \in FirstOf(s, z - 1)
    <3>1. \A j : j \in 1 .. z <=> j = z \/ j \in 1 .. z - 1
      BY <1>6
    <3> QED BY <3>1, <1>6, <1>7 DEF FirstOf
  <2>12. L1 \ {e} = L \ ChainSet(c)
    BY <2>1, <2>11
  <2> QED BY <2>10, <2>12
<1>17. ActiveShape'
  <2>1. Root(active_layer).layer = active_layer
    BY RootFact DEF LayerInv, BoundsOK
  <2> QED BY <2>1, <1>2, <1>3, <1>8, <1>14, <1>16 DEF ActiveShape
<1>18. Holds(active_layer, kv)'
  <2>1. Holds(active_layer, kv)
    BY DEF LayerInv, ContentsOK
  <2>2. is_leaf(new) <=> is_leaf(e)
    BY <1>9 DEF is_leaf
  <2>3. ASSUME NEW m \in (L \ ChainSet(c)) \cup {new}, is_leaf(m), m.pfx \in Keys
        PROVE  node'[m].value = kv[m.pfx]
    <3>1. CASE m = new
      <4>1. node[e].value = kv[e.pfx]
        BY <3>1, <2>1, <2>2, <2>3, <1>1, <1>7, <1>9 DEF Holds
      <4> QED BY <3>1, <4>1, <1>9, <1>13
    <3>2. CASE m # new
      BY <3>2, <2>1, <2>3, <1>1, <1>13 DEF Holds
    <3> QED BY <3>1, <3>2
  <2>4. ASSUME NEW q \in Keys, \A m \in (L \ ChainSet(c)) \cup {new} : ~(is_leaf(m) /\ m.pfx = q)
        PROVE  kv[q] = Inactive
    <3>1. ASSUME NEW m \in L, is_leaf(m), m.pfx = q PROVE FALSE
      <4>1. m \in ChainSet(c)
        BY <2>4, <3>1
      <4>2. PICK j \in 1 .. z : m = s[j]
        BY <4>1, <1>6 DEF FirstOf
      <4>3. CASE j = z
        <5>1. m = e
          BY <4>2, <4>3, <1>7
        <5> QED BY <5>1, <2>2, <2>4, <3>1, <1>9
      <4>4. CASE j # z
        <5>1. j \in 1 .. z - 1
          BY <4>4, <1>6
        <5> QED BY <5>1, <4>2, <3>1, <1>6
      <4> QED BY <4>3, <4>4
    <3> QED BY <3>1, <2>1, <1>1 DEF Holds
  <2> QED BY <2>3, <2>4, <1>3, <1>14 DEF Holds
<1> QED BY <1>9, <1>11, <1>17, <1>18, PublishInv

LEMMA InsertSupersedeInv ==
    ASSUME LayerInv, NEW t \in Threads, InsertSupersede(t), ~failed
    PROVE  LayerInv'
<1>1. PICK r : r = Replacement(t)
  OBVIOUS
<1>2. /\ pc[t] = "try" /\ OldLayer(t)
      /\ Publish(t, r.name, r.fields)
      /\ pc'  = [pc EXCEPT ![t] = "mark"]
      /\ old' = [old EXCEPT ![t] = exp[t]]
      /\ exp' = [exp EXCEPT ![t] = r.name]
      /\ UNCHANGED <<arg, cur>>
  BY <1>1 DEF InsertSupersede
<1>3. arg[t].layer = active_layer /\ arg[t].do_gc \in BOOLEAN
  BY <1>2, SlotFact
<1>4. CASE Unused(exp[t]) /\ arg[t].do_gc
  <2>1. r.name = Null /\ r.fields = EmptyLeaf
    BY <1>1, <1>4 DEF Replacement
  <2> QED BY <2>1, <1>2, <1>4, SupersedeNone
<1>5. CASE Unused(exp[t]) /\ ~arg[t].do_gc
  <2>1. r.name = Leaf(t) /\ r.fields = EmptyLeaf
    BY <1>1, <1>5 DEF Replacement
  <2> QED BY <2>1, <1>2, <1>5, SupersedeLeaf
<1>6. CASE ~Unused(exp[t])
  <2>1. PICK e, new, fields : /\ e = ChainEnd(exp[t]) /\ new = Name(e.pfx, e.len, active_layer)
                              /\ fields = Superseding(e, active_layer)
    OBVIOUS
  <2>2. r.name = new /\ r.fields = fields
    BY <2>1, <1>1, <1>3, <1>6 DEF Replacement
  <2>3. Publish(t, new, fields) /\ exp' = [exp EXCEPT ![t] = new]
    BY <2>2, <1>2
  <2> QED BY <2>1, <2>3, <1>2, SupersedeCopy
<1> QED BY <1>4, <1>5, <1>6

-----------------------------------------------------------------------------
(* Marking what was replaced *)

\* What set_superseded_layer leaves alone and what it changes.
Marked(S) ==
    /\ DOMAIN node' = DOMAIN node
    /\ \A m \in DOMAIN node :
          /\ node'[m] \in NodeBody
          /\ node'[m].children = node[m].children
          /\ node'[m].active_children = node[m].active_children
          /\ node'[m].value = node[m].value
          /\ node'[m].superseded_in_layer = IF m \in S THEN active_layer ELSE node[m].superseded_in_layer

LEMMA MarkFact ==
    ASSUME LayerInv, NEW t \in Threads, MarkSuperseded(t), NEW S, S = ChainSet(old[t])
    PROVE  Marked(S)
<1>1. /\ pc[t] = "mark" /\ NodesOK /\ active_layer > 0 /\ active_layer \in Layers
  BY DEF MarkSuperseded, LayerInv, CallsOK, CallOK, BoundsOK
<1>2. arg[t].layer = active_layer
  BY <1>1, SlotFact
<1>3. node' = [m \in DOMAIN node |->
                 IF m \in S THEN [node[m] EXCEPT !.superseded_in_layer = active_layer]
                 ELSE node[m]]
  BY <1>2 DEF MarkSuperseded, ChainSet
<1>4. active_layer \in 1 .. MaxLayer \cup {Never}
  BY <1>1, LayerNumbers DEF Layers
<1>5. ASSUME NEW m \in DOMAIN node
      PROVE  /\ node'[m] \in NodeBody
             /\ node'[m].children = node[m].children
             /\ node'[m].active_children = node[m].active_children
             /\ node'[m].value = node[m].value
             /\ node'[m].superseded_in_layer = IF m \in S THEN active_layer ELSE node[m].superseded_in_layer
  <2>1. node[m] \in NodeBody
    BY <1>1 DEF NodesOK
  <2>2. CASE m \in S
    <3>1. node'[m] = [node[m] EXCEPT !.superseded_in_layer = active_layer]
      BY <2>2, <1>3
    <3> QED BY <3>1, <2>1, <2>2, <1>4 DEF NodeBody
  <2>3. CASE m \notin S
    <3>1. node'[m] = node[m]
      BY <2>3, <1>3
    <3> QED BY <3>1, <2>1, <2>3
  <2> QED BY <2>2, <2>3
<1>6. DOMAIN node' = DOMAIN node
  BY <1>3
<1> QED BY <1>5, <1>6 DEF Marked

\* The layers are the same, for what is marked counted as replaced already.
LEMMA MarkLayers ==
    ASSUME LayerInv, NEW t \in Threads, pc[t] = "mark", pc'[t] # "mark",
           \A u \in Threads \ {t} : pc'[u] = pc[u] /\ old'[u] = old[u],
           NEW S, S = ChainSet(old[t]), Marked(S),
           active_layer' = active_layer, roots' = roots
    PROVE  /\ KeepsSealed /\ NodesOK'
           /\ Tree(active_layer)' = Tree(active_layer)
<1>1. /\ NodesOK /\ BoundsOK /\ active_layer \in Nat /\ active_layer < Never
      /\ active_layer > 0 /\ active_layer - 1 \in roots
      /\ S \subseteq Tree(active_layer - 1)
  BY LayerNumbers DEF LayerInv, BoundsOK, LastTwoStay, RecentKept, CallsOK, CallOK
<1>2. \A m \in S : /\ m \in DOMAIN node /\ m.layer <= active_layer - 1
                   /\ active_layer - 1 < node[m].superseded_in_layer
  BY <1>1 DEF Tree
<1>3. /\ DOMAIN node' = DOMAIN node
      /\ \A m \in DOMAIN node :
            /\ node'[m] \in NodeBody
            /\ node'[m].children = node[m].children
            /\ node'[m].active_children = node[m].active_children
            /\ node'[m].value = node[m].value
            /\ node'[m].superseded_in_layer = IF m \in S THEN active_layer ELSE node[m].superseded_in_layer
  BY DEF Marked
<1>4. \A m \in DOMAIN node : m.layer \in Nat /\ node[m].superseded_in_layer \in Nat
  BY <1>1, NodeFact
<1>5. \A m \in S : m.layer < active_layer /\ node[m].superseded_in_layer >= active_layer
  BY <1>1, <1>2, <1>4
<1>6. KeepsSealed
  <2>1. \A y \in roots' : Tree(y) \subseteq DOMAIN node'
    BY <1>3 DEF Tree
  <2> QED BY <2>1, <1>3, <1>5 DEF KeepsSealed
<1>7. NodesOK'
  <2>1. ASSUME NEW m \in DOMAIN node PROVE ChildrenOf(m)' = ChildrenOf(m)
    <3>1. node'[m].children = node[m].children
      BY <1>3
    <3> QED BY <3>1 DEF ChildrenOf
  <2>2. ASSUME NEW m \in DOMAIN node
        PROVE  /\ m.layer < node'[m].superseded_in_layer
               /\ \/ node'[m].superseded_in_layer = Never
                  \/ /\ node'[m].superseded_in_layer <= active_layer
                     /\ node'[m].superseded_in_layer - 1 \in roots
    <3>1. CASE m \in S
      BY <3>1, <1>1, <1>3, <1>5
    <3>2. CASE m \notin S
      BY <3>2, <1>1, <1>3 DEF NodesOK
    <3> QED BY <3>1, <3>2
  <2>3. \A m \in DOMAIN node :
           /\ m.pfx = Truncate(m.pfx, m.len)
           /\ is_leaf(m) => node[m].children = NoKids
           /\ m.layer <= active_layer
           /\ node[m].active_children = Cardinality(ChildrenOf(m))
           /\ \A c \in ChildrenOf(m) : c.layer <= m.layer
    BY <1>1 DEF NodesOK
  <2>4. DOMAIN node' \subseteq NodeName
    BY <1>1, <1>3 DEF NodesOK
  <2> QED BY <2>1, <2>2, <2>3, <2>4, <1>3 DEF NodesOK
<1>8. LastTwoKept
  BY <1>1 DEF LastTwoKept, BoundsOK, LastTwoStay, RecentKept
<1>9. ASSUME NEW m PROVE m \in Pending <=> m \in Pending' \/ m \in S
  <2>1. m \in Pending' <=> \E u \in Threads \ {t} : pc[u] = "mark" /\ m \in ChainSet(old[u])
    BY <1>6, <1>8, PendingFrame
  <2> QED BY <2>1 DEF Pending
<1>10. ASSUME NEW m PROVE m \in Tree(active_layer)' <=> m \in Tree(active_layer)
  <2>1. m \in Tree(active_layer) <=> /\ m \in DOMAIN node /\ m.layer <= active_layer
                                     /\ active_layer < node[m].superseded_in_layer
                                     /\ m \notin Pending
    BY DEF Tree
  <2>2. m \in Tree(active_layer)' <=> /\ m \in DOMAIN node /\ m.layer <= active_layer
                                      /\ active_layer < node'[m].superseded_in_layer
                                      /\ m \notin Pending'
    BY <1>3 DEF Tree
  <2>3. CASE m \in S
    <3>1. m \in DOMAIN node /\ node'[m].superseded_in_layer = active_layer /\ m \in Pending
      BY <2>3, <1>2, <1>3, <1>9
    <3> QED BY <3>1, <2>1, <2>2, <1>1
  <2>4. CASE m \notin S
    <3>1. m \in DOMAIN node => node'[m].superseded_in_layer = node[m].superseded_in_layer
      BY <2>4, <1>3
    <3> QED BY <3>1, <2>1, <2>2, <2>4, <1>9
  <2> QED BY <2>3, <2>4
<1>11. Tree(active_layer)' = Tree(active_layer)
  BY <1>10
<1> QED BY <1>6, <1>7, <1>11

LEMMA MarkSupersededInv ==
    ASSUME LayerInv, NEW t \in Threads, MarkSuperseded(t), ~failed
    PROVE  LayerInv'
<1>1. PICK S, L, a, n : /\ S = ChainSet(old[t]) /\ L = Tree(active_layer)
                        /\ a = arg[t] /\ n = exp[t]
  OBVIOUS
<1>2. /\ pc[t] = "mark" /\ (IF n = Null THEN Return(t) ELSE GoTo(t, n, a, node'))
      /\ roots' = roots /\ active_layer' = active_layer /\ failed' = failed
      /\ UNCHANGED <<freeable_lowerbound, sealed>> /\ kv' = kv
  BY <1>1 DEF MarkSuperseded, ghosts
<1>3. Marked(S)
  BY <1>1, MarkFact
<1>4. /\ pc'[t] # "mark"
      /\ \A u \in Threads \ {t} : pc'[u] = pc[u] /\ old'[u] = old[u]
  <2>1. CallsOK
    BY DEF LayerInv
  <2>2. CASE n = Null
    BY <2>1, <2>2, <1>2 DEF Return, CallsOK
  <2>3. CASE n # Null
    BY <2>1, <2>3, <1>2, GoToOthers
  <2> QED BY <2>2, <2>3
<1>5. /\ KeepsSealed /\ NodesOK' /\ Tree(active_layer)' = Tree(active_layer)
  BY <1>1, <1>2, <1>3, <1>4, MarkLayers
<1>6. /\ NodesOK /\ active_layer \in roots /\ active_layer \in Nat /\ L \subseteq DOMAIN node
      /\ Tree(active_layer)' = L
  BY <1>1, <1>5, LayerNumbers DEF LayerInv, BoundsOK, LastTwoStay, RecentKept, Tree
<1>7. /\ Root(active_layer) \in L /\ TrieShape(L, Pfxs, Lens, Kids, Null)
      /\ NodesTyped(L, Pfxs, Lens)
  BY <1>1, <1>6, TreeTyped DEF LayerInv, LayersOK
<1>8. \A m \in L : /\ Pfxs'[m] = Pfxs[m] /\ Lens'[m] = Lens[m] /\ Kids'[m] = Kids[m]
                   /\ node'[m].value = node[m].value
  BY <1>3, <1>6 DEF Pfxs, Lens, Kids, Marked
<1>9. ActiveShape'
  <2>1. \A m \in L, e \in Branch : Kids'[m][e] = Kids[m][e]
    BY <1>8
  <2>2. TrieShape(L, Pfxs', Lens', Kids', Null)
    BY <2>1, <1>7, <1>8, ShapeSame
  <2> QED BY <2>2, <1>2, <1>6, <1>7 DEF ActiveShape
<1>10. Holds(active_layer, kv)' /\ kv' \in [Keys -> Value] /\ failed' \in BOOLEAN
  <2>1. Holds(active_layer, kv) /\ kv \in [Keys -> Value] /\ failed \in BOOLEAN
    BY DEF LayerInv, ContentsOK, BoundsOK
  <2> QED BY <2>1, <1>1, <1>2, <1>6, <1>8 DEF Holds
<1>12. LayerZero'
  BY <1>3, ZeroKept DEF LayerInv, Marked
<1>11. ThreadStep(t)
  <2>1. CASE n = Null
    BY <2>1, <1>2, ReturnStep
  <2>2. CASE n # Null
    <3>1. CallArgs(a)
      BY <1>1, <1>2, ArgsFact
    <3>2. n \in DOMAIN node /\ n.layer = active_layer
      BY <2>2, <1>1, <1>2 DEF LayerInv, CallsOK, CallOK, Recent
    <3>3. n \in Tree(active_layer)'
      BY <3>2, <1>5, NewNodes
    <3>4. GoTo(t, n, a, node')
      BY <2>2, <1>2
    <3> QED BY <3>1, <3>2, <3>3, <3>4, <1>2, <1>5, <1>9, <1>12, GoToStep
  <2> QED BY <2>1, <2>2
<1> QED BY <1>2, <1>5, <1>9, <1>10, <1>11, <1>12, StepInv

-----------------------------------------------------------------------------
(* A new layer *)

\* Layer a is sealed: node s takes over from its root r.
Bumped(a, r, s) ==
    /\ a = active_layer /\ active_layer' = a + 1 /\ roots' = roots \cup {a + 1}
    /\ r = Root(a) /\ s = Root(a + 1) /\ r \in DOMAIN node /\ s \notin DOMAIN node
    /\ a \in Nat /\ a \in Layers /\ a + 1 \in Layers /\ a + 1 < Never /\ a \in roots
    /\ DOMAIN node' = DOMAIN node \cup {s}
    /\ \A m \in DOMAIN node \ {r} : node'[m] = node[m]
    /\ /\ node'[r].children = node[r].children
       /\ node'[r].active_children = node[r].active_children
       /\ node'[r].value = node[r].value
       /\ node'[r].superseded_in_layer = a + 1
    /\ /\ node'[s].children = node[r].children
       /\ node'[s].active_children = node[r].active_children
       /\ node'[s].value = node[r].value
       /\ node'[s].superseded_in_layer = Never
    /\ node'[r] \in NodeBody /\ node'[s] \in NodeBody

LEMMA BumpFact ==
    ASSUME LayerInv, bump_active_layer
    PROVE  Bumped(active_layer, Root(active_layer), Root(active_layer + 1))
<1>1. PICK a, r, s : a = active_layer /\ r = Root(a) /\ s = Root(a + 1)
  OBVIOUS
<1>2. /\ active_layer' = a + 1 /\ roots' = roots \cup {a + 1} /\ a \in roots /\ a + 1 \in Layers
      /\ node' = Put([node EXCEPT ![r].superseded_in_layer = a + 1], s, Superseding(r, a + 1))
  BY <1>1 DEF bump_active_layer
<1>3. a \in Layers /\ a \in Nat /\ a + 1 < Never /\ NodesOK
  BY <1>1, <1>2, LayerNumbers DEF LayerInv, BoundsOK
<1>4. r \in DOMAIN node
  BY <1>1, <1>2 DEF LayerInv, LayersOK, Tree
<1>5. s.layer = a + 1 /\ r.layer = a
  BY <1>1, <1>2, <1>3, RootFact
<1>6. s \notin DOMAIN node /\ s # r
  BY <1>1, <1>3, <1>4, <1>5 DEF NodesOK
<1>7. node[r] \in NodeBody
  BY <1>3, <1>4 DEF NodesOK
<1>8. /\ DOMAIN node' = DOMAIN node \cup {s}
      /\ \A m \in DOMAIN node \ {r} : node'[m] = node[m]
      /\ node'[r] = [node[r] EXCEPT !.superseded_in_layer = a + 1]
      /\ node'[s] = Fields(node[r].children, node[r].active_children, node[r].value, Never)
  BY <1>2, <1>4, <1>6 DEF Put, Superseding
<1>9. a + 1 \in 1 .. MaxLayer \cup {Never} /\ Never \in 1 .. MaxLayer \cup {Never}
  BY <1>2, <1>3, LayerNumbers DEF Layers
<1>10. /\ node'[r].children = node[r].children
       /\ node'[r].active_children = node[r].active_children
       /\ node'[r].value = node[r].value
       /\ node'[r].superseded_in_layer = a + 1
       /\ node'[r] \in NodeBody
  BY <1>7, <1>8, <1>9 DEF NodeBody
<1>11. /\ node'[s].children = node[r].children
       /\ node'[s].active_children = node[r].active_children
       /\ node'[s].value = node[r].value
       /\ node'[s].superseded_in_layer = Never
       /\ node'[s] \in NodeBody
  BY <1>7, <1>8, <1>9 DEF NodeBody, Fields
<1>12. Bumped(a, r, s)
  BY <1>1, <1>2, <1>3, <1>4, <1>6, <1>8, <1>10, <1>11 DEF Bumped
<1> QED BY <1>1, <1>12

\* A new layer has the nodes of the old one, but for the root.
LEMMA BumpTrees ==
    ASSUME LayerInv, NEW a, NEW r, NEW s, Bumped(a, r, s), Pending = {}, Pending' = {}
    PROVE  /\ \A x \in roots : Tree(x)' = Tree(x)
           /\ Tree(a + 1)' = (Tree(a) \ {r}) \cup {s}
<1>1. /\ a = active_layer /\ active_layer' = a + 1 /\ roots \subseteq 0 .. a
      /\ a \in Nat /\ a + 1 < Never /\ r.layer = a /\ s.layer = a + 1
      /\ r \in DOMAIN node /\ s \notin DOMAIN node /\ DOMAIN node' = DOMAIN node \cup {s}
      /\ node'[s].superseded_in_layer = Never /\ node'[r].superseded_in_layer = a + 1
      /\ node[r].superseded_in_layer = Never
  <2>1. r.layer = a /\ s.layer = a + 1 /\ r.layer = active_layer /\ r \in DOMAIN node
    BY RootFact DEF Bumped
  <2>2. node[r].superseded_in_layer = Never
    BY <2>1, NewNodes
  <2> QED BY <2>1, <2>2 DEF Bumped, LayerInv, BoundsOK
<1>2. \A m \in DOMAIN node \ {r} : node'[m] = node[m]
  BY DEF Bumped
<1>3. \A m \in DOMAIN node : /\ m.layer \in Nat /\ m.layer <= a
                             /\ node[m].superseded_in_layer \in Nat
                             /\ \/ node[m].superseded_in_layer = Never
                                \/ node[m].superseded_in_layer <= a
  BY <1>1, NodeFact DEF LayerInv, NodesOK
<1>4. Never \in Nat
  BY LayerNumbers
<1>5. ASSUME NEW x \in roots PROVE Tree(x)' = Tree(x)
  <2>1. x \in Nat /\ x <= a
    BY <1>1
  <2>2. \A m : m \in Tree(x) <=> /\ m \in DOMAIN node /\ m.layer <= x
                                 /\ x < node[m].superseded_in_layer
    BY DEF Tree
  <2>3. \A m : m \in Tree(x)' <=> /\ m \in DOMAIN node' /\ m.layer <= x
                                  /\ x < node'[m].superseded_in_layer
    BY DEF Tree
  <2>4. ASSUME NEW m PROVE m \in Tree(x)' <=> m \in Tree(x)
    <3>1. CASE m = r
      BY <3>1, <2>1, <2>2, <2>3, <1>1, <1>4
    <3>2. CASE m = s
      BY <3>2, <2>1, <2>2, <2>3, <1>1
    <3>3. CASE m # r /\ m # s
      BY <3>3, <2>2, <2>3, <1>1, <1>2
    <3> QED BY <3>1, <3>2, <3>3
  <2> QED BY <2>4
<1>6. Tree(a + 1)' = (Tree(a) \ {r}) \cup {s}
  <2>2. \A m : m \in Tree(a) <=> /\ m \in DOMAIN node /\ m.layer <= a
                                 /\ a < node[m].superseded_in_layer
    BY DEF Tree
  <2>3. \A m : m \in Tree(a + 1)' <=> /\ m \in DOMAIN node' /\ m.layer <= a + 1
                                      /\ a + 1 < node'[m].superseded_in_layer
    BY DEF Tree
  <2>4. ASSUME NEW m PROVE m \in Tree(a + 1)' <=> m \in (Tree(a) \ {r}) \cup {s}
    <3>1. CASE m = r
      BY <3>1, <2>3, <1>1
    <3>2. CASE m = s
      BY <3>2, <2>3, <1>1, <1>4
    <3>3. CASE m # r /\ m # s
      BY <3>3, <2>2, <2>3, <1>1, <1>2, <1>3, <1>4
    <3> QED BY <3>1, <3>2, <3>3
  <2> QED BY <2>4
<1> QED BY <1>5, <1>6

LEMMA BumpNodes ==
    ASSUME LayerInv, NEW a, NEW r, NEW s, Bumped(a, r, s)
    PROVE  NodesOK'
<1>1. /\ a = active_layer /\ active_layer' = a + 1 /\ a \in Nat /\ a \in roots
      /\ r.layer = a /\ s.layer = a + 1 /\ r.len = 0 /\ s.len = 0 /\ s \in NodeName
      /\ r \in DOMAIN node /\ s \notin DOMAIN node /\ NodesOK /\ roots' = roots \cup {a + 1}
      /\ a + 1 < Never
      /\ DOMAIN node' = DOMAIN node \cup {s}
  BY RootFact DEF Bumped, LayerInv
<1>2. s.pfx = Truncate(s.pfx, s.len)
  <2>1. ZeroKey \in Key /\ 0 \in PrefixLen /\ a + 1 \in Layers
    BY BranchAssumption, KeyLenAssumption DEF ZeroKey, Key, PrefixLen, Bumped
  <2>2. s = Name(ZeroKey, 0, a + 1)
    BY DEF Bumped, Root
  <2> QED BY <2>1, <2>2, <1>1, NameFact
<1>3. \A m \in DOMAIN node : /\ node'[m].children = node[m].children
                             /\ node'[m].active_children = node[m].active_children
                             /\ node'[m] \in NodeBody
  BY <1>1 DEF Bumped, NodesOK
<1>4. ASSUME NEW m \in DOMAIN node PROVE ChildrenOf(m)' = ChildrenOf(m)
  <2>1. node'[m].children = node[m].children
    BY <1>3
  <2> QED BY <2>1 DEF ChildrenOf
<1>5. ChildrenOf(s)' = ChildrenOf(r)
  <2>1. node'[s].children = node[r].children
    BY DEF Bumped
  <2> QED BY <2>1, <1>1 DEF ChildrenOf, is_leaf
<1>6. ~is_leaf(s)
  BY <1>1, KeyLenAssumption DEF is_leaf
<1>7. ASSUME NEW m \in DOMAIN node
      PROVE  /\ m.layer < node'[m].superseded_in_layer
             /\ \/ node'[m].superseded_in_layer = Never
                \/ /\ node'[m].superseded_in_layer <= active_layer'
                   /\ node'[m].superseded_in_layer - 1 \in roots'
  <2>1. CASE m = r
    BY <2>1, <1>1 DEF Bumped
  <2>2. CASE m # r
    <3>1. node'[m] = node[m] /\ node[m].superseded_in_layer \in Nat
      BY <2>2, <1>1, NodeFact DEF Bumped
    <3>2. /\ m.layer < node[m].superseded_in_layer
          /\ \/ node[m].superseded_in_layer = Never
             \/ /\ node[m].superseded_in_layer <= active_layer
                /\ node[m].superseded_in_layer - 1 \in roots
      BY <1>1 DEF NodesOK
    <3> QED BY <3>1, <3>2, <1>1
  <2> QED BY <2>1, <2>2
<1>8. \A m \in DOMAIN node :
         /\ m \in NodeName /\ m.pfx = Truncate(m.pfx, m.len)
         /\ is_leaf(m) => node[m].children = NoKids
         /\ m.layer <= a /\ m.layer \in Nat
         /\ node[m].active_children = Cardinality(ChildrenOf(m))
         /\ \A c \in ChildrenOf(m) : c.layer <= m.layer
  BY <1>1, NodeFact DEF NodesOK
<1>9. \A c \in ChildrenOf(r) : c.layer <= a + 1
  <2> SUFFICES ASSUME NEW c \in ChildrenOf(r) PROVE c.layer <= a + 1
    OBVIOUS
  <2>1. c \in DOMAIN node
    BY <1>1, ChildrenKept
  <2> QED BY <2>1, <1>1, <1>8
<1>10. ASSUME NEW m \in DOMAIN node'
       PROVE  /\ m \in NodeName /\ node'[m] \in NodeBody /\ m.pfx = Truncate(m.pfx, m.len)
              /\ is_leaf(m) => node'[m].children = NoKids
              /\ m.layer <= active_layer'
              /\ m.layer < node'[m].superseded_in_layer
              /\ \/ node'[m].superseded_in_layer = Never
                 \/ /\ node'[m].superseded_in_layer <= active_layer'
                    /\ node'[m].superseded_in_layer - 1 \in roots'
              /\ node'[m].active_children = Cardinality(ChildrenOf(m)')
              /\ \A c \in ChildrenOf(m)' : c.layer <= m.layer
  <2>1. CASE m = s
    <3>1. /\ node'[s] \in NodeBody /\ node'[s].superseded_in_layer = Never
          /\ node'[s].active_children = node[r].active_children
      BY DEF Bumped
    <3>2. node'[s].active_children = Cardinality(ChildrenOf(s)')
      BY <3>1, <1>1, <1>5, <1>8
    <3>3. s.layer <= active_layer' /\ s.layer < Never
      BY <1>1
    <3> QED BY <2>1, <3>1, <3>2, <3>3, <1>1, <1>2, <1>5, <1>6, <1>9
  <2>2. CASE m # s
    <3>1. m \in DOMAIN node
      BY <2>2, <1>1
    <3>2. m.layer <= active_layer'
      BY <3>1, <1>1, <1>8
    <3>3. ChildrenOf(m)' = ChildrenOf(m)
      BY <3>1, <1>4
    <3> QED BY <3>1, <3>2, <3>3, <1>3, <1>7, <1>8
  <2> QED BY <2>1, <2>2
<1> QED BY <1>10 DEF NodesOK

\* The layers are tries that hold what they held, the new one included.
LEMMA BumpLayers ==
    ASSUME LayerInv, NEW a, NEW r, NEW s, Bumped(a, r, s), Pending = {}, Pending' = {}
    PROVE  /\ LayersOK'
           /\ \A x \in roots : \A m : Holds(x, m) => Holds(x, m)'
           /\ \A m : Holds(a, m) => Holds(a + 1, m)'
<1>1. /\ \A x \in roots : Tree(x)' = Tree(x)
      /\ Tree(a + 1)' = (Tree(a) \ {r}) \cup {s}
  BY BumpTrees
<1>2. /\ a \in roots /\ a \in Nat /\ r = Root(a) /\ s = Root(a + 1) /\ roots' = roots \cup {a + 1}
      /\ r.len = 0 /\ s.len = 0 /\ s # r /\ r \in DOMAIN node /\ s \notin DOMAIN node
      /\ NodesOK /\ DOMAIN node' = DOMAIN node \cup {s}
      /\ s \in NodeName /\ r.pfx = s.pfx
  <2>1. r.pfx = s.pfx
    BY DEF Bumped, Root, Name
  <2> QED BY <2>1, RootFact DEF Bumped, LayerInv
<1>3. \A m \in DOMAIN node : /\ node'[m].children = node[m].children
                             /\ node'[m].value = node[m].value
  BY <1>2 DEF Bumped
<1>4. /\ \A m \in DOMAIN node : /\ Pfxs'[m] = m.pfx /\ Lens'[m] = m.len
                                /\ Kids'[m] = node[m].children
                                /\ Pfxs[m] = m.pfx /\ Lens[m] = m.len
                                /\ Kids[m] = node[m].children
      /\ Pfxs'[s] = r.pfx /\ Lens'[s] = r.len /\ Kids'[s] = node[r].children
  <2>1. node'[s].children = node[r].children
    BY DEF Bumped
  <2> QED BY <2>1, <1>2, <1>3 DEF Pfxs, Lens, Kids
<1>5. \A x \in roots : /\ Tree(x) \subseteq DOMAIN node
                       /\ Root(x) \in Tree(x)
                       /\ TrieShape(Tree(x), Pfxs, Lens, Kids, Null)
  BY DEF LayerInv, LayersOK, Tree
<1>6. ASSUME NEW x \in roots
      PROVE  /\ Root(x) \in Tree(x)'
             /\ TrieShape(Tree(x), Pfxs, Lens, Kids, Null)'
  <2>1. PICK L : L = Tree(x)
    OBVIOUS
  <2>2. /\ L \subseteq DOMAIN node /\ Root(x) \in L /\ TrieShape(L, Pfxs, Lens, Kids, Null)
        /\ Tree(x)' = L
    BY <2>1, <1>1, <1>5
  <2>3. NodesTyped(L, Pfxs, Lens)
    BY <2>2, <1>2, TreeTyped
  <2>4. /\ \A m \in L : Pfxs'[m] = Pfxs[m] /\ Lens'[m] = Lens[m]
        /\ \A m \in L, e \in Branch : Kids'[m][e] = Kids[m][e]
    BY <2>2, <1>4
  <2>5. TrieShape(L, Pfxs', Lens', Kids', Null)
    BY <2>2, <2>3, <2>4, ShapeSame
  <2> QED BY <2>2, <2>5
<1>7. /\ Root(a + 1) \in Tree(a + 1)'
      /\ TrieShape(Tree(a + 1), Pfxs, Lens, Kids, Null)'
  <2>1. PICK L : L = Tree(a)
    OBVIOUS
  <2>2. /\ L \subseteq DOMAIN node /\ r \in L /\ TrieShape(L, Pfxs, Lens, Kids, Null)
        /\ Tree(a + 1)' = (L \ {r}) \cup {s}
    BY <2>1, <1>1, <1>2, <1>5
  <2>3. NodesTyped(L, Pfxs, Lens)
    BY <2>2, <1>2, TreeTyped
  <2>4. \A m \in L, e \in Branch : Kids[m][e] # r
    <3> SUFFICES ASSUME NEW m \in L, NEW e \in Branch, Kids[m][e] = r
                 PROVE  FALSE
      OBVIOUS
    <3>1. r # Null
      BY <1>2, NodeFact
    <3>2. Lens[m] < Lens[r]
      BY <3>1, <2>2 DEF TrieShape, ShapeEdges
    <3>3. Lens[r] = 0 /\ Lens[m] \in Nat
      BY <2>2, <2>3, <1>2, <1>4 DEF NodesTyped, PrefixLen
    <3> QED BY <3>2, <3>3
  <2>5. Copied(L, Pfxs, Lens, Kids, r, s, Pfxs', Lens', Kids')
    <3>1. Pfxs'[s] = Pfxs[r] /\ Lens'[s] = Lens[r] /\ Kids'[s] = Kids[r]
      BY <1>2, <1>4
    <3>2. \A m \in L : Pfxs'[m] = Pfxs[m] /\ Lens'[m] = Lens[m] /\ Kids'[m] = Kids[m]
      BY <2>2, <1>4
    <3> QED BY <3>1, <3>2, <2>4 DEF Copied
  <2>6. s \notin L /\ s # Null /\ r # Null
    BY <2>2, <1>2, NodeFact, NullFact
  <2>7. TrieShape((L \ {r}) \cup {s}, Pfxs', Lens', Kids', Null)
    BY <2>2, <2>3, <2>5, <2>6, ShapeCopy
  <2> QED BY <2>2, <2>7, <1>2
<1>8. LayersOK'
  BY <1>2, <1>6, <1>7 DEF LayersOK
<1>9. ASSUME NEW x \in roots, NEW m, Holds(x, m) PROVE Holds(x, m)'
  BY <1>1, <1>3, <1>5, <1>9 DEF Holds
<1>10. ASSUME NEW m, Holds(a, m) PROVE Holds(a + 1, m)'
  <2>1. ~is_leaf(r) /\ ~is_leaf(s)
    BY <1>2, KeyLenAssumption DEF is_leaf
  <2> QED BY <2>1, <1>1, <1>2, <1>3, <1>5, <1>10 DEF Holds
<1> QED BY <1>8, <1>9, <1>10

LEMMA BumpInv ==
    ASSUME LayerInv, bump_active_layer
    PROVE  LayerInv'
<1>1. PICK a, r, s : /\ a = active_layer /\ Bumped(a, r, s)
  BY BumpFact
<1>2. /\ sealed' = [sealed EXCEPT ![a] = kv] /\ kv' = kv /\ failed' = failed
      /\ freeable_lowerbound' = freeable_lowerbound
      /\ pc' = pc /\ arg' = arg /\ cur' = cur /\ exp' = exp /\ old' = old
      /\ \A t \in Threads : arg[t].layer # a
  BY <1>1 DEF bump_active_layer, thread_vars
<1>3. \A t \in Threads : pc[t] = "idle"
  BY <1>1, <1>2 DEF LayerInv, CallsOK, CallOK
<1>4. Pending = {} /\ Pending' = {}
  BY <1>2, <1>3 DEF Pending
<1>5. /\ a \in Nat /\ a \in Layers /\ a + 1 \in Layers /\ active_layer' = a + 1
      /\ roots' = roots \cup {a + 1} /\ a \in roots /\ roots \subseteq 0 .. a
      /\ freeable_lowerbound \in Layers /\ failed \in BOOLEAN
      /\ a < 2 => freeable_lowerbound = 0
  BY <1>1 DEF Bumped, LayerInv, BoundsOK
<1>6. BoundsOK'
  <2>1. RecentKept'
    BY <1>5 DEF RecentKept
  <2>2. roots' \subseteq 0 .. active_layer' /\ active_layer' \in roots'
    BY <1>5
  <2>3. active_layer' < 2 => freeable_lowerbound' = 0
    BY <1>2, <1>5
  <2> QED BY <2>1, <2>2, <2>3, <1>2, <1>5 DEF BoundsOK, LastTwoStay
<1>11. LayerZero'
  <2>1. DOMAIN node' = DOMAIN node \cup {s} /\ s = Root(a + 1)
    BY <1>1 DEF Bumped
  <2>2. s.len = 0
    BY <2>1, <1>5, RootFact
  <2> QED BY <2>1, <2>2 DEF LayerInv, LayerZero
<1>7. NodesOK'
  BY <1>1, BumpNodes
<1>8. /\ LayersOK'
      /\ \A x \in roots : \A m : Holds(x, m) => Holds(x, m)'
      /\ \A m : Holds(a, m) => Holds(a + 1, m)'
  BY <1>1, <1>4, BumpLayers
<1>9. CallsOK'
  BY <1>2, <1>3 DEF LayerInv, CallsOK
<1>10. ContentsOK'
  <2>1. /\ kv \in [Keys -> Value] /\ sealed \in [Layers -> [Keys -> Value]]
        /\ Holds(a, kv)
        /\ \A y \in roots : y < a => Holds(y, sealed[y])
    BY <1>1 DEF LayerInv, ContentsOK
  <2>2. PICK k : k = kv
    OBVIOUS
  <2>3. Holds(a + 1, k)' /\ Holds(a, k)'
    BY <2>1, <2>2, <1>5, <1>8
  <2>4. Holds(active_layer, kv)'
    BY <2>2, <2>3, <1>2, <1>5
  <2>5. ASSUME NEW y \in roots', y < active_layer'
        PROVE  Holds(y, sealed[y])'
    <3>1. y \in roots /\ y \in Layers
      BY <2>5, <1>5, LayerNumbers DEF Layers
    <3>2. CASE y = a
      <4>1. sealed'[y] = k
        BY <3>2, <2>1, <2>2, <1>2, <1>5
      <4> QED BY <4>1, <3>2, <2>3
    <3>3. CASE y # a
      <4>1. y < a /\ sealed'[y] = sealed[y]
        BY <3>1, <3>3, <2>1, <1>2, <1>5
      <4>2. PICK m : m = sealed[y]
        OBVIOUS
      <4>3. Holds(y, m)'
        BY <4>1, <4>2, <3>1, <2>1, <1>8
      <4> QED BY <4>1, <4>2, <4>3
    <3> QED BY <3>2, <3>3
  <2>6. kv' \in [Keys -> Value] /\ sealed' \in [Layers -> [Keys -> Value]]
    BY <2>1, <1>2
  <2> QED BY <2>4, <2>5, <2>6 DEF ContentsOK
<1> QED BY <1>6, <1>7, <1>8, <1>9, <1>10, <1>11 DEF LayerInv

-----------------------------------------------------------------------------
(* Freeing old layers *)

\* A node of layer y that is not superseded next is in a later layer.
LEMMA LaterLayer ==
    ASSUME LayerInv, NEW y \in roots, y < active_layer, y = active_layer - 1 => Pending = {},
           NEW n \in DOMAIN node, n.layer <= y, y < node[n].superseded_in_layer,
           node[n].superseded_in_layer # y + 1
    PROVE  \E z \in roots : y < z /\ n \in Tree(z)
<1>1. /\ active_layer \in Nat /\ active_layer < Never /\ Never \in Nat
      /\ active_layer \in roots /\ (active_layer >= 2 => active_layer - 1 \in roots)
      /\ y \in Nat /\ y < active_layer
  BY LayerNumbers DEF LayerInv, BoundsOK, LastTwoStay, RecentKept
<1>2. /\ n.layer \in Nat /\ node[n].superseded_in_layer \in Nat
      /\ \/ node[n].superseded_in_layer = Never
         \/ /\ node[n].superseded_in_layer <= active_layer
            /\ node[n].superseded_in_layer - 1 \in roots
  BY NodeFact DEF LayerInv, NodesOK
<1>3. CASE node[n].superseded_in_layer # Never
  <2> DEFINE z == node[n].superseded_in_layer - 1
  <2>1. /\ z \in roots /\ y < z /\ z # active_layer /\ n.layer <= z
        /\ z < node[n].superseded_in_layer
    BY <1>1, <1>2, <1>3
  <2>2. n \in Tree(z)
    BY <2>1 DEF Tree
  <2> QED BY <2>1, <2>2
<1>4. CASE node[n].superseded_in_layer = Never /\ y # active_layer - 1
  <2> DEFINE z == active_layer - 1
  <2>1. /\ z \in roots /\ y < z /\ z # active_layer /\ n.layer <= z
        /\ z < node[n].superseded_in_layer
    BY <1>1, <1>2, <1>4
  <2>2. n \in Tree(z)
    BY <2>1 DEF Tree
  <2> QED BY <2>1, <2>2
<1>5. CASE node[n].superseded_in_layer = Never /\ y = active_layer - 1
  <2>1. /\ Pending = {} /\ n.layer <= active_layer
        /\ active_layer < node[n].superseded_in_layer
    BY <1>1, <1>2, <1>5
  <2>2. n \in Tree(active_layer)
    BY <2>1 DEF Tree
  <2> QED BY <2>2, <1>1
<1> QED BY <1>3, <1>4, <1>5

\* The root of a layer is superseded by the next one.
LEMMA OneRoot ==
    ASSUME LayerInv, NEW y \in roots, NEW n \in Tree(y), n.len = 0
    PROVE  n = Root(y)
<1>1. NodesOK /\ Root(y) \in Tree(y) /\ Tree(y) \subseteq DOMAIN node
  BY DEF LayerInv, LayersOK, Tree
<1>2. y \in Layers
  BY LayerNumbers DEF LayerInv, BoundsOK, Layers
<1>3. /\ Lens[n] = 0 /\ Lens[Root(y)] = 0
  BY <1>1, <1>2, NodeFact, RootFact
<1>4. IsPrefixOf(Pfxs[n], Lens[n], Pfxs[Root(y)], Lens[Root(y)])
  BY <1>3 DEF IsPrefixOf
<1>5. ShapeUnique(Tree(y), Pfxs, Lens)
  BY DEF LayerInv, LayersOK, TrieShape
<1> QED BY <1>1, <1>3, <1>4, <1>5 DEF ShapeUnique

LEMMA RootReplaced ==
    ASSUME LayerInv, NEW y \in roots, y < active_layer, y = active_layer - 1 => Pending = {}
    PROVE  Root(y) \in DOMAIN node /\ node[Root(y)].superseded_in_layer = y + 1
<1>1. Root(y) \in DOMAIN node /\ Root(y).layer <= y /\ y < node[Root(y)].superseded_in_layer
  BY DEF LayerInv, LayersOK, Tree
<1>2. y \in Layers /\ roots \subseteq Layers
  BY LayerNumbers DEF LayerInv, BoundsOK, Layers
<1>3. ASSUME node[Root(y)].superseded_in_layer # y + 1 PROVE FALSE
  <2>1. PICK z \in roots : y < z /\ Root(y) \in Tree(z)
    BY <1>1, <1>3, LaterLayer
  <2>2. Root(y).len = 0 /\ Root(y).layer = y /\ Root(z).layer = z
    BY <1>2, RootFact
  <2>3. Root(y) = Root(z)
    BY <2>1, <2>2, OneRoot
  <2> QED BY <2>1, <2>2, <2>3, <1>2, LayerNumbers
<1> QED BY <1>1, <1>3

\* A node of a layer, other than the root, has a parent in the layer.
LEMMA TreeParent ==
    ASSUME LayerInv, NEW y \in roots, NEW n \in Tree(y), n.len # 0
    PROVE  \E p \in Tree(y), b \in Branch :
              /\ node[p].children[b] = n /\ n # Null /\ p.len < n.len /\ n \in ChildrenOf(p)
<1>1. PICK L, r : L = Tree(y) /\ r = Root(y)
  OBVIOUS
<1>2. y \in Layers
  BY LayerNumbers DEF LayerInv, BoundsOK, Layers
<1>3. /\ NodesOK /\ r \in L /\ n \in L /\ L \subseteq DOMAIN node /\ r.len = 0
      /\ TrieShape(L, Pfxs, Lens, Kids, Null)
  BY <1>1, <1>2, RootFact DEF LayerInv, LayersOK, Tree
<1>4. NodesTyped(L, Pfxs, Lens)
  BY <1>3, TreeTyped
<1>5. Lens[r] = 0 /\ Lens[n] = n.len /\ Lens[n] \in Nat
  BY <1>3, NodeFact DEF PrefixLen
<1>6. IsPrefixOf(Pfxs[r], Lens[r], Pfxs[n], Lens[n]) /\ Lens[r] < Lens[n]
  BY <1>5 DEF IsPrefixOf
<1>7. PICK p \in L, b \in Branch : Kids[p][b] = n /\ n # Null /\ Lens[p] < Lens[n]
  BY <1>3, <1>4, <1>6, ShapeHasParent
<1>8. p \in DOMAIN node
  BY <1>3
<1>9. Kids[p] = node[p].children /\ Lens[p] = p.len
  BY <1>3, <1>8, NodeFact
<1>10. n \in ChildrenOf(p)
  BY <1>3, <1>7, <1>8, <1>9, NodeFact
<1> QED BY <1>1, <1>5, <1>7, <1>9, <1>10

\* A node that layer y was the last to have has an owner: its parent in layer
\* y is superseded together with it.
LEMMA OwnerFact ==
    ASSUME LayerInv, NEW y \in roots, y < active_layer, y = active_layer - 1 => Pending = {},
           NEW n \in DOMAIN node, node[n].superseded_in_layer = y + 1, n.len # 0
    PROVE  /\ n \in Tree(y)
           /\ \E p \in Tree(y) : /\ n \in ChildrenOf(p) /\ p.len < n.len
                                 /\ node[p].superseded_in_layer = y + 1
<1>1. /\ y \in Nat /\ active_layer \in Nat /\ n.layer \in Nat
      /\ n.layer < node[n].superseded_in_layer
  <2>1. NodesOK
    BY DEF LayerInv
  <2>2. n.layer < node[n].superseded_in_layer /\ n.layer \in Nat
    BY <2>1, NodeFact DEF NodesOK
  <2> QED BY <2>2, LayerNumbers DEF LayerInv, BoundsOK
<1>2. n \in Tree(y)
  <2>1. n.layer <= y /\ y < node[n].superseded_in_layer /\ y # active_layer
    BY <1>1
  <2> QED BY <2>1 DEF Tree
<1>3. PICK p \in Tree(y), b \in Branch :
         /\ node[p].children[b] = n /\ n # Null /\ p.len < n.len /\ n \in ChildrenOf(p)
  BY <1>2, TreeParent
<1>4. p \in DOMAIN node /\ p.layer <= y /\ y < node[p].superseded_in_layer
  BY DEF Tree
<1>5. ASSUME node[p].superseded_in_layer # y + 1 PROVE FALSE
  <2>1. PICK z \in roots : y < z /\ p \in Tree(z)
    BY <1>4, <1>5, LaterLayer
  <2>2. n \in Tree(z)
    BY <2>1, <1>3, TreeEdge
  <2>3. z < y + 1 /\ z \in Nat
    BY <2>2, LayerNumbers DEF Tree, LayerInv, BoundsOK
  <2> QED BY <2>1, <2>3, <1>1
<1> QED BY <1>2, <1>3, <1>5

\* The destructor of the root of layer y frees what y was the last to have.
LEMMA DestroyedFact ==
    ASSUME LayerInv, NEW y \in roots, y < active_layer, y = active_layer - 1 => Pending = {}
    PROVE  Destroyed(Root(y)) = {n \in DOMAIN node : node[n].superseded_in_layer = y + 1}
<1>1. PICK r, T : r = Root(y) /\ T = {n \in DOMAIN node : node[n].superseded_in_layer = y + 1}
  OBVIOUS
<1>2. y \in Nat /\ y \in Layers
  BY LayerNumbers DEF LayerInv, BoundsOK, Layers
<1>3. r \in T /\ r.len = 0
  BY <1>1, <1>2, RootReplaced, RootFact
<1>4. \A m \in DOMAIN node : \A c : c \in OwnedMap[m]
         <=> /\ c \in ChildrenOf(m) /\ c \in DOMAIN node /\ node[m].superseded_in_layer # 0
             /\ node[m].superseded_in_layer = node[c].superseded_in_layer
  BY DEF OwnedMap, Owned
<1>5. DOMAIN OwnedMap = DOMAIN node
  BY DEF OwnedMap
<1>6. Closure(r, OwnedMap) \subseteq T
  <2>1. \A m \in T \cap DOMAIN OwnedMap : OwnedMap[m] \subseteq T
    BY <1>1, <1>4, <1>5
  <2> QED BY <2>1, <1>3, ClosureIn
<1>7. T \subseteq Closure(r, OwnedMap)
  <2>1. ASSUME NEW x \in T
        PROVE  /\ x.len \in PrefixLen
               /\ \/ x = r
                  \/ \E p \in T : x \in OwnedMap[p] /\ p.len < x.len
    <3>1. x \in DOMAIN node /\ node[x].superseded_in_layer = y + 1
      BY <1>1
    <3>2. x.len \in PrefixLen /\ x.layer \in Nat /\ x.layer < node[x].superseded_in_layer
      BY <3>1, NodeFact DEF LayerInv, NodesOK
    <3>3. CASE x.len = 0
      <4>1. /\ x.layer <= y /\ y < node[x].superseded_in_layer /\ y # active_layer
        BY <3>1, <3>2, <1>2, LayerNumbers DEF LayerInv, BoundsOK
      <4>2. x \in Tree(y)
        BY <3>1, <4>1 DEF Tree
      <4> QED BY <4>2, <3>2, <3>3, <1>1, OneRoot
    <3>4. CASE x.len # 0
      <4>1. PICK p \in Tree(y) : /\ x \in ChildrenOf(p) /\ p.len < x.len
                                 /\ node[p].superseded_in_layer = y + 1
        BY <3>1, <3>4, OwnerFact
      <4>2. p \in DOMAIN node /\ y + 1 # 0
        BY <1>2 DEF Tree
      <4>3. p \in T /\ x \in OwnedMap[p]
        BY <4>1, <4>2, <3>1, <1>1, <1>4
      <4> QED BY <4>1, <4>3, <3>2
    <3> QED BY <3>3, <3>4
  <2>2. RootedAt(r, OwnedMap, T)
    BY <2>1 DEF RootedAt
  <2>3. T \subseteq DOMAIN OwnedMap
    BY <1>1, <1>5
  <2> QED BY <2>2, <2>3, ClosureHas
<1>8. Closure(r, OwnedMap) = T
  BY <1>6, <1>7
<1> QED BY <1>1, <1>8 DEF Destroyed

\* Layers G and their nodes D are freed; from layer 2 on the last two stay.
Freed(a, G, D) ==
    /\ a = active_layer /\ active_layer' = a /\ a \in Nat
    /\ G \subseteq roots /\ roots' = roots \ G
    /\ \A y \in G : y < a /\ (a >= 2 => y <= a - 2)
    /\ \A y \in G, x \in roots : x <= y => x \in G
    /\ \A n : n \in D <=> n \in DOMAIN node /\ node[n].superseded_in_layer - 1 \in G
    /\ DOMAIN node' = DOMAIN node \ D
    /\ \A n \in DOMAIN node' : node'[n] = node[n]

LEMMA FreeableFact ==
    ASSUME active_layer \in Layers, NEW bound \in Layers
    PROVE  /\ Freeable(bound) \in Nat
           /\ active_layer >= 2 => Freeable(bound) <= active_layer - 2
           /\ active_layer < 2 => Freeable(bound) = bound
<1>1. /\ active_layer \in Nat /\ bound \in Nat /\ bound <= MaxLayer
      /\ MaxLayer \in Nat /\ WordSize \in Nat /\ MaxLayer + 1 < WordSize
  BY LayerAssumption DEF Layers
<1>2. CASE active_layer >= 2
  BY <1>1, <1>2 DEF Freeable, WordMinus, min
<1>3. CASE active_layer < 2
  BY <1>1, <1>3 DEF Freeable, WordMinus, min
<1> QED BY <1>1, <1>2, <1>3

\* No thread is about to mark anything below layer 2.
LEMMA NothingPending ==
    ASSUME LayerInv, active_layer < 2
    PROVE  Pending = {}
<1> SUFFICES ASSUME NEW t \in Threads, pc[t] = "mark" PROVE FALSE
  BY DEF Pending
<1>1. active_layer >= 2 /\ active_layer \in Nat
  BY LayerNumbers DEF LayerInv, CallsOK, CallOK, BoundsOK
<1> QED BY <1>1

\* A call of raise_gc_lowerbound: the layers that go, with their nodes.
Raised(layer, bound, G, D) ==
    /\ bound = (IF layer > freeable_lowerbound THEN layer ELSE freeable_lowerbound)
    /\ G = {y \in roots : y <= Freeable(bound)}
    /\ D = UNION {Destroyed(Root(y)) : y \in G}
    /\ freeable_lowerbound' = bound /\ roots' = roots \ G
    /\ failed' = DestructorFails(D)
    /\ node' = [n \in DOMAIN node \ D |-> node[n]]
    /\ metadata' = [n \in DOMAIN metadata \ D |-> metadata[n]]
    /\ sealed' = [y \in Layers |-> IF y \in G THEN NoMap ELSE sealed[y]]
    /\ active_layer' = active_layer /\ UNCHANGED thread_vars /\ kv' = kv
    /\ \A t \in Threads : arg[t].layer = NoLayer \/ arg[t].layer > layer
    /\ active_layer \in Layers /\ active_layer \in Nat /\ bound \in Layers /\ bound \in Nat
    /\ layer \in Nat /\ layer <= active_layer
    /\ roots \subseteq 0 .. active_layer
    /\ G \subseteq roots /\ (\A y \in G : y \in Nat)
    /\ (\A y \in G, x \in roots : x <= y => x \in G)
    /\ active_layer >= 2 => \A y \in G : y <= active_layer - 2
    /\ active_layer < 2 => bound = layer /\ G = {y \in roots : y <= layer}

LEMMA RaisedFact ==
    ASSUME LayerInv, NEW layer \in 0 .. active_layer, raise_gc_lowerbound(layer)
    PROVE  \E bound, G, D : Raised(layer, bound, G, D)
<1>1. PICK bound, F : /\ bound = (IF layer > freeable_lowerbound THEN layer ELSE freeable_lowerbound)
                      /\ F = Freeable(bound)
  OBVIOUS
<1>2. PICK G, D : /\ G = {y \in roots : y <= F}
                  /\ D = UNION {Destroyed(Root(y)) : y \in G}
  OBVIOUS
<1>3. /\ freeable_lowerbound' = bound /\ roots' = roots \ G
      /\ failed' = DestructorFails(D)
      /\ node' = [n \in DOMAIN node \ D |-> node[n]]
      /\ metadata' = [n \in DOMAIN metadata \ D |-> metadata[n]]
      /\ sealed' = [y \in Layers |-> IF y \in G THEN NoMap ELSE sealed[y]]
      /\ active_layer' = active_layer /\ UNCHANGED thread_vars /\ kv' = kv
      /\ \A t \in Threads : arg[t].layer = NoLayer \/ arg[t].layer > layer
  BY <1>1, <1>2 DEF raise_gc_lowerbound
<1>4. /\ active_layer \in Layers /\ active_layer \in Nat /\ bound \in Layers /\ bound \in Nat
      /\ layer \in Nat /\ layer <= active_layer /\ roots \subseteq 0 .. active_layer
      /\ active_layer < 2 => bound = layer
  BY <1>1, LayerNumbers DEF LayerInv, BoundsOK, Layers
<1>5. /\ F \in Nat /\ (active_layer >= 2 => F <= active_layer - 2)
      /\ active_layer < 2 => F = bound
  BY <1>1, <1>4, FreeableFact
<1>6. /\ G \subseteq roots /\ (\A y \in G : y \in Nat)
      /\ (\A y \in G, x \in roots : x <= y => x \in G)
      /\ active_layer >= 2 => \A y \in G : y <= active_layer - 2
      /\ active_layer < 2 => G = {y \in roots : y <= layer}
  BY <1>2, <1>4, <1>5
<1>7. Raised(layer, bound, G, D)
  BY <1>1, <1>2, <1>3, <1>4, <1>6 DEF Raised
<1> QED BY <1>7

\* The active layer stays.
LEMMA RaiseFact ==
    ASSUME LayerInv, NEW layer, NEW bound, NEW G, NEW D, Raised(layer, bound, G, D),
           active_layer \notin G
    PROVE  Freed(active_layer, G, D) /\ failed' = FALSE
<1>3. /\ roots' = roots \ G /\ failed' = DestructorFails(D)
      /\ D = UNION {Destroyed(Root(y)) : y \in G}
      /\ node' = [n \in DOMAIN node \ D |-> node[n]]
      /\ active_layer' = active_layer
  BY DEF Raised
<1>4. active_layer \in Nat /\ roots \subseteq 0 .. active_layer
  BY DEF Raised
<1>6. G \subseteq roots /\ (\A y \in G : y < active_layer /\ y \in Nat)
      /\ (active_layer >= 2 => \A y \in G : y <= active_layer - 2)
      /\ (\A y \in G, x \in roots : x <= y => x \in G)
  BY <1>4 DEF Raised
<1>7. \A y \in G : Destroyed(Root(y)) = {n \in DOMAIN node : node[n].superseded_in_layer = y + 1}
  <2> SUFFICES ASSUME NEW y \in G
               PROVE  Destroyed(Root(y)) = {n \in DOMAIN node : node[n].superseded_in_layer = y + 1}
    OBVIOUS
  <2>1. y \in roots /\ y < active_layer /\ (y = active_layer - 1 => active_layer < 2)
    BY <1>4, <1>6
  <2>2. y = active_layer - 1 => Pending = {}
    BY <2>1, NothingPending
  <2> QED BY <2>1, <2>2, DestroyedFact
<1>8. ASSUME NEW n PROVE n \in D <=> n \in DOMAIN node /\ node[n].superseded_in_layer - 1 \in G
  <2>1. n \in D <=> \E y \in G : n \in DOMAIN node /\ node[n].superseded_in_layer = y + 1
    BY <1>3, <1>7
  <2>2. n \in DOMAIN node => node[n].superseded_in_layer \in Nat
    BY NodeFact DEF LayerInv
  <2> QED BY <2>1, <2>2, <1>6
<1>9. Freed(active_layer, G, D)
  BY <1>3, <1>4, <1>6, <1>8 DEF Freed
<1>10. ~DestructorFails(D)
  <2> SUFFICES ASSUME NEW m \in D, NEW c \in ChildrenOf(m)
               PROVE  /\ c \in DOMAIN node
                      /\ ~(node[m].superseded_in_layer > node[c].superseded_in_layer)
    BY DEF DestructorFails
  <2>1. PICK y : y = node[m].superseded_in_layer - 1
    OBVIOUS
  <2>2. m \in DOMAIN node /\ y \in G /\ y \in roots /\ y \in Nat
    BY <2>1, <1>6, <1>8
  <2>3. NodesOK
    BY DEF LayerInv
  <2>4. /\ node[m].superseded_in_layer \in Nat /\ m.layer \in Nat
        /\ m.layer < node[m].superseded_in_layer
    BY <2>2, <2>3, NodeFact DEF NodesOK
  <2>5. m.layer <= y /\ y < node[m].superseded_in_layer /\ y # active_layer
    BY <2>1, <2>2, <2>4, <1>4, <1>6
  <2>6. m \in Tree(y)
    BY <2>2, <2>5 DEF Tree
  <2>7. PICK b \in Branch : node[m].children[b] = c /\ c # Null
    BY <2>2, <2>3, NodeFact
  <2>8. c \in Tree(y)
    BY <2>2, <2>6, <2>7, TreeEdge
  <2>9. c \in DOMAIN node /\ y < node[c].superseded_in_layer
    BY <2>8 DEF Tree
  <2>10. node[c].superseded_in_layer \in Nat
    BY <2>3, <2>9, NodeFact
  <2> QED BY <2>1, <2>2, <2>4, <2>9, <2>10
<1>11. failed' = FALSE
  BY <1>3, <1>10 DEF DestructorFails
<1> QED BY <1>9, <1>11

\* Nothing that is left is disturbed.
LEMMA FreedKeeps ==
    ASSUME LayerInv, NEW a, NEW G, NEW D, Freed(a, G, D)
    PROVE  /\ KeepsSealed /\ LastTwoKept /\ NodesOK'
           /\ \A n \in DOMAIN node : a < node[n].superseded_in_layer => n \in DOMAIN node'
<1>1. /\ a = active_layer /\ active_layer' = a /\ a \in Nat
      /\ G \subseteq roots /\ roots' = roots \ G
      /\ \A y \in G : y < a /\ (a >= 2 => y <= a - 2)
      /\ \A y \in G, x \in roots : x <= y => x \in G
      /\ \A n : n \in D <=> n \in DOMAIN node /\ node[n].superseded_in_layer - 1 \in G
      /\ DOMAIN node' = DOMAIN node \ D
      /\ \A n \in DOMAIN node' : node'[n] = node[n]
  BY DEF Freed
<1>2. /\ NodesOK /\ roots \subseteq 0 .. a /\ a \in roots /\ (a >= 2 => a - 1 \in roots)
  BY <1>1 DEF LayerInv, BoundsOK, LastTwoStay, RecentKept
<1>3. \A n \in DOMAIN node : node[n].superseded_in_layer \in Nat
  BY <1>2, NodeFact
<1>4. ASSUME NEW y \in roots', NEW n \in DOMAIN node, y < node[n].superseded_in_layer
      PROVE  n \in DOMAIN node'
  <2>1. y \in roots /\ y \notin G /\ y \in Nat
    BY <1>1, <1>2
  <2>2. node[n].superseded_in_layer \in Nat
    BY <1>3
  <2>3. ASSUME node[n].superseded_in_layer - 1 \in G PROVE FALSE
    <3>1. y <= node[n].superseded_in_layer - 1
      BY <2>1, <2>2, <1>4
    <3> QED BY <3>1, <2>1, <2>3, <1>1
  <2> QED BY <2>3, <1>1
<1>5. \A y \in roots' : Tree(y) \subseteq DOMAIN node'
  BY <1>4 DEF Tree
<1>6. KeepsSealed
  BY <1>1, <1>5 DEF KeepsSealed
<1>7. a \notin G /\ (a >= 2 => a - 1 \notin G)
  BY <1>1
<1>8. LastTwoKept
  BY <1>1, <1>2, <1>7 DEF LastTwoKept
<1>9. ASSUME NEW n \in DOMAIN node'
      PROVE  /\ n \in NodeName /\ node'[n] \in NodeBody /\ n.pfx = Truncate(n.pfx, n.len)
             /\ is_leaf(n) => node'[n].children = NoKids
             /\ n.layer <= active_layer'
             /\ n.layer < node'[n].superseded_in_layer
             /\ \/ node'[n].superseded_in_layer = Never
                \/ /\ node'[n].superseded_in_layer <= active_layer'
                   /\ node'[n].superseded_in_layer - 1 \in roots'
             /\ node'[n].active_children = Cardinality(ChildrenOf(n)')
             /\ \A c \in ChildrenOf(n)' : c.layer <= n.layer
  <2>1. n \in DOMAIN node /\ node'[n] = node[n] /\ node[n].superseded_in_layer - 1 \notin G
    BY <1>1
  <2>2. ChildrenOf(n)' = ChildrenOf(n)
    BY <2>1 DEF ChildrenOf
  <2>3. /\ n \in NodeName /\ node[n] \in NodeBody /\ n.pfx = Truncate(n.pfx, n.len)
        /\ is_leaf(n) => node[n].children = NoKids
        /\ n.layer <= active_layer
        /\ n.layer < node[n].superseded_in_layer
        /\ \/ node[n].superseded_in_layer = Never
           \/ /\ node[n].superseded_in_layer <= active_layer
              /\ node[n].superseded_in_layer - 1 \in roots
        /\ node[n].active_children = Cardinality(ChildrenOf(n))
        /\ \A c \in ChildrenOf(n) : c.layer <= n.layer
    BY <2>1, <1>2 DEF NodesOK
  <2> QED BY <2>1, <2>2, <2>3, <1>1
<1>10. NodesOK'
  BY <1>9 DEF NodesOK
<1>11. \A n \in DOMAIN node : a < node[n].superseded_in_layer => n \in DOMAIN node'
  BY <1>1, <1>2, <1>4, <1>7
<1> QED BY <1>6, <1>8, <1>10, <1>11

LEMMA FreedActive ==
    ASSUME LayerInv, NEW a, NEW G, NEW D, Freed(a, G, D), UNCHANGED thread_vars
    PROVE  /\ Tree(a)' = Tree(a) /\ ActiveShape'
           /\ \A m : Holds(a, m) => Holds(a, m)'
<1>1. /\ KeepsSealed /\ LastTwoKept
      /\ \A n \in DOMAIN node : a < node[n].superseded_in_layer => n \in DOMAIN node'
  BY FreedKeeps
<1>2. /\ a = active_layer /\ active_layer' = a /\ DOMAIN node' \subseteq DOMAIN node
      /\ \A n \in DOMAIN node' : node'[n] = node[n]
  BY DEF Freed
<1>3. Pending' = Pending
  <2>1. ASSUME NEW u \in Threads, pc[u] = "mark"
        PROVE  ChainSet(old[u])' = ChainSet(old[u])
    <3>1. PICK o : o = old[u] /\ o = old'[u]
      BY DEF thread_vars
    <3>2. active_layer >= 2 /\ o \in Tree(active_layer - 1)
      BY <3>1, <2>1 DEF LayerInv, CallsOK, CallOK
    <3>3. ChainSet(o)' = ChainSet(o)
      BY <3>2, <1>1, MarkFrame
    <3> QED BY <3>1, <3>3
  <2>2. ASSUME NEW n PROVE n \in Pending' <=> n \in Pending
    <3>1. n \in Pending' <=> \E u \in Threads : pc[u] = "mark" /\ n \in ChainSet(old[u])'
      BY DEF Pending, thread_vars
    <3>2. n \in Pending <=> \E u \in Threads : pc[u] = "mark" /\ n \in ChainSet(old[u])
      BY DEF Pending
    <3> QED BY <3>1, <3>2, <2>1
  <2> QED BY <2>2
<1>4. Tree(a)' = Tree(a)
  <2>1. ASSUME NEW n PROVE n \in Tree(a)' <=> n \in Tree(a)
    <3>1. n \in Tree(a)' <=> /\ n \in DOMAIN node' /\ n.layer <= a
                             /\ a < node'[n].superseded_in_layer /\ n \notin Pending
      BY <1>2, <1>3 DEF Tree
    <3>2. n \in Tree(a) <=> /\ n \in DOMAIN node /\ n.layer <= a
                            /\ a < node[n].superseded_in_layer /\ n \notin Pending
      BY <1>2 DEF Tree
    <3> QED BY <3>1, <3>2, <1>1, <1>2
  <2> QED BY <2>1
<1>5. PICK L : L = Tree(a)
  OBVIOUS
<1>6. /\ L \subseteq DOMAIN node /\ L \subseteq DOMAIN node' /\ Tree(a)' = L
  BY <1>4, <1>5 DEF Tree
<1>7. /\ Root(a) \in L /\ TrieShape(L, Pfxs, Lens, Kids, Null) /\ NodesTyped(L, Pfxs, Lens)
  BY <1>2, <1>5, <1>6, TreeTyped DEF LayerInv, LayersOK, BoundsOK, LastTwoStay, RecentKept, Freed
<1>8. \A n \in L : Pfxs'[n] = Pfxs[n] /\ Lens'[n] = Lens[n] /\ Kids'[n] = Kids[n]
  BY <1>2, <1>6 DEF Pfxs, Lens, Kids
<1>9. \A n \in L, e \in Branch : Kids'[n][e] = Kids[n][e]
  BY <1>8
<1>10. TrieShape(L, Pfxs', Lens', Kids', Null)
  BY <1>7, <1>8, <1>9, ShapeSame
<1>11. ActiveShape'
  BY <1>2, <1>6, <1>7, <1>10 DEF ActiveShape
<1>12. ASSUME NEW m, Holds(a, m) PROVE Holds(a, m)'
  BY <1>2, <1>4, <1>5, <1>6, <1>12 DEF Holds
<1> QED BY <1>4, <1>11, <1>12

LEMMA RaiseInv ==
    ASSUME LayerInv, NEW layer, NEW bound, NEW G, NEW D, Raised(layer, bound, G, D),
           active_layer \notin G
    PROVE  LayerInv'
<1>1. PICK a : /\ a = active_layer /\ Freed(a, G, D)
               /\ sealed' = [y \in Layers |-> IF y \in G THEN NoMap ELSE sealed[y]]
               /\ failed' = FALSE /\ freeable_lowerbound' \in Layers
  BY RaiseFact DEF Raised
<1>2. UNCHANGED thread_vars /\ kv' = kv
  BY DEF Raised
<1>3. /\ active_layer' = a /\ a \in Nat /\ a \in Layers /\ roots' \subseteq roots
      /\ roots \subseteq 0 .. a /\ (\A y \in roots' : y \notin G)
  BY <1>1 DEF Freed, LayerInv, BoundsOK
<1>4. KeepsSealed /\ LastTwoKept /\ NodesOK'
  BY <1>1, FreedKeeps
<1>5. ActiveShape' /\ \A m : Holds(a, m) => Holds(a, m)'
  BY <1>1, <1>2, FreedActive
<1>6. BoundsOK'
  <2>1. a \in roots' /\ (a >= 2 => a - 1 \in roots')
    BY <1>1, <1>4 DEF LastTwoKept
  <2>2. a >= 2 => {a, a - 1} \cap Nat \subseteq roots'
    BY <2>1, <1>3
  <2>3. LastTwoStay'
    BY <2>2, <1>3 DEF LastTwoStay, RecentKept
  <2>4. roots' \subseteq 0 .. active_layer' /\ active_layer' \in Layers /\ failed' \in BOOLEAN
    BY <1>1, <1>3
  <2>5. active_layer < 2 => freeable_lowerbound' = 0
    <3> SUFFICES ASSUME active_layer < 2 PROVE bound = 0
      BY DEF Raised
    <3>1. /\ bound = layer /\ G = {y \in roots : y <= layer} /\ layer \in Nat
          /\ layer <= active_layer /\ active_layer \in Nat
      BY DEF Raised
    <3>2. active_layer \in roots /\ active_layer \notin G
      BY DEF LayerInv, BoundsOK
    <3> QED BY <3>1, <3>2
  <2> QED BY <2>1, <2>3, <2>4, <2>5, <1>1, <1>3 DEF BoundsOK
<1>7. CallsOK'
  <2>1. ASSUME NEW u \in Threads, pc[u] # "idle" PROVE CallOK(u)'
    <3>1. pc'[u] = pc[u] /\ arg'[u] = arg[u] /\ cur'[u] = cur[u] /\ exp'[u] = exp[u] /\ old'[u] = old[u]
      BY <1>2 DEF thread_vars
    <3> QED BY <3>1, <2>1, <1>4, CallFrame
  <2>2. CallsOK /\ pc' = pc /\ arg' = arg /\ cur' = cur /\ exp' = exp /\ old' = old
    BY <1>2 DEF thread_vars, LayerInv
  <2> QED BY <2>1, <2>2 DEF CallsOK
<1>8. LayersOK'
  <2> SUFFICES ASSUME NEW y \in roots'
               PROVE  /\ Root(y) \in Tree(y)'
                      /\ TrieShape(Tree(y), Pfxs, Lens, Kids, Null)'
    BY DEF LayersOK
  <2>1. CASE y < active_layer
    BY <2>1, <1>4, SealedKept
  <2>2. CASE ~(y < active_layer)
    <3>1. y = active_layer'
      BY <2>2, <1>1, <1>3
    <3> QED BY <3>1, <1>5 DEF ActiveShape
  <2> QED BY <2>1, <2>2
<1>9. ContentsOK'
  <2>1. /\ kv \in [Keys -> Value] /\ sealed \in [Layers -> [Keys -> Value]]
        /\ Holds(a, kv)
        /\ \A y \in roots : y < a => Holds(y, sealed[y])
    BY <1>1 DEF LayerInv, ContentsOK
  <2>2. Holds(active_layer, kv)'
    <3>1. PICK k : k = kv
      OBVIOUS
    <3>2. Holds(a, k)'
      BY <3>1, <2>1, <1>5
    <3> QED BY <3>1, <3>2, <1>2, <1>3
  <2>3. ASSUME NEW y \in roots', y < active_layer'
        PROVE  Holds(y, sealed[y])'
    <3>1. y \in roots /\ y \in Layers /\ y < a /\ y \notin G
      BY <2>3, <1>3, LayerNumbers DEF Layers
    <3>2. PICK m : m = sealed[y]
      OBVIOUS
    <3>3. sealed'[y] = m
      BY <3>1, <3>2, <1>1
    <3>4. Holds(y, m)'
      BY <3>1, <3>2, <2>1, <1>1, <1>4, SealedHolds
    <3> QED BY <3>3, <3>4
  <2>4. kv' \in [Keys -> Value] /\ sealed' \in [Layers -> [Keys -> Value]]
    <3>1. NoMap \in [Keys -> Value]
      BY ValueAssumption DEF NoMap
    <3> QED BY <3>1, <2>1, <1>1, <1>2
  <2> QED BY <2>2, <2>3, <2>4 DEF ContentsOK
<1>10. LayerZero'
  <2>1. DOMAIN node' \subseteq DOMAIN node
    BY <1>1 DEF Freed
  <2> QED BY <2>1, ZeroKept DEF LayerInv
<1> QED BY <1>4, <1>6, <1>7, <1>8, <1>9, <1>10 DEF LayerInv

\* What the destructor of the root of the active layer frees below layer 2.
LEMMA ActiveDestroyed ==
    ASSUME LayerInv, active_layer < 2
    PROVE  /\ \A n \in DOMAIN node : node[n].superseded_in_layer = Never <=> n \in Tree(active_layer)
           /\ Tree(active_layer) \subseteq Destroyed(Root(active_layer))
<1>1. PICK a, r, T : a = active_layer /\ r = Root(a) /\ T = Tree(a)
  OBVIOUS
<1>2. /\ NodesOK /\ a \in roots /\ a \in Nat /\ a < Never /\ Pending = {} /\ Never # 0
      /\ T \subseteq DOMAIN node /\ r \in T
  BY <1>1, NothingPending, LayerNumbers DEF LayerInv, BoundsOK, LayersOK, Tree
<1>3. ASSUME NEW n \in DOMAIN node PROVE node[n].superseded_in_layer = Never <=> n \in T
  <2>1. /\ n.layer <= a /\ node[n].superseded_in_layer \in Nat
        /\ (node[n].superseded_in_layer = Never \/ node[n].superseded_in_layer <= a)
    BY <1>1, <1>2, NodeFact DEF NodesOK
  <2>2. n \in T <=> a < node[n].superseded_in_layer
    BY <1>1, <1>2, <2>1 DEF Tree
  <2> QED BY <2>1, <2>2, <1>2
<1>4. DOMAIN OwnedMap = DOMAIN node
  BY DEF OwnedMap
<1>5. ASSUME NEW x \in T
      PROVE  /\ x.len \in PrefixLen
             /\ \/ x = r
                \/ \E p \in T : x \in OwnedMap[p] /\ p.len < x.len
  <2>1. x.len \in PrefixLen
    BY <1>2, NodeFact
  <2>2. CASE x.len = 0
    BY <2>1, <2>2, <1>1, <1>2, OneRoot
  <2>3. CASE x.len # 0
    <3>1. PICK p \in T : p.len < x.len /\ x \in ChildrenOf(p)
      BY <2>3, <1>1, <1>2, TreeParent
    <3>2. node[p].superseded_in_layer = Never /\ node[x].superseded_in_layer = Never
      BY <1>2, <1>3
    <3>3. x \in OwnedMap[p]
      BY <3>1, <3>2, <1>2 DEF OwnedMap, Owned
    <3> QED BY <2>1, <3>1, <3>3
  <2> QED BY <2>2, <2>3
<1>6. RootedAt(r, OwnedMap, T)
  BY <1>5 DEF RootedAt
<1>7. T \subseteq Closure(r, OwnedMap)
  BY <1>2, <1>4, <1>6, ClosureHas
<1> QED BY <1>1, <1>3, <1>7 DEF Destroyed

\* The active layer goes: below layer 2, and then everything does.
LEMMA RaiseEmpties ==
    ASSUME LayerInv, MetadataOK, NEW layer, NEW bound, NEW G, NEW D,
           Raised(layer, bound, G, D), active_layer \in G
    PROVE  Emptied' /\ failed' = FALSE
<1>1. /\ active_layer \in Nat /\ active_layer < 2 /\ active_layer \in Layers
      /\ bound = layer /\ G = {y \in roots : y <= layer} /\ layer \in Nat /\ active_layer <= layer
      /\ layer <= active_layer
      /\ roots \subseteq 0 .. active_layer /\ D = UNION {Destroyed(Root(y)) : y \in G}
  <2>1. /\ active_layer \in Nat /\ active_layer \in Layers /\ layer \in Nat
        /\ layer <= active_layer /\ roots \subseteq 0 .. active_layer
        /\ D = UNION {Destroyed(Root(y)) : y \in G}
        /\ active_layer < 2 => bound = layer /\ G = {y \in roots : y <= layer}
        /\ active_layer >= 2 => \A y \in G : y <= active_layer - 2
    BY DEF Raised
  <2>2. active_layer < 2
    BY <2>1
  <2> QED BY <2>1, <2>2
<1>2. G = roots
  <2>1. \A y \in roots : y <= layer
    BY <1>1
  <2> QED BY <2>1, <1>1
<1>3. \A t \in Threads : pc[t] = "idle"
  <2> SUFFICES ASSUME NEW t \in Threads, pc[t] # "idle" PROVE FALSE
    OBVIOUS
  <2>1. arg[t].layer = active_layer
    BY DEF LayerInv, CallsOK, CallOK
  <2>2. arg[t].layer = NoLayer \/ arg[t].layer > layer
    BY DEF Raised
  <2> QED BY <2>1, <2>2, <1>1 DEF NoLayer
<1>4. NodesOK /\ LayerZero /\ Pending = {}
  BY <1>1, NothingPending DEF LayerInv
<1>5. ASSUME NEW n \in DOMAIN node
      PROVE  n \in D
  <2>1. CASE node[n].superseded_in_layer = Never
    <3>1. n \in Destroyed(Root(active_layer))
      BY <2>1, <1>1, ActiveDestroyed
    <3> QED BY <3>1, <1>1
  <2>2. CASE node[n].superseded_in_layer # Never
    <3>1. PICK y : y = node[n].superseded_in_layer - 1
      OBVIOUS
    <3>2. /\ y \in roots /\ y < active_layer /\ y \in Nat
          /\ node[n].superseded_in_layer = y + 1
      BY <2>2, <3>1, <1>1, <1>4, NodeFact DEF NodesOK
    <3>3. n \in Destroyed(Root(y))
      BY <3>2, <1>4, DestroyedFact
    <3> QED BY <3>2, <3>3, <1>1, <1>2
  <2> QED BY <2>1, <2>2
<1>6. D \subseteq DOMAIN node
  <2> SUFFICES ASSUME NEW y \in roots PROVE Destroyed(Root(y)) \subseteq DOMAIN node
    BY <1>1, <1>2
  <2>1. Root(y) \in DOMAIN node
    BY DEF LayerInv, LayersOK, Tree
  <2>2. \A m \in DOMAIN node \cap DOMAIN OwnedMap : OwnedMap[m] \subseteq DOMAIN node
    BY DEF OwnedMap
  <2> QED BY <2>1, <2>2, ClosureIn DEF Destroyed
<1>7. ~DestructorFails(D)
  <2> SUFFICES ASSUME NEW m \in DOMAIN node, NEW c \in ChildrenOf(m)
               PROVE  /\ c \in DOMAIN node
                      /\ ~(node[m].superseded_in_layer > node[c].superseded_in_layer)
    BY <1>6 DEF DestructorFails
  <2>1. PICK y \in roots : m \in Tree(y)
    BY NodeInLayer
  <2>2. PICK b \in Branch : node[m].children[b] = c /\ c # Null
    BY <1>4, NodeFact
  <2>3. c \in Tree(y) /\ m.len < c.len /\ c \in DOMAIN node
    BY <2>1, <2>2, TreeEdge DEF Tree
  <2>4. /\ m.layer \in Nat /\ c.layer \in Nat /\ m.len \in Nat /\ c.len \in Nat
        /\ node[m].superseded_in_layer \in Nat /\ node[c].superseded_in_layer \in Nat
        /\ m.layer <= active_layer /\ c.layer <= m.layer
        /\ c.layer < node[c].superseded_in_layer
        /\ (node[c].superseded_in_layer = Never \/ node[c].superseded_in_layer <= active_layer)
        /\ (node[m].superseded_in_layer = Never \/ node[m].superseded_in_layer <= active_layer)
    BY <2>3, <1>4, NodeFact DEF NodesOK, PrefixLen
  <2>5. c.layer # 0
    BY <2>3, <2>4, <1>4 DEF LayerZero
  <2>6. c.layer = active_layer
    BY <2>4, <2>5, <1>1
  <2>7. node[c].superseded_in_layer = Never
    BY <2>3, <2>6, NewNodes
  <2> QED BY <2>3, <2>4, <2>7, <1>1, LayerNumbers
<1>8. /\ roots' = {} /\ DOMAIN node' = {} /\ DOMAIN metadata' = {}
      /\ failed' = FALSE /\ active_layer' = active_layer
      /\ freeable_lowerbound' \in Layers /\ kv' = kv /\ UNCHANGED <<pc, arg, cur, exp, old>>
  <2>1. DOMAIN metadata \subseteq DOMAIN node
    BY DEF MetadataOK
  <2>2. /\ roots' = roots \ G /\ failed' = DestructorFails(D)
        /\ node' = [n \in DOMAIN node \ D |-> node[n]]
        /\ metadata' = [n \in DOMAIN metadata \ D |-> metadata[n]]
        /\ freeable_lowerbound' \in Layers /\ active_layer' = active_layer
        /\ kv' = kv /\ UNCHANGED <<pc, arg, cur, exp, old>>
    BY DEF Raised, thread_vars
  <2>3. failed' = FALSE
    BY <2>2, <1>7 DEF DestructorFails
  <2> QED BY <2>1, <2>2, <2>3, <1>2, <1>5
<1>9. /\ pc = [t \in Threads |-> "idle"] /\ arg = [t \in Threads |-> NoArg]
      /\ \A t \in Threads : cur[t] = Null /\ exp[t] = Null /\ old[t] = Null
      /\ kv \in [Keys -> Value]
  <2>1. CallsOK /\ kv \in [Keys -> Value]
    BY DEF LayerInv, ContentsOK
  <2> QED BY <2>1, <1>3 DEF CallsOK
<1> QED BY <1>1, <1>8, <1>9 DEF Emptied

-----------------------------------------------------------------------------
(* The inductive invariant *)

LEMMA InitInv == Init => LayerInv
<1> SUFFICES ASSUME Init PROVE LayerInv
  OBVIOUS
<1>1. PICK r : r = Root(0)
  OBVIOUS
<1>2. 0 \in Layers /\ MaxLayer \in Nat /\ Never \in Nat /\ 0 < Never
  BY LayerNumbers, LayerAssumption DEF Layers
<1>3. /\ r \in NodeName /\ r.len = 0 /\ r.layer = 0 /\ r.pfx = Truncate(r.pfx, r.len)
  <2>1. ZeroKey \in Key /\ 0 \in PrefixLen
    BY BranchAssumption, KeyLenAssumption DEF ZeroKey, Key, PrefixLen
  <2> QED BY <2>1, <1>1, <1>2, NameFact, RootFact DEF Root
<1>4. /\ DOMAIN node = {r} /\ node[r] = Fields(NoKids, 0, Inactive, Never)
      /\ roots = {0} /\ active_layer = 0 /\ freeable_lowerbound = 0
  BY <1>1 DEF Init
<1>5. /\ node[r].children = NoKids /\ node[r].active_children = 0
      /\ node[r].value = Inactive /\ node[r].superseded_in_layer = Never
      /\ node[r] \in NodeBody
  <2>1. NoKids \in [Branch -> NodeName \cup {Null}]
    BY DEF NoKids
  <2> QED BY <2>1, <1>4, ValueAssumption DEF Fields, NodeBody
<1>6. ChildrenOf(r) = {}
  BY <1>5 DEF ChildrenOf, NoKids
<1>7. NodesOK
  <2>1. Cardinality({}) = 0
    BY FS_EmptySet
  <2> QED BY <2>1, <1>2, <1>3, <1>4, <1>5, <1>6 DEF NodesOK
<1>8. BoundsOK
  <2>1. {0, 0 - 1} \cap Nat \subseteq {0} /\ {0} \subseteq 0 .. 0
    OBVIOUS
  <2>2. RecentKept /\ roots \subseteq 0 .. active_layer
    BY <2>1, <1>4 DEF RecentKept
  <2>3. failed \in BOOLEAN
    BY DEF Init
  <2> QED BY <2>2, <2>3, <1>2, <1>4 DEF BoundsOK, LastTwoStay
<1>9. Pending = {}
  BY DEF Pending, Init
<1>10. Tree(0) = {r}
  <2>1. \A n : n \in Tree(0) <=> n \in DOMAIN node /\ n.layer <= 0 /\ 0 < node[n].superseded_in_layer
    BY <1>9 DEF Tree
  <2> QED BY <2>1, <1>2, <1>3, <1>4, <1>5
<1>11. TrieShape({r}, Pfxs, Lens, Kids, Null)
  <2>1. Kids[r] = NoKids /\ \A e \in Branch : NoKids[e] = Null
    BY <1>4, <1>5 DEF Kids, NoKids
  <2>2. ShapeEdges({r}, Pfxs, Lens, Kids, Null)
    BY <2>1 DEF ShapeEdges
  <2>3. ~(Lens[r] < Lens[r])
    BY <1>3, <1>4 DEF Lens
  <2>4. ShapePaths({r}, Pfxs, Lens, Kids, Null)
    BY <2>3 DEF ShapePaths
  <2>5. ShapeUnique({r}, Pfxs, Lens)
    BY DEF ShapeUnique
  <2> QED BY <2>2, <2>4, <2>5 DEF TrieShape
<1>12. LayersOK
  BY <1>1, <1>4, <1>10, <1>11 DEF LayersOK
<1>13. CallsOK
  <2>1. NoArg \in [layer : Layers \cup {NoLayer}, key : Key, value : Value, do_gc : BOOLEAN]
    BY BranchAssumption, ValueAssumption DEF NoArg, ZeroKey, Key
  <2> QED BY <2>1 DEF CallsOK, Init
<1>14. ContentsOK
  <2>1. NoMap \in [Keys -> Value] /\ \A k \in Keys : NoMap[k] = Inactive
    BY ValueAssumption DEF NoMap
  <2>2. kv = NoMap /\ sealed = [y \in Layers |-> NoMap]
    BY DEF Init
  <2>3. ~is_leaf(r)
    BY <1>3, KeyLenAssumption DEF is_leaf
  <2>4. Holds(0, kv)
    BY <2>1, <2>2, <2>3, <1>10 DEF Holds
  <2> QED BY <2>1, <2>2, <2>4, <1>4 DEF ContentsOK
<1>15. LayerZero
  BY <1>3, <1>4 DEF LayerZero
<1> QED BY <1>7, <1>8, <1>12, <1>13, <1>14, <1>15 DEF LayerInv

\* Nothing changes but the cached digests.
LEMMA SameInv ==
    ASSUME LayerInv, UNCHANGED <<node, roots, active_layer, freeable_lowerbound, failed>>,
           UNCHANGED <<pc, arg, cur, exp, old, kv, sealed>>
    PROVE  LayerInv'
<1>1. /\ node' = node /\ roots' = roots /\ active_layer' = active_layer
      /\ freeable_lowerbound' = freeable_lowerbound /\ failed' = failed
      /\ pc' = pc /\ arg' = arg /\ cur' = cur /\ exp' = exp /\ old' = old
      /\ kv' = kv /\ sealed' = sealed
  OBVIOUS
<1>2. /\ Pfxs' = Pfxs /\ Lens' = Lens /\ Kids' = Kids
  BY <1>1 DEF Pfxs, Lens, Kids
<1>3. ASSUME NEW n PROVE ChildrenOf(n)' = ChildrenOf(n) /\ (Recent(n)' <=> Recent(n))
  BY <1>1 DEF ChildrenOf, Recent
<1>4. UniqueChild' = UniqueChild
  <2>1. ASSUME NEW n PROVE get_unique_child(n)' = get_unique_child(n)
    BY <1>3 DEF get_unique_child
  <2> QED BY <2>1, <1>1 DEF UniqueChild
<1>5. ASSUME NEW n PROVE ChainSet(n)' = ChainSet(n)
  BY <1>4 DEF ChainSet, Chain
<1>6. Pending' = Pending
  <2>1. \A t \in Threads : ChainSet(old[t])' = ChainSet(old[t])
    BY <1>1, <1>5
  <2>2. ASSUME NEW n PROVE n \in Pending' <=> n \in Pending
    BY <2>1, <1>1 DEF Pending
  <2> QED BY <2>2
<1>7. ASSUME NEW y PROVE Tree(y)' = Tree(y)
  BY <1>1, <1>6 DEF Tree
<1>8. NodesOK'
  BY <1>1, <1>3 DEF NodesOK, LayerInv
<1>9. BoundsOK'
  BY <1>1 DEF BoundsOK, LastTwoStay, RecentKept, LayerInv
<1>10. LayersOK'
  BY <1>1, <1>2, <1>7 DEF LayersOK, LayerInv
<1>11. ASSUME NEW t \in Threads, CallOK(t) PROVE CallOK(t)'
  <2>1. Tree(active_layer - 1)' = Tree(active_layer - 1)
    BY <1>1, <1>7
  <2>2. ChainSet(old[t])' = ChainSet(old[t]) /\ (Recent(exp[t])' <=> Recent(exp[t]))
    BY <1>1, <1>3, <1>5
  <2> QED BY <2>1, <2>2, <1>1, <1>11 DEF CallOK
<1>12. CallsOK'
  BY <1>1, <1>11 DEF CallsOK, LayerInv
<1>13. ASSUME NEW y, NEW m, Holds(y, m) PROVE Holds(y, m)'
  BY <1>1, <1>7, <1>13 DEF Holds
<1>14. ContentsOK'
  <2>1. Holds(active_layer, kv) /\ (\A y \in roots : y < active_layer => Holds(y, sealed[y]))
        /\ kv \in [Keys -> Value] /\ sealed \in [Layers -> [Keys -> Value]]
    BY DEF LayerInv, ContentsOK
  <2>2. Holds(active_layer, kv)'
    <3>1. PICK y, m : y = active_layer /\ m = kv
      OBVIOUS
    <3>2. Holds(y, m)'
      BY <3>1, <2>1, <1>13
    <3> QED BY <3>1, <3>2, <1>1
  <2>3. ASSUME NEW y \in roots, y < active_layer PROVE Holds(y, sealed[y])'
    <3>1. PICK m : m = sealed[y]
      OBVIOUS
    <3>2. Holds(y, m)'
      BY <3>1, <2>1, <2>3, <1>13
    <3> QED BY <3>1, <3>2, <1>1
  <2> QED BY <2>1, <2>2, <2>3, <1>1 DEF ContentsOK
<1>15. LayerZero'
  BY <1>1 DEF LayerInv, LayerZero
<1> QED BY <1>8, <1>9, <1>10, <1>12, <1>14, <1>15 DEF LayerInv

\* The layers that callers raise the bound to.
LEMMA RaiseRange ==
    ASSUME LayerInv \/ Emptied, NEW y \in {active_layer - d : d \in Back} \cap Nat
    PROVE  y \in 0 .. active_layer
<1>1. active_layer \in Nat
  BY LayerNumbers DEF LayerInv, BoundsOK, Emptied
<1> QED BY <1>1, BackAssumption

LEMMA RaiseNext ==
    ASSUME LayerInv, MetadataOK, NEW y \in 0 .. active_layer, raise_gc_lowerbound(y)
    PROVE  (LayerInv' \/ Emptied') /\ ~failed'
<1>1. PICK bound, G, D : Raised(y, bound, G, D)
  BY RaisedFact
<1>2. CASE active_layer \in G
  BY <1>1, <1>2, RaiseEmpties
<1>3. CASE active_layer \notin G
  BY <1>1, <1>3, RaiseFact, RaiseInv
<1> QED BY <1>2, <1>3

\* The steps of threads.
LEMMA ThreadInv ==
    ASSUME LayerInv, ~failed, NEW t \in Threads, Call(t) \/ InsertStep(t)
    PROVE  LayerInv'
<1>1. CASE Call(t)
  <2>1. PICK k \in Keys, v \in Value, gc \in BOOLEAN : StartInsert(t, k, v, gc)
    BY <1>1, ValueAssumption DEF Call
  <2> QED BY <2>1, StartInsertInv
<1>2. CASE InsertStep(t)
  BY <1>2, AssertFailsInv, ModifyInv, GcReturnsInv, InsertAttachInv, InsertDescendInv,
     InsertSplitInv, InsertSupersedeInv, MarkSupersededInv, InsertRetryInv DEF InsertStep
<1> QED BY <1>1, <1>2

LEMMA HashInv ==
    ASSUME LayerInv, NEW y, compute_hash(y)
    PROVE  LayerInv'
<1>1. /\ UNCHANGED <<node, roots, active_layer, freeable_lowerbound, failed>>
      /\ UNCHANGED <<pc, arg, cur, exp, old, kv, sealed>>
  BY DEF compute_hash, thread_vars, ghosts
<1> QED BY <1>1, SameInv

LEMMA NextInv ==
    ASSUME LayerInv, MetadataOK, Next
    PROVE  LayerInv' \/ Emptied'
<1>1. ~failed
  BY DEF Next
<1>2. CASE bump_active_layer
  BY <1>2, BumpInv
<1>3. ASSUME NEW y \in {active_layer - d : d \in Back} \cap Nat, raise_gc_lowerbound(y)
      PROVE  LayerInv' \/ Emptied'
  BY <1>3, RaiseRange, RaiseNext
<1>4. ASSUME NEW y, compute_hash(y) PROVE LayerInv'
  BY <1>4, HashInv
<1> QED BY <1>1, <1>2, <1>3, <1>4, ThreadInv DEF Next

\* Nothing comes back once the active layer is freed.
LEMMA EmptiedStays ==
    ASSUME Emptied, [Next]_vars
    PROVE  Emptied'
<1>1. CASE UNCHANGED vars
  BY <1>1 DEF Emptied, vars, trie_vars, thread_vars, ghosts
<1>2. ASSUME NEW y \in {active_layer - d : d \in Back} \cap Nat, raise_gc_lowerbound(y)
      PROVE  Emptied'
  <2>1. y \in Layers
    <3>1. y \in 0 .. active_layer /\ active_layer \in Layers
      BY <1>2, RaiseRange DEF Emptied
    <3> QED BY <3>1, LayerNumbers DEF Layers
  <2>2. PICK bound, G, D :
           /\ bound \in {y, freeable_lowerbound} /\ G \subseteq roots
           /\ D = UNION {Destroyed(Root(x)) : x \in G}
           /\ freeable_lowerbound' = bound /\ roots' = roots \ G
           /\ failed' = DestructorFails(D)
           /\ node' = [n \in DOMAIN node \ D |-> node[n]]
           /\ metadata' = [n \in DOMAIN metadata \ D |-> metadata[n]]
           /\ active_layer' = active_layer /\ UNCHANGED thread_vars /\ kv' = kv
    BY <1>2 DEF raise_gc_lowerbound
  <2>3. /\ DOMAIN node' = {} /\ DOMAIN metadata' = {} /\ roots' = {}
        /\ freeable_lowerbound' \in Layers
    BY <2>1, <2>2 DEF Emptied
  <2>4. failed' \in BOOLEAN
    BY <2>2 DEF DestructorFails
  <2> QED BY <2>2, <2>3, <2>4 DEF Emptied, thread_vars
<1>3. ASSUME NEW t \in Threads, Call(t) \/ InsertStep(t) PROVE FALSE
  <2>1. pc[t] = "idle" /\ roots = {}
    BY DEF Emptied
  <2>2. ~Call(t)
    BY <2>1 DEF Call, StartInsert
  <2> QED BY <1>3, <2>1, <2>2 DEF InsertStep, AssertFails, Modify, GcReturns, InsertAttach,
            InsertDescend, InsertSplit, InsertSupersede, MarkSuperseded, InsertRetry
<1>4. ~bump_active_layer /\ ~\E y \in roots \cap Hashed : compute_hash(y)
  BY DEF Emptied, bump_active_layer
<1> QED BY <1>1, <1>2, <1>3, <1>4 DEF Next

-----------------------------------------------------------------------------
(* What a layer reaches *)

LEMMA ReachIn ==
    ASSUME LayerInv, NEW n \in DOMAIN node
    PROVE  Reach(n) \subseteq DOMAIN node
<1>1. \A m \in DOMAIN node \cap DOMAIN ChildMap : ChildMap[m] \subseteq DOMAIN node
  BY ChildrenKept DEF ChildMap
<1> QED BY <1>1, ClosureIn DEF Reach

\* What is reached from the root of a layer is the layer.
LEMMA ReachTree ==
    ASSUME LayerInv, NEW y \in roots
    PROVE  Reach(Root(y)) = Tree(y)
<1>1. Tree(y) \subseteq DOMAIN node /\ Root(y) \in Tree(y) /\ NodesOK
  BY DEF LayerInv, LayersOK, Tree
<1>2. DOMAIN ChildMap = DOMAIN node /\ \A m \in DOMAIN node : ChildMap[m] = ChildrenOf(m)
  BY DEF ChildMap
<1>3. \A m \in Tree(y) \cap DOMAIN ChildMap : ChildMap[m] \subseteq Tree(y)
  <2> SUFFICES ASSUME NEW m \in Tree(y), NEW c \in ChildrenOf(m) PROVE c \in Tree(y)
    BY <1>1, <1>2
  <2>1. PICK b \in Branch : node[m].children[b] = c /\ c # Null
    BY <1>1, NodeFact
  <2> QED BY <2>1, TreeEdge
<1>4. Reach(Root(y)) \subseteq Tree(y)
  BY <1>1, <1>3, ClosureIn DEF Reach
<1>5. RootedAt(Root(y), ChildMap, Tree(y))
  <2>1. ASSUME NEW x \in Tree(y)
        PROVE  /\ x.len \in PrefixLen
               /\ \/ x = Root(y)
                  \/ \E p \in Tree(y) : x \in ChildMap[p] /\ p.len < x.len
    <3>1. x.len \in PrefixLen
      BY <1>1, NodeFact
    <3>2. CASE x.len = 0
      BY <3>1, <3>2, OneRoot
    <3>3. CASE x.len # 0
      <4>1. PICK p \in Tree(y) : p.len < x.len /\ x \in ChildrenOf(p)
        BY <3>3, TreeParent
      <4>2. x \in ChildMap[p]
        BY <4>1, <1>1, <1>2
      <4> QED BY <3>1, <4>1, <4>2
    <3> QED BY <3>2, <3>3
  <2> QED BY <2>1 DEF RootedAt
<1>6. Tree(y) \subseteq Reach(Root(y))
  BY <1>1, <1>2, <1>5, ClosureHas DEF Reach
<1> QED BY <1>4, <1>6

-----------------------------------------------------------------------------
(* The leaves, and the cached digests *)

LEMMA PublishDomain ==
    ASSUME NEW t, NEW new, NEW fields, Publish(t, new, fields)
    PROVE  DOMAIN node' \subseteq DOMAIN node \cup ({new} \ {Null})
BY DEF Publish, Put

LEMMA LeafKeysInit == Init => LeafKeys
<1> SUFFICES ASSUME Init, NEW n \in DOMAIN node PROVE ~is_leaf(n)
  BY DEF LeafKeys
<1>1. n = Root(0)
  BY DEF Init
<1>2. 0 \in Layers
  BY LayerAssumption DEF Layers
<1> QED BY <1>1, <1>2, RootFact, KeyLenAssumption DEF is_leaf

LEMMA LeafKeysPublish ==
    ASSUME LeafKeys, NEW t, NEW new, NEW fields, Publish(t, new, fields),
           new # Null /\ is_leaf(new) => new.pfx \in Keys
    PROVE  LeafKeys'
<1>1. \A n \in DOMAIN node' : n \in DOMAIN node \/ (n = new /\ n # Null)
  BY PublishDomain
<1> QED BY <1>1 DEF LeafKeys, is_leaf

LEMMA LeafKeysSame ==
    ASSUME LeafKeys, DOMAIN node' \subseteq DOMAIN node
    PROVE  LeafKeys'
BY DEF LeafKeys, is_leaf

LEMMA LeafKeysStep ==
    ASSUME LayerInv, LeafKeys, Next
    PROVE  LeafKeys'
<1>1. CASE bump_active_layer
  <2>1. DOMAIN node' \subseteq DOMAIN node \cup {Root(active_layer + 1)} /\ active_layer + 1 \in Layers
    BY <1>1 DEF bump_active_layer, Put
  <2>2. ~is_leaf(Root(active_layer + 1))
    BY <2>1, RootFact, KeyLenAssumption DEF is_leaf
  <2> QED BY <2>1, <2>2 DEF LeafKeys, is_leaf
<1>2. ASSUME NEW y, raise_gc_lowerbound(y) PROVE LeafKeys'
  <2>1. DOMAIN node' \subseteq DOMAIN node
    BY <1>2 DEF raise_gc_lowerbound
  <2> QED BY <2>1, LeafKeysSame
<1>5. ASSUME NEW y, compute_hash(y) PROVE LeafKeys'
  BY <1>5, LeafKeysSame DEF compute_hash
<1>3. ASSUME NEW t \in Threads, Call(t) PROVE LeafKeys'
  BY <1>3, LeafKeysSame DEF Call, StartInsert, trie_vars
<1>4. ASSUME NEW t \in Threads, InsertStep(t) PROVE LeafKeys'
  <2>1. CASE AssertFails(t) \/ GcReturns(t) \/ InsertDescend(t) \/ InsertRetry(t)
    BY <2>1, LeafKeysSame DEF AssertFails, GcReturns, InsertDescend, InsertRetry, trie_vars
  <2>2. CASE Modify(t)
    <3>1. DOMAIN node' = DOMAIN node
      BY <2>2 DEF Modify
    <3> QED BY <3>1, LeafKeysSame
  <2>3. CASE MarkSuperseded(t)
    <3>1. DOMAIN node' = DOMAIN node
      BY <2>3 DEF MarkSuperseded
    <3> QED BY <3>1, LeafKeysSame
  <2>4. ASSUME pc[t] = "try"
        PROVE  /\ arg[t].key \in Keys /\ Leaf(t).pfx \in Keys
               /\ exp[t] # Null => exp[t] \in NodeName
    BY <2>4, LeafFact DEF LayerInv, CallsOK, CallOK
  <2>5. CASE InsertAttach(t)
    <3>1. pc[t] = "try" /\ Publish(t, Leaf(t), EmptyLeaf)
      BY <2>5 DEF InsertAttach
    <3> QED BY <3>1, <2>4, LeafKeysPublish
  <2>6. CASE InsertSplit(t)
    <3>1. PICK l, new, fields :
             /\ l = MatchLen(exp[t].pfx, exp[t].len, arg[t].key, KeyLen)
             /\ new = Name(arg[t].key, l, arg[t].layer)
             /\ Publish(t, new, fields)
      BY <2>6 DEF InsertSplit
    <3>2. pc[t] = "try" /\ exp[t] # Null /\ l # exp[t].len
      BY <2>6, <3>1 DEF InsertSplit, Diverges, Matches
    <3>3. /\ exp[t].pfx \in Key /\ exp[t].len \in PrefixLen /\ arg[t].key \in Key
          /\ KeyLen \in PrefixLen
      BY <2>4, <3>2, KeysAssumption, KeyLenAssumption DEF NodeName, PrefixLen
    <3>4. l \in PrefixLen /\ l <= exp[t].len
      BY <3>1, <3>3, MatchLenFact
    <3>5. new.len # KeyLen
      BY <3>1, <3>2, <3>3, <3>4, KeyLenAssumption DEF Name, PrefixLen
    <3> QED BY <3>1, <3>5, LeafKeysPublish DEF is_leaf
  <2>7. CASE InsertSupersede(t)
    <3>1. /\ pc[t] = "try" /\ OldLayer(t) /\ SlotUnchanged(t)
          /\ Publish(t, Replacement(t).name, Replacement(t).fields)
      BY <2>7 DEF InsertSupersede, Publish
    <3>2. CASE Unused(exp[t])
      <4>1. Replacement(t).name \in {Null, Leaf(t)}
        BY <3>2, <2>4, <3>1 DEF Replacement
      <4> QED BY <4>1, <3>1, <2>4, LeafKeysPublish
    <3>3. CASE ~Unused(exp[t])
      <4>1. PICK c, e : c = exp[t] /\ e = ChainEnd(c)
        OBVIOUS
      <4>2. c \in Tree(active_layer) /\ active_layer \in roots
        BY <3>1, <4>1, OldFact, SlotFact
      <4>3. e \in DOMAIN node /\ NodesOK
        BY <4>1, <4>2, CopyFact DEF Tree, LayerInv
      <4>4. Replacement(t).name = Name(e.pfx, e.len, arg[t].layer)
        BY <3>3, <4>1 DEF Replacement
      <4>5. Name(e.pfx, e.len, arg[t].layer).len = e.len
            /\ Name(e.pfx, e.len, arg[t].layer).pfx = Truncate(e.pfx, e.len)
        BY DEF Name
      <4>6. e.pfx \in Key
        BY <4>3, NodeFact
      <4>7. is_leaf(Replacement(t).name) => Replacement(t).name.pfx \in Keys
        BY <4>3, <4>4, <4>5, <4>6, FullTruncate DEF is_leaf, LeafKeys
      <4> QED BY <4>7, <3>1, LeafKeysPublish
    <3> QED BY <3>2, <3>3
  <2> QED BY <1>4, <2>1, <2>2, <2>3, <2>5, <2>6, <2>7 DEF InsertStep
<1> QED BY <1>1, <1>2, <1>3, <1>4, <1>5 DEF Next

\* Only the digests of the children matter.
LEMMA HashSame ==
    ASSUME NEW m, NEW d, NEW e,
           \A b \in Branch : node[m].children[b] # Null =>
               d[node[m].children[b]] = e[node[m].children[b]]
    PROVE  HashFrom(m, d) = HashFrom(m, e)
<1>1. [b \in Branch |-> IF node[m].children[b] = Null THEN NoHash ELSE d[node[m].children[b]]]
      = [b \in Branch |-> IF node[m].children[b] = Null THEN NoHash ELSE e[node[m].children[b]]]
  OBVIOUS
<1> QED BY <1>1 DEF HashFrom

LEMMA KidLonger ==
    ASSUME LayerInv, NEW n \in DOMAIN node, NEW b \in Branch, node[n].children[b] # Null
    PROVE  node[n].children[b] \in DOMAIN node /\ n.len < node[n].children[b].len
<1>1. PICK y \in roots : n \in Tree(y)
  BY NodeInLayer
<1>2. PICK c : c = node[n].children[b]
  OBVIOUS
<1>3. c \in Tree(y) /\ n.len < c.len
  BY <1>1, <1>2, TreeEdge
<1> QED BY <1>2, <1>3 DEF Tree

\* What compute_hash finds in node m or makes of its children's digests.
MetadataFrom(m, d) == IF m \in DOMAIN metadata THEN metadata[m] ELSE HashFrom(m, d)

LEMMA MetadataFromSame ==
    ASSUME NEW m, NEW d, NEW e,
           \A b \in Branch : node[m].children[b] # Null =>
               d[node[m].children[b]] = e[node[m].children[b]]
    PROVE  MetadataFrom(m, d) = MetadataFrom(m, e)
<1>1. HashFrom(m, d) = HashFrom(m, e)
  BY HashSame
<1> QED BY <1>1 DEF MetadataFrom

\* The digests that compute_hash leaves in the nodes of a layer.
LEMMA MetadataFact ==
    ASSUME LayerInv, NEW y, compute_hash(y)
    PROVE  \E f : /\ \A m \in DOMAIN node : f[m] = MetadataFrom(m, f)
                  /\ metadata' = [m \in DOMAIN metadata \cup Reach(Root(y)) |-> f[m]]
<1> DEFINE D == DOMAIN node
           R(f) == f = [m \in D |-> IF m \in DOMAIN metadata THEN metadata[m] ELSE HashFrom(m, f)]
           H(g, h) == \A m \in D : m.len >= KeyLen - h => g[m] = MetadataFrom(m, g)
           G == {h \in 0 .. KeyLen : \E g : H(g, h)}
<1>2. KeyLen \in Nat /\ 0 \in Nat /\ 0 \in 0 .. KeyLen /\ KeyLen \in 0 .. KeyLen
  BY KeyLenAssumption
<1>3. \A m \in D : m.len \in 0 .. KeyLen
  BY NodeFact DEF LayerInv, PrefixLen
<1>4. \A m \in D, b \in Branch : node[m].children[b] # Null =>
         node[m].children[b] \in D /\ m.len < node[m].children[b].len
  BY KidLonger
<1>5. 0 \in G
  <2> DEFINE g == [m \in D |-> MetadataFrom(m, <<>>)]
  <2>1. ASSUME NEW m \in D, m.len >= KeyLen - 0 PROVE g[m] = MetadataFrom(m, g)
    <3>1. g[m] = MetadataFrom(m, <<>>)
      OBVIOUS
    <3> HIDE DEF g
    <3>2. ASSUME NEW b \in Branch, node[m].children[b] # Null PROVE FALSE
      <4>1. PICK c : c = node[m].children[b]
        OBVIOUS
      <4>2. c \in D /\ m.len < c.len
        BY <3>2, <4>1, <1>4
      <4> QED BY <2>1, <4>2, <1>2, <1>3
    <3>3. MetadataFrom(m, <<>>) = MetadataFrom(m, g)
      BY <3>2, MetadataFromSame
    <3> QED BY <3>1, <3>3
  <2>2. H(g, 0)
    BY <2>1
  <2> HIDE DEF g, H
  <2> QED BY <2>2, <1>2
<1>6. ASSUME NEW h \in 0 .. KeyLen, h + 1 <= KeyLen, h \in G
      PROVE  h + 1 \in G
  <2>1. PICK g : H(g, h)
    BY <1>6
  <2> DEFINE g2 == [m \in D |-> IF m.len >= KeyLen - h THEN g[m] ELSE MetadataFrom(m, g)]
  <2>2. \A m \in D : g2[m] = IF m.len >= KeyLen - h THEN g[m] ELSE MetadataFrom(m, g)
    OBVIOUS
  <2> HIDE DEF g2
  <2>3. ASSUME NEW m \in D, m.len >= KeyLen - (h + 1)
        PROVE  g2[m] = MetadataFrom(m, g2)
    <3>1. g2[m] = MetadataFrom(m, g)
      BY <2>1, <2>2
    <3>2. ASSUME NEW b \in Branch, node[m].children[b] # Null
          PROVE  g[node[m].children[b]] = g2[node[m].children[b]]
      <4>1. PICK c : c = node[m].children[b]
        OBVIOUS
      <4>2. c \in D /\ m.len < c.len
        BY <3>2, <4>1, <1>4
      <4>3. c.len >= KeyLen - h
        BY <2>3, <4>2, <1>2, <1>3
      <4>4. g2[c] = g[c]
        BY <2>2, <4>2, <4>3
      <4> QED BY <4>1, <4>4
    <3>3. MetadataFrom(m, g) = MetadataFrom(m, g2)
      BY <3>2, MetadataFromSame
    <3> QED BY <3>1, <3>3
  <2>4. H(g2, h + 1)
    BY <2>3
  <2>5. h + 1 \in 0 .. KeyLen
    BY <1>2, <1>6
  <2> HIDE DEF H
  <2> QED BY <2>4, <2>5
<1>7. KeyLen \in G
  <2> HIDE DEF G
  <2> QED BY <1>2, <1>5, <1>6, RangeInduction
<1>8. PICK g : \A m \in D : g[m] = MetadataFrom(m, g)
  <2>1. PICK g : H(g, KeyLen)
    BY <1>7
  <2>2. ASSUME NEW m \in D PROVE m.len >= KeyLen - KeyLen
    BY <1>2, <1>3
  <2> QED BY <2>1, <2>2
<1>9. \E f : R(f)
  <2> DEFINE f == [m \in D |-> g[m]]
  <2>1. \A m \in D : f[m] = g[m]
    OBVIOUS
  <2>2. ASSUME NEW m \in D PROVE g[m] = MetadataFrom(m, f)
    <3> HIDE DEF f
    <3>1. ASSUME NEW b \in Branch, node[m].children[b] # Null
          PROVE  g[node[m].children[b]] = f[node[m].children[b]]
      BY <3>1, <2>1, <1>4
    <3>2. MetadataFrom(m, g) = MetadataFrom(m, f)
      BY <3>1, MetadataFromSame
    <3> QED BY <3>2, <1>8
  <2>3. f = [m \in D |-> MetadataFrom(m, f)]
    <3>1. f = [m \in D |-> g[m]]
      OBVIOUS
    <3> HIDE DEF f
    <3> QED BY <3>1, <2>2
  <2>4. R(f)
    <3> HIDE DEF f
    <3> QED BY <2>3 DEF MetadataFrom
  <2> QED BY <2>4
<1>10. PICK f : f = (CHOOSE h : R(h)) /\ R(f)
  BY <1>9
<1>11. metadata' = [m \in DOMAIN metadata \cup Reach(Root(y)) |-> f[m]]
  BY <1>10 DEF compute_hash
<1>12. \A m \in D : f[m] = MetadataFrom(m, f)
  <2>1. R(f)
    BY <1>10
  <2> QED BY <2>1 DEF MetadataFrom
<1> QED BY <1>11, <1>12

\* Digests stay right in nodes that keep their children and values.
LEMMA MetadataFrame ==
    ASSUME LayerInv, MetadataOK, active_layer' \in Nat, active_layer <= active_layer',
           NEW S, DOMAIN metadata' = S, S \subseteq DOMAIN metadata,
           \A n \in S : /\ metadata'[n] = metadata[n] /\ n \in DOMAIN node'
                        /\ node'[n].children = node[n].children /\ node'[n].value = node[n].value
                        /\ ChildrenOf(n) \subseteq S
    PROVE  MetadataOK'
<1> SUFFICES ASSUME NEW n \in S
             PROVE  /\ n \in DOMAIN node' /\ n.layer < active_layer'
                    /\ ChildrenOf(n)' \subseteq S
                    /\ metadata'[n] = HashFrom(n, metadata)'
  BY DEF MetadataOK
<1>1. /\ n \in DOMAIN node /\ n.layer < active_layer /\ NodesOK /\ active_layer \in Nat
      /\ metadata[n] = HashFrom(n, metadata)
  BY LayerNumbers DEF MetadataOK, LayerInv, BoundsOK
<1>2. n.layer \in Nat
  BY <1>1, NodeFact
<1>3. ChildrenOf(n)' = ChildrenOf(n)
  BY DEF ChildrenOf
<1>4. HashFrom(n, metadata)' = HashFrom(n, metadata)
  <2>1. CASE is_leaf(n)
    BY <2>1 DEF HashFrom, is_active_leaf
  <2>2. CASE ~is_leaf(n)
    <3>1. ASSUME NEW b \in Branch, node[n].children[b] # Null
          PROVE  metadata'[node[n].children[b]] = metadata[node[n].children[b]]
      <4>1. node[n].children[b] \in ChildrenOf(n)
        BY <3>1, <2>2 DEF ChildrenOf
      <4> QED BY <4>1
    <3>2. PICK k : k = node[n].children /\ k = node'[n].children
      OBVIOUS
    <3>3. PICK v, w : /\ v = [b \in Branch |-> IF k[b] = Null THEN NoHash ELSE metadata'[k[b]]]
                      /\ w = [b \in Branch |-> IF k[b] = Null THEN NoHash ELSE metadata[k[b]]]
      OBVIOUS
    <3>4. v = w
      BY <3>1, <3>2, <3>3
    <3>5. HashFrom(n, metadata)' = HashKids(n, v)
      BY <2>2, <3>2, <3>3 DEF HashFrom
    <3>6. HashFrom(n, metadata) = HashKids(n, w)
      BY <2>2, <3>2, <3>3 DEF HashFrom
    <3> QED BY <3>4, <3>5, <3>6
  <2> QED BY <2>1, <2>2
<1> QED BY <1>1, <1>2, <1>3, <1>4

\* A step that keeps what the nodes of older layers hold.
KeepsOlder ==
    /\ metadata' = metadata
    /\ \A n \in DOMAIN node : n.layer < active_layer =>
          /\ n \in DOMAIN node' /\ node'[n].children = node[n].children
          /\ node'[n].value = node[n].value

LEMMA MetadataKept ==
    ASSUME LayerInv, MetadataOK, KeepsOlder, active_layer' \in Nat, active_layer <= active_layer'
    PROVE  MetadataOK'
<1>1. ASSUME NEW n \in DOMAIN metadata
      PROVE  /\ metadata'[n] = metadata[n] /\ n \in DOMAIN node'
             /\ node'[n].children = node[n].children /\ node'[n].value = node[n].value
             /\ ChildrenOf(n) \subseteq DOMAIN metadata
  BY DEF MetadataOK, KeepsOlder
<1>2. DOMAIN metadata' = DOMAIN metadata
  BY DEF KeepsOlder
<1> QED BY <1>1, <1>2, MetadataFrame

LEMMA PublishKeeps ==
    ASSUME LayerInv, NEW t \in Threads, pc[t] = "try", NEW new, NEW fields,
           Publish(t, new, fields), new # Null => new.layer = active_layer
    PROVE  KeepsOlder /\ active_layer' = active_layer
<1>1. cur[t].layer = active_layer /\ active_layer \in Nat
  BY SlotFact, LayerNumbers DEF LayerInv, BoundsOK
<1>2. PICK linked : /\ DOMAIN linked = DOMAIN node
                    /\ \A m \in DOMAIN node : m # cur[t] => linked[m] = node[m]
                    /\ node' = IF new = Null THEN linked ELSE Put(linked, new, fields)
  BY DEF Publish
<1>3. ASSUME NEW n \in DOMAIN node, n.layer < active_layer
      PROVE  n \in DOMAIN node' /\ node'[n] = node[n]
  <2>1. n # cur[t] /\ (new # Null => n # new)
    BY <1>1, <1>3
  <2> QED BY <1>2, <2>1 DEF Put
<1> QED BY <1>3 DEF KeepsOlder, Publish

LEMMA ThreadKeeps ==
    ASSUME LayerInv, NEW t \in Threads, Call(t) \/ InsertStep(t)
    PROVE  KeepsOlder /\ active_layer' = active_layer
<1>1. CASE UNCHANGED trie_vars
  BY <1>1 DEF KeepsOlder, trie_vars
<1>2. CASE Call(t) \/ AssertFails(t) \/ GcReturns(t) \/ InsertDescend(t) \/ InsertRetry(t)
  <2>1. UNCHANGED trie_vars
    BY <1>2 DEF Call, StartInsert, AssertFails, GcReturns, InsertDescend, InsertRetry
  <2> QED BY <2>1, <1>1
<1>3. CASE Modify(t)
  <2>1. pc[t] = "at" /\ active_layer \in Nat
    BY <1>3, LayerNumbers DEF Modify, LayerInv, BoundsOK
  <2>2. cur[t].layer = active_layer
    BY <2>1 DEF LayerInv, CallsOK, CallOK
  <2>3. /\ metadata' = metadata /\ active_layer' = active_layer
        /\ node' = node \/ node' = [node EXCEPT ![cur[t]].value = arg[t].value]
    BY <1>3 DEF Modify
  <2> QED BY <2>1, <2>2, <2>3 DEF KeepsOlder
<1>4. CASE MarkSuperseded(t)
  <2>1. Marked(ChainSet(old[t]))
    BY <1>4, MarkFact
  <2>2. metadata' = metadata /\ active_layer' = active_layer
    BY <1>4 DEF MarkSuperseded
  <2> QED BY <2>1, <2>2 DEF Marked, KeepsOlder
<1>5. ASSUME NEW k, NEW l PROVE Name(k, l, arg[t].layer).layer = arg[t].layer
  BY DEF Name
<1>6. ASSUME pc[t] = "try" PROVE arg[t].layer = active_layer
  BY <1>6, SlotFact
<1>7. CASE InsertAttach(t)
  <2>1. pc[t] = "try" /\ Publish(t, Leaf(t), EmptyLeaf)
    BY <1>7 DEF InsertAttach
  <2>2. Leaf(t).layer = active_layer
    BY <2>1, <1>5, <1>6 DEF Leaf
  <2> QED BY <2>1, <2>2, PublishKeeps
<1>8. CASE InsertSplit(t)
  <2>1. PICK l, fields : pc[t] = "try" /\ Publish(t, Name(arg[t].key, l, arg[t].layer), fields)
    BY <1>8 DEF InsertSplit
  <2> QED BY <2>1, <1>5, <1>6, PublishKeeps
<1>9. CASE InsertSupersede(t)
  <2>1. pc[t] = "try" /\ Publish(t, Replacement(t).name, Replacement(t).fields)
    BY <1>9 DEF InsertSupersede
  <2>2. Replacement(t).name # Null => Replacement(t).name.layer = active_layer
    <3>1. CASE Unused(exp[t])
      <4>1. Replacement(t).name = Null \/ Replacement(t).name = Leaf(t)
        <5>1. arg[t].do_gc \in BOOLEAN
          BY <2>1 DEF LayerInv, CallsOK, CallOK
        <5> QED BY <5>1, <3>1 DEF Replacement
      <4>2. Leaf(t).layer = active_layer
        BY <2>1, <1>5, <1>6 DEF Leaf
      <4> QED BY <4>1, <4>2
    <3>2. CASE ~Unused(exp[t])
      <4>1. PICK e : Replacement(t).name = Name(e.pfx, e.len, arg[t].layer)
        BY <3>2 DEF Replacement
      <4> QED BY <4>1, <2>1, <1>5, <1>6
    <3> QED BY <3>1, <3>2
  <2> QED BY <2>1, <2>2, PublishKeeps
<1> QED BY <1>2, <1>3, <1>4, <1>7, <1>8, <1>9 DEF InsertStep

\* A node that stays is in a layer that stays.
LEMMA NodeInKept ==
    ASSUME LayerInv, NEW a, NEW G, NEW D, Freed(a, G, D), NEW n \in DOMAIN node'
    PROVE  n \in DOMAIN node /\ ChildrenOf(n) \subseteq DOMAIN node'
<1>1. /\ a = active_layer /\ roots' = roots \ G /\ n \in DOMAIN node
      /\ ~(node[n].superseded_in_layer - 1 \in G)
  BY DEF Freed
<1>2. KeepsSealed /\ LastTwoKept
  BY FreedKeeps
<1>3. /\ NodesOK /\ active_layer \in Nat /\ active_layer < Never
  BY LayerNumbers DEF LayerInv, BoundsOK
<1>4. /\ n.layer \in Nat /\ node[n].superseded_in_layer \in Nat
      /\ n.layer <= active_layer /\ n.layer < node[n].superseded_in_layer
      /\ \/ node[n].superseded_in_layer = Never
         \/ /\ node[n].superseded_in_layer <= active_layer
            /\ node[n].superseded_in_layer - 1 \in roots
  BY <1>1, <1>3, NodeFact DEF NodesOK
<1>5. PICK y \in roots' : n \in Tree(y)
  <2>1. CASE node[n].superseded_in_layer # Never
    <3> DEFINE y == node[n].superseded_in_layer - 1
    <3>1. y \in roots' /\ n.layer <= y /\ y < node[n].superseded_in_layer /\ y # active_layer
      BY <2>1, <1>1, <1>3, <1>4
    <3> QED BY <3>1, <1>1 DEF Tree
  <2>2. CASE node[n].superseded_in_layer = Never /\ n \notin Pending
    <3>1. n \in Tree(active_layer)
      BY <1>1, <1>3, <1>4, <2>2 DEF Tree
    <3> QED BY <3>1, <1>2 DEF LastTwoKept
  <2>3. CASE n \in Pending
    <3>1. PICK t \in Threads : pc[t] = "mark" /\ n \in ChainSet(old[t])
      BY <2>3 DEF Pending
    <3>2. active_layer >= 2 /\ ChainSet(old[t]) \subseteq Tree(active_layer - 1)
      BY <3>1 DEF LayerInv, CallsOK, CallOK
    <3> QED BY <3>1, <3>2, <1>2 DEF LastTwoKept
  <2> QED BY <2>1, <2>2, <2>3
<1>6. ASSUME NEW c \in ChildrenOf(n) PROVE c \in DOMAIN node'
  <2>1. PICK b \in Branch : node[n].children[b] = c /\ c # Null
    BY <1>1, <1>3, NodeFact
  <2>2. y \in roots
    BY <1>1
  <2>3. c \in Tree(y)
    BY <1>5, <2>1, <2>2, TreeEdge
  <2> QED BY <2>3, <1>2 DEF KeepsSealed
<1> QED BY <1>1, <1>6

LEMMA MetadataRaise ==
    ASSUME LayerInv, MetadataOK, NEW y \in 0 .. active_layer, raise_gc_lowerbound(y)
    PROVE  MetadataOK' \/ Emptied'
<1>1. PICK bound, G, D : Raised(y, bound, G, D)
  BY RaisedFact
<1>2. CASE active_layer \in G
  BY <1>1, <1>2, RaiseEmpties
<1>3. CASE active_layer \notin G
  <2>1. Freed(active_layer, G, D)
    BY <1>1, <1>3, RaiseFact
  <2>2. /\ DOMAIN node' = DOMAIN node \ D /\ active_layer' = active_layer
        /\ \A n \in DOMAIN node' : node'[n] = node[n]
    BY <2>1 DEF Freed
  <2>3. PICK S : S = DOMAIN metadata \ D
    OBVIOUS
  <2>4. metadata' = [n \in S |-> metadata[n]]
    BY <1>1, <2>3 DEF Raised
  <2>5. ASSUME NEW n \in S
        PROVE  /\ metadata'[n] = metadata[n] /\ n \in DOMAIN node'
               /\ node'[n].children = node[n].children /\ node'[n].value = node[n].value
               /\ ChildrenOf(n) \subseteq S
    <3>1. n \in DOMAIN metadata /\ n \in DOMAIN node /\ ChildrenOf(n) \subseteq DOMAIN metadata
      BY <2>3 DEF MetadataOK
    <3>2. n \in DOMAIN node'
      BY <3>1, <2>2, <2>3
    <3>3. ChildrenOf(n) \subseteq DOMAIN node'
      BY <3>2, <2>1, NodeInKept
    <3> QED BY <3>1, <3>2, <3>3, <2>2, <2>3, <2>4
  <2>6. active_layer \in Nat
    BY LayerNumbers DEF LayerInv, BoundsOK
  <2>7. DOMAIN metadata' = S /\ S \subseteq DOMAIN metadata
    BY <2>3, <2>4
  <2>8. active_layer' \in Nat /\ active_layer <= active_layer'
    BY <2>2, <2>6
  <2> QED BY <2>5, <2>7, <2>8, MetadataFrame
<1> QED BY <1>2, <1>3

\* compute_hash gives every node it visits the digest that its children's yield.
LEMMA MetadataHash ==
    ASSUME LayerInv, MetadataOK, NEW y \in roots, compute_hash(y)
    PROVE  MetadataOK'
<1>1. PICK f : /\ \A m \in DOMAIN node : f[m] = MetadataFrom(m, f)
               /\ metadata' = [m \in DOMAIN metadata \cup Reach(Root(y)) |-> f[m]]
  BY MetadataFact
<1>2. PICK S : S = DOMAIN metadata \cup Tree(y)
  OBVIOUS
<1>3. metadata' = [m \in S |-> f[m]]
  BY <1>1, <1>2, ReachTree
<1>4. /\ y < active_layer /\ node' = node /\ active_layer' = active_layer /\ NodesOK
      /\ y \in Nat /\ active_layer \in Nat
  BY LayerNumbers DEF compute_hash, LayerInv, BoundsOK
<1>5. S \subseteq DOMAIN node
  BY <1>2 DEF MetadataOK, Tree
<1>6. ASSUME NEW n \in S, NEW b \in Branch, ~is_leaf(n), node[n].children[b] # Null
      PROVE  /\ node[n].children[b] \in S
             /\ n \in DOMAIN metadata => node[n].children[b] \in DOMAIN metadata
  <2>1. CASE n \in DOMAIN metadata
    BY <1>2, <1>6, <2>1 DEF MetadataOK, ChildrenOf
  <2>2. CASE n \notin DOMAIN metadata
    <3>1. n \in Tree(y)
      BY <1>2, <2>2
    <3> QED BY <3>1, <2>2, <1>2, <1>6, TreeEdge
  <2> QED BY <2>1, <2>2
<1>7. ASSUME NEW n \in S PROVE f[n] = HashFrom(n, f)
  <2>1. f[n] = MetadataFrom(n, f)
    BY <1>1, <1>5
  <2>2. CASE n \in DOMAIN metadata
    <3>1. f[n] = HashFrom(n, metadata)
      BY <2>1, <2>2 DEF MetadataFrom, MetadataOK
    <3>2. CASE is_leaf(n)
      BY <3>1, <3>2 DEF HashFrom
    <3>3. CASE ~is_leaf(n)
      <4>1. ASSUME NEW b \in Branch, node[n].children[b] # Null
            PROVE  metadata[node[n].children[b]] = f[node[n].children[b]]
        <5>1. PICK c : c = node[n].children[b]
          OBVIOUS
        <5>2. c \in DOMAIN metadata /\ c \in DOMAIN node
          BY <1>5, <1>6, <2>2, <3>3, <4>1, <5>1
        <5>3. f[c] = metadata[c]
          BY <5>2, <1>1 DEF MetadataFrom
        <5> QED BY <5>1, <5>3
      <4>2. HashFrom(n, metadata) = HashFrom(n, f)
        BY <4>1, HashSame
      <4> QED BY <3>1, <4>2
    <3> QED BY <3>2, <3>3
  <2>3. CASE n \notin DOMAIN metadata
    BY <2>1, <2>3 DEF MetadataFrom
  <2> QED BY <2>2, <2>3
<1>8. ASSUME NEW n \in S
      PROVE  /\ n \in DOMAIN node' /\ n.layer < active_layer'
             /\ ChildrenOf(n)' \subseteq S
             /\ metadata'[n] = HashFrom(n, metadata)'
  <2>1. n \in DOMAIN node' /\ ChildrenOf(n)' = ChildrenOf(n)
    BY <1>4, <1>5 DEF ChildrenOf
  <2>2. n.layer < active_layer
    <3>1. n \in DOMAIN metadata => n.layer < active_layer
      BY DEF MetadataOK
    <3>2. n \in Tree(y) => n.layer <= y
      BY DEF Tree
    <3>3. n.layer \in Nat
      BY <1>4, <1>5, NodeFact
    <3> QED BY <3>1, <3>2, <3>3, <1>2, <1>4
  <2>3. ChildrenOf(n) \subseteq S
    BY <1>6 DEF ChildrenOf
  <2>4. PICK d : d = metadata' /\ \A m \in S : d[m] = f[m]
    BY <1>3
  <2>5. HashFrom(n, metadata)' = HashFrom(n, d)
    BY <2>4, <1>4 DEF HashFrom, HashKids, is_active_leaf
  <2>6. HashFrom(n, f) = HashFrom(n, d)
    <3>1. CASE is_leaf(n)
      BY <3>1 DEF HashFrom
    <3>2. CASE ~is_leaf(n)
      <4>1. ASSUME NEW b \in Branch, node[n].children[b] # Null
            PROVE  f[node[n].children[b]] = d[node[n].children[b]]
        BY <1>6, <2>4, <3>2, <4>1
      <4> QED BY <4>1, HashSame
    <3> QED BY <3>1, <3>2
  <2>7. metadata'[n] = f[n]
    BY <1>3
  <2> QED BY <1>4, <1>7, <2>1, <2>2, <2>3, <2>5, <2>6, <2>7
<1>9. DOMAIN metadata' = S
  BY <1>3
<1> QED BY <1>8, <1>9 DEF MetadataOK

LEMMA MetadataStep ==
    ASSUME LayerInv, MetadataOK, Next
    PROVE  MetadataOK' \/ Emptied'
<1>0. active_layer \in Nat
  BY LayerNumbers DEF LayerInv, BoundsOK
<1>1. CASE bump_active_layer
  <2>1. Bumped(active_layer, Root(active_layer), Root(active_layer + 1))
    BY <1>1, BumpFact
  <2>2. metadata' = metadata
    BY <1>1 DEF bump_active_layer
  <2>3. KeepsOlder /\ active_layer' = active_layer + 1
    BY <2>1, <2>2 DEF Bumped, KeepsOlder
  <2> QED BY <1>0, <2>3, MetadataKept
<1>2. ASSUME NEW y \in {active_layer - d : d \in Back} \cap Nat, raise_gc_lowerbound(y)
      PROVE  MetadataOK' \/ Emptied'
  BY <1>2, RaiseRange, MetadataRaise
<1>3. ASSUME NEW y \in roots, compute_hash(y) PROVE MetadataOK'
  BY <1>3, MetadataHash
<1>4. ASSUME NEW t \in Threads, Call(t) \/ InsertStep(t) PROVE MetadataOK'
  BY <1>0, <1>4, ThreadKeeps, MetadataKept
<1> QED BY <1>1, <1>2, <1>3, <1>4 DEF Next

\* Each layer that exists is a trie in the nodes it shares with the others,
\* and holds what it held when it was sealed, or the values given so far; the
\* digests that hashing has left in nodes are right; or a caller has freed the
\* active layer, below layer 2, and nothing is left.
THEOREM LayerInductive == Spec => []LayeredInv
<1>1. Init => LayeredInv
  BY InitInv, LeafKeysInit DEF Init, MetadataOK, LayeredInv
<1>2. ASSUME LayeredInv, [Next]_vars PROVE LayeredInv'
  <2>1. CASE Emptied
    BY <2>1, <1>2, EmptiedStays DEF LayeredInv
  <2>2. CASE LayerInv /\ LeafKeys /\ MetadataOK /\ Next
    BY <2>2, NextInv, LeafKeysStep, MetadataStep DEF LayeredInv
  <2>3. CASE LayerInv /\ LeafKeys /\ MetadataOK /\ UNCHANGED vars
    <3>1. /\ UNCHANGED <<node, roots, active_layer, freeable_lowerbound, failed>>
          /\ UNCHANGED <<pc, arg, cur, exp, old, kv, sealed>> /\ metadata' = metadata
      BY <2>3 DEF vars, trie_vars, thread_vars, ghosts
    <3>2. LayerInv' /\ LeafKeys'
      BY <2>3, <3>1, SameInv, LeafKeysSame
    <3>3. KeepsOlder
      BY <3>1 DEF KeepsOlder
    <3>4. active_layer' \in Nat /\ active_layer <= active_layer'
      BY <2>3, <3>1, LayerNumbers DEF LayerInv, BoundsOK
    <3>5. MetadataOK'
      BY <2>3, <3>3, <3>4, MetadataKept
    <3> QED BY <3>2, <3>5 DEF LayeredInv
  <2> QED BY <1>2, <2>1, <2>2, <2>3 DEF LayeredInv
<1> QED BY <1>1, <1>2, PTL DEF Spec

-----------------------------------------------------------------------------
(* What follows *)

LEMMA HeldContent ==
    ASSUME LayerInv, NEW y \in roots, NEW m \in [Keys -> Value], Holds(y, m)
    PROVE  Content(y) = m
<1>1. Reach(Root(y)) = Tree(y)
  BY ReachTree
<1>2. ASSUME NEW k \in Keys, NEW S, S = {n \in Tree(y) : is_leaf(n) /\ n.pfx = k}
      PROVE  (IF S = {} THEN Inactive ELSE node[CHOOSE n \in S : TRUE].value) = m[k]
  <2>1. CASE S = {}
    BY <2>1, <1>2 DEF Holds
  <2>2. CASE S # {}
    <3>1. PICK n : n = CHOOSE x \in S : TRUE
      OBVIOUS
    <3>2. n \in S
      BY <2>2, <3>1
    <3>3. node[n].value = m[k]
      BY <3>2, <1>2 DEF Holds
    <3> QED BY <2>2, <3>1, <3>3
  <2> QED BY <2>1, <2>2
<1>3. Content(y) = [k \in Keys |-> m[k]]
  <2>1. ASSUME NEW k \in Keys
        PROVE  (LET S == {n \in Reach(Root(y)) : is_leaf(n) /\ n.pfx = k}
                IN  IF S = {} THEN Inactive ELSE node[CHOOSE n \in S : TRUE].value) = m[k]
    BY <1>1, <1>2
  <2> QED BY <2>1 DEF Content
<1> QED BY <1>3

\* A sealed layer keeps what it held when it was sealed, while later layers
\* copy, replace and share its nodes and earlier ones are freed.
THEOREM SealedForGood == Spec => []SealedUnchanged
<1>1. LayerInv => SealedUnchanged
  <2> SUFFICES ASSUME LayerInv, NEW y \in roots, y < active_layer
               PROVE  Content(y) = sealed[y]
    BY DEF SealedUnchanged
  <2>1. y \in Layers
    BY LayerNumbers DEF LayerInv, BoundsOK, Layers
  <2>2. Holds(y, sealed[y]) /\ sealed[y] \in [Keys -> Value]
    BY <2>1 DEF LayerInv, ContentsOK
  <2> QED BY <2>2, HeldContent
<1>2. LayeredInv => SealedUnchanged
  BY <1>1 DEF LayeredInv, Emptied, SealedUnchanged
<1> QED BY <1>2, LayerInductive, PTL

\* The active layer holds every value that was given to a key, whatever the
\* threads race for, replace, collapse or collect.
THEOREM NothingLost == Spec => []ActiveComplete
<1>1. LayerInv => ActiveComplete
  <2> SUFFICES ASSUME LayerInv, active_layer \in roots
               PROVE  Content(active_layer) = kv
    BY DEF ActiveComplete
  <2>1. Holds(active_layer, kv) /\ kv \in [Keys -> Value]
    BY DEF LayerInv, ContentsOK
  <2> QED BY <2>1, HeldContent
<1>2. LayeredInv => ActiveComplete
  BY <1>1 DEF LayeredInv, Emptied, ActiveComplete
<1> QED BY <1>2, LayerInductive, PTL

\* The only owner of a node with supersession s, all of whose like are in the
\* tree of layer y.
LEMMA SoleOwner ==
    ASSUME LayerInv, NEW y \in roots, NEW n \in Tree(y), NEW p \in Tree(y), n \in ChildrenOf(p),
           node[p].superseded_in_layer = node[n].superseded_in_layer,
           \A m \in DOMAIN node :
              node[m].superseded_in_layer = node[n].superseded_in_layer => m \in Tree(y)
    PROVE  Cardinality({m \in DOMAIN node : n \in ChildrenOf(m) /\ Owned(m, n)}) = 1
<1>1. NodesOK /\ Tree(y) \subseteq DOMAIN node /\ p \in DOMAIN node /\ n \in DOMAIN node
  BY DEF LayerInv, Tree
<1>2. PICK L, S : L = Tree(y) /\ S = {m \in DOMAIN node : n \in ChildrenOf(m) /\ Owned(m, n)}
  OBVIOUS
<1>3. /\ TrieShape(L, Pfxs, Lens, Kids, Null) /\ NodesTyped(L, Pfxs, Lens)
  BY <1>1, <1>2, TreeTyped DEF LayerInv, LayersOK
<1>4. p \in S
  <2>1. p.layer \in Nat /\ node[p].superseded_in_layer \in Nat /\ p.layer < node[p].superseded_in_layer
    BY <1>1, NodeFact DEF NodesOK
  <2> QED BY <2>1, <1>1, <1>2 DEF Owned
<1>5. ASSUME NEW q \in S PROVE q = p
  <2>1. q \in DOMAIN node /\ n \in ChildrenOf(q) /\ q \in L
    BY <1>2 DEF Owned
  <2>2. PICK e \in Branch : node[q].children[e] = n /\ n # Null
    BY <2>1, <1>1, NodeFact
  <2>3. PICK f \in Branch : node[p].children[f] = n
    BY <1>1, NodeFact
  <2>4. Kids[q][e] = n /\ Kids[p][f] = n /\ p \in L
    BY <2>1, <2>2, <2>3, <1>1, <1>2, NodeFact
  <2> QED BY <2>1, <2>2, <2>4, <1>3, ShapeOneParent
<1>6. S = {p}
  BY <1>4, <1>5
<1>7. Cardinality({p}) = 1
  BY FS_Singleton
<1> QED BY <1>2, <1>6, <1>7

LEMMA OwnersUnique ==
    ASSUME LayerInv, Quiet
    PROVE  \A n \in DOMAIN node :
              IF n.len = 0 THEN n.layer \in roots
              ELSE Cardinality({m \in DOMAIN node : n \in ChildrenOf(m) /\ Owned(m, n)}) = 1
<1> SUFFICES ASSUME NEW n \in DOMAIN node
             PROVE  IF n.len = 0 THEN n.layer \in roots
                    ELSE Cardinality({m \in DOMAIN node : n \in ChildrenOf(m) /\ Owned(m, n)}) = 1
  OBVIOUS
<1>1. Pending = {}
  BY DEF Quiet, Pending
<1>2. NodesOK /\ roots \subseteq Layers /\ active_layer \in roots /\ active_layer \in Nat
      /\ active_layer < Never /\ Never \in Nat
  BY LayerNumbers DEF LayerInv, BoundsOK, LastTwoStay, RecentKept, Layers
<1>3. \A m \in DOMAIN node : /\ m.layer \in Nat /\ node[m].superseded_in_layer \in Nat
                             /\ m.layer < node[m].superseded_in_layer /\ m.layer <= active_layer
                             /\ \/ node[m].superseded_in_layer = Never
                                \/ /\ node[m].superseded_in_layer <= active_layer
                                   /\ node[m].superseded_in_layer - 1 \in roots
  BY <1>2, NodeFact DEF NodesOK
<1>4. CASE n.len = 0
  <2>1. PICK y \in roots : n \in Tree(y)
    BY NodeInLayer
  <2>2. n = Root(y)
    BY <2>1, <1>4, OneRoot
  <2> QED BY <2>1, <2>2, <1>2, <1>4, RootFact
<1>5. CASE n.len # 0 /\ node[n].superseded_in_layer = Never
  <2>1. \A m \in DOMAIN node : node[m].superseded_in_layer = Never <=> m \in Tree(active_layer)
    <3> SUFFICES ASSUME NEW m \in DOMAIN node
                 PROVE  node[m].superseded_in_layer = Never <=> m \in Tree(active_layer)
      OBVIOUS
    <3>1. m \in Tree(active_layer) <=> active_layer < node[m].superseded_in_layer
      BY <1>1, <1>3 DEF Tree
    <3> QED BY <3>1, <1>2, <1>3
  <2>2. PICK p \in Tree(active_layer) : n \in ChildrenOf(p)
    BY <2>1, <1>2, <1>5, TreeParent
  <2>3. p \in DOMAIN node /\ node[p].superseded_in_layer = Never
    BY <2>1 DEF Tree
  <2>4. Cardinality({m \in DOMAIN node : n \in ChildrenOf(m) /\ Owned(m, n)}) = 1
    BY <2>1, <2>2, <2>3, <1>2, <1>5, SoleOwner
  <2> QED BY <2>4, <1>5
<1>6. CASE n.len # 0 /\ node[n].superseded_in_layer # Never
  <2>1. PICK y : y = node[n].superseded_in_layer - 1
    OBVIOUS
  <2>2. y \in roots /\ y < active_layer /\ node[n].superseded_in_layer = y + 1 /\ y \in Nat
    BY <2>1, <1>2, <1>3, <1>6, LayerNumbers
  <2>3. \A m \in DOMAIN node : node[m].superseded_in_layer = y + 1 => m \in Tree(y)
    BY <2>2, <1>1, <1>2, <1>3 DEF Tree
  <2>4. PICK p \in Tree(y) : n \in ChildrenOf(p) /\ node[p].superseded_in_layer = y + 1
    BY <2>2, <1>1, <1>6, OwnerFact
  <2>5. Cardinality({m \in DOMAIN node : n \in ChildrenOf(m) /\ Owned(m, n)}) = 1
    BY <2>2, <2>3, <2>4, SoleOwner
  <2> QED BY <2>5, <1>6
<1> QED BY <1>4, <1>5, <1>6

\* No layer and no thread reaches freed memory, between calls every node has
\* exactly one node whose destructor frees it, from layer 2 on the active layer
\* and the one below it stay, and active_children is exact, for callers that
\* raise the bound to any layer up to the active one at any time.
THEOREM MemoryManaged == Spec => []MemorySafe
<1>1. ASSUME LayerInv PROVE TypeOK
  <2>1. NodesOK /\ BoundsOK /\ CallsOK /\ ContentsOK
    BY <1>1 DEF LayerInv
  <2>2. /\ roots \subseteq Layers /\ active_layer \in Layers /\ freeable_lowerbound \in Layers
        /\ failed \in BOOLEAN
    BY <2>1, LayerNumbers DEF BoundsOK, Layers
  <2>3. /\ pc \in [Threads -> {"idle", "at", "try", "mark"}]
        /\ \A t \in Threads : arg[t].layer \in Layers \cup {NoLayer}
        /\ kv \in [Keys -> Value]
    BY <2>1 DEF CallsOK, ContentsOK
  <2>4. ASSUME NEW n \in DOMAIN node
        PROVE  /\ node[n].active_children \in 0 .. Cardinality(Branch)
               /\ node[n].value \in Value
               /\ node[n].superseded_in_layer \in 1 .. MaxLayer \cup {Never}
    <3>1. node[n] \in NodeBody /\ node[n].active_children = Cardinality(ChildrenOf(n))
      BY <2>1 DEF NodesOK
    <3>2. Cardinality(ChildrenOf(n)) \in 0 .. Cardinality(Branch)
      BY <2>1, ChildrenFinite
    <3> QED BY <3>1, <3>2 DEF NodeBody
  <2> QED BY <2>2, <2>3, <2>4 DEF TypeOK
<1>2. ASSUME LayerInv PROVE NoUseAfterFree
  <2>1. \A y \in roots : Root(y) \in DOMAIN node
    BY <1>2 DEF LayerInv, LayersOK, Tree
  <2>2. ASSUME NEW t \in Threads, NEW n \in {cur[t], exp[t], old[t]} \ {Null}
        PROVE  n \in DOMAIN node
    <3>1. CallsOK
      BY <1>2 DEF LayerInv
    <3>2. pc[t] # "idle"
      BY <2>2, <3>1 DEF CallsOK
    <3>3. CallOK(t) /\ (old[t] # Null => pc[t] = "mark")
      BY <3>1, <3>2 DEF CallsOK
    <3>4. CASE n = cur[t]
      BY <3>3, <3>4 DEF CallOK
    <3>5. CASE n = exp[t]
      BY <2>2, <3>3, <3>5 DEF CallOK, Recent
    <3>6. CASE n = old[t]
      BY <2>2, <3>3, <3>6 DEF CallOK, Tree
    <3> QED BY <2>2, <3>4, <3>5, <3>6
  <2>3. \A n \in DOMAIN node : Reach(n) \subseteq DOMAIN node
    BY <1>2, ReachIn
  <2> QED BY <2>1, <2>2, <2>3 DEF NoUseAfterFree
<1>3. ASSUME LayerInv PROVE OneOwner /\ LastTwoStay /\ CountsExact
  <2>1. OneOwner
    BY <1>3, OwnersUnique DEF OneOwner
  <2> QED BY <2>1, <1>3 DEF LayerInv, BoundsOK, NodesOK, CountsExact
<1>4. LayerInv => MemorySafe
  BY <1>1, <1>2, <1>3 DEF MemorySafe
<1>5. Emptied => MemorySafe
  <2> SUFFICES ASSUME Emptied PROVE MemorySafe
    OBVIOUS
  <2>1. /\ pc \in [Threads -> {"idle", "at", "try", "mark"}]
        /\ \A t \in Threads : arg[t].layer \in Layers \cup {NoLayer}
    BY DEF Emptied, NoArg
  <2>2. TypeOK
    BY <2>1 DEF TypeOK, Emptied
  <2>3. NoUseAfterFree
    BY DEF Emptied, NoUseAfterFree
  <2>4. OneOwner /\ CountsExact
    BY DEF Emptied, OneOwner, CountsExact
  <2>5. LastTwoStay
    BY LayerNumbers DEF Emptied, LastTwoStay
  <2> QED BY <2>2, <2>3, <2>4, <2>5 DEF MemorySafe
<1>6. LayeredInv => MemorySafe
  BY <1>4, <1>5 DEF LayeredInv
<1> QED BY <1>6, LayerInductive, PTL

\* Freeing layers never reads a freed node and never finds a child that was
\* superseded before its parent, for which the destructor terminates the
\* process, to whatever layer up to the active one the bound is raised.
THEOREM FreeingSucceeds ==
    Spec => [][\A y \in 0 .. active_layer : raise_gc_lowerbound(y) => ~failed']_vars
<1> DEFINE A == \A y \in 0 .. active_layer : raise_gc_lowerbound(y) => ~failed'
<1>1. ASSUME Emptied, NEW y, raise_gc_lowerbound(y) PROVE ~failed'
  <2>1. PICK G, D : /\ G \subseteq roots /\ D = UNION {Destroyed(Root(x)) : x \in G}
                    /\ failed' = DestructorFails(D)
    BY <1>1 DEF raise_gc_lowerbound
  <2>2. D = {}
    BY <2>1, <1>1 DEF Emptied
  <2> QED BY <2>1, <2>2 DEF DestructorFails
<1>2. LayeredInv => A
  BY <1>1, RaiseNext DEF LayeredInv
<1> HIDE DEF A
<1>3. Spec => [][A]_vars
  BY <1>2, LayerInductive, PTL DEF Spec
<1> QED BY <1>3 DEF A

-----------------------------------------------------------------------------
(* The hash of a layer *)

\* What compute_hash makes of the digests of the children is a summary.
LEMMA HashSummary ==
    ASSUME LayerInv, NEW m \in DOMAIN node, ~is_leaf(m), NEW f
    PROVE  Summary(m.pfx, m.len, ChildHashes(Kids, Null, f, NoHash, m), NoHash, HashFrom(m, f))
<1>1. PICK of : of = ChildHashes(Kids, Null, f, NoHash, m)
  OBVIOUS
<1>2. of = [b \in Branch |-> IF node[m].children[b] = Null THEN NoHash
                             ELSE f[node[m].children[b]]]
  <2>1. Kids[m] = node[m].children
    BY NodeFact DEF LayerInv
  <2> QED BY <1>1, <2>1 DEF ChildHashes
<1>3. PICK found : found = {b \in Branch : of[b] # NoHash}
  OBVIOUS
<1>4. HashFrom(m, f) = IF found = {} THEN NoHash
                       ELSE IF Cardinality(found) = 1 THEN of[CHOOSE b \in found : TRUE]
                       ELSE [pfx |-> m.pfx, len |-> m.len, body |-> of]
  <2>1. HashFrom(m, f) = HashKids(m, of)
    BY <1>2 DEF HashFrom
  <2> QED BY <2>1, <1>3 DEF HashKids, Header
<1>5. IsFiniteSet(found)
  BY <1>3, FiniteAssumption, FS_Subset
<1>6. ASSUME \A b \in Branch : of[b] = NoHash PROVE HashFrom(m, f) = NoHash
  BY <1>3, <1>4, <1>6
<1>7. ASSUME NEW b \in Branch, of[b] # NoHash, \A e \in Branch \ {b} : of[e] = NoHash
      PROVE  HashFrom(m, f) = of[b]
  <2>1. found = {b}
    BY <1>3, <1>7
  <2>2. Cardinality(found) = 1 /\ (CHOOSE e \in found : TRUE) = b
    BY <2>1, FS_Singleton
  <2> QED BY <1>4, <2>1, <2>2
<1>8. ASSUME NEW b \in Branch, NEW e \in Branch, b # e, of[b] # NoHash, of[e] # NoHash
      PROVE  HashFrom(m, f) = [pfx |-> m.pfx, len |-> m.len, body |-> of]
  <2>1. b \in found /\ e \in found
    BY <1>3, <1>8
  <2>2. Cardinality(found) # 1
    BY <1>5, <1>8, <2>1, FS_Singleton
  <2> QED BY <1>4, <2>1, <2>2
<1> QED BY <1>1, <1>6, <1>7, <1>8 DEF Summary

\* LayerDigest is the digest of the compressed trie of all active keys.
LEMMA LayerDigestFact ==
    ASSUME NEW m, DOMAIN m \subseteq Key, Distinct(NoHash)
    PROVE  LayerDigest(m) = Digests(m, Inactive, NoHash)[Active(m, Inactive)]
<1>1. PICK A, D, z : A = Active(m, Inactive) /\ D = Digests(m, Inactive, NoHash)
                     /\ z = [i \in 1 .. KeyLen |-> 0]
  OBVIOUS
<1>2. PICK of, B : of = [b \in Branch |-> D[Towards(A, 0, b)]] /\ B = {b \in Branch : of[b] # NoHash}
  OBVIOUS
<1>3. LayerDigest(m) = IF B = {} THEN NoHash
                       ELSE IF Cardinality(B) = 1 THEN of[CHOOSE b \in B : TRUE]
                       ELSE [pfx |-> z, len |-> 0, body |-> of]
  <2>1. PICK E : E = CanonicalDigest(m, Inactive, NoHash)
    OBVIOUS
  <2>2. E = [pfx |-> z, len |-> 0, body |-> of]
    BY <1>1, <1>2, <2>1 DEF CanonicalDigest
  <2>3. E.body = of
    BY <2>2
  <2> QED BY <1>2, <2>1, <2>2, <2>3 DEF LayerDigest
<1>4. z \in Key /\ 0 \in PrefixLen /\ 0 < KeyLen /\ z = Truncate(z, 0)
  BY <1>1, KeyLenAssumption, BranchAssumption DEF Key, PrefixLen, Truncate
<1>5. A = KeysUnder(A, z, 0)
  BY KeyLenAssumption DEF KeysUnder, IsPrefixOf
<1>6. IsFiniteSet(B)
  BY <1>2, FiniteAssumption, FS_Subset
<1>7. Summary(z, 0, of, NoHash, LayerDigest(m))
  <2>1. ASSUME \A b \in Branch : of[b] = NoHash PROVE LayerDigest(m) = NoHash
    BY <1>2, <1>3, <2>1
  <2>2. ASSUME NEW b \in Branch, of[b] # NoHash, \A e \in Branch \ {b} : of[e] = NoHash
        PROVE  LayerDigest(m) = of[b]
    <3>1. B = {b}
      BY <1>2, <2>2
    <3>2. Cardinality(B) = 1 /\ (CHOOSE e \in B : TRUE) = b
      BY <3>1, FS_Singleton
    <3> QED BY <1>3, <3>1, <3>2
  <2>3. ASSUME NEW b \in Branch, NEW e \in Branch, b # e, of[b] # NoHash, of[e] # NoHash
        PROVE  LayerDigest(m) = [pfx |-> z, len |-> 0, body |-> of]
    <3>1. b \in B /\ e \in B
      BY <1>2, <2>3
    <3>2. Cardinality(B) # 1
      BY <1>6, <2>3, <3>1, FS_Singleton
    <3> QED BY <1>3, <3>1, <3>2
  <2> QED BY <2>1, <2>2, <2>3 DEF Summary
<1>8. of = [b \in Branch |-> Digests(m, Inactive, NoHash)[Towards(A, 0, b)]]
  BY <1>1, <1>2
<1>9. A = KeysUnder(Active(m, Inactive), z, 0)
  BY <1>1, <1>5
<1>10. LayerDigest(m) = Digests(m, Inactive, NoHash)[A]
  BY <1>4, <1>7, <1>8, <1>9, SummaryDigest
<1> QED BY <1>1, <1>10

\* The hash that compute_hash leaves in the root of a sealed layer depends only
\* on the values its keys had when it was sealed: not on the order of
\* insertions, on chains or inactive leaves left behind, on what later layers
\* share, copy, replace and free, or on which layers were hashed before and
\* left their digests in shared nodes.
THEOREM SealedHash ==
    ASSUME Distinct(NoHash)
    PROVE  Spec => []HashCanonical
<1>1. ASSUME LayerInv, LeafKeys, MetadataOK PROVE HashCanonical
  <2> SUFFICES ASSUME NEW y \in roots, y < active_layer, Root(y) \in DOMAIN metadata
               PROVE  metadata[Root(y)] = LayerDigest(sealed[y])
    BY DEF HashCanonical
  <2>1. PICK m : m = sealed[y]
    OBVIOUS
  <2>2. y \in Layers
    BY <1>1, LayerNumbers DEF LayerInv, BoundsOK, Layers
  <2>3. Holds(y, m) /\ m \in [Keys -> Value] /\ DOMAIN m = Keys /\ DOMAIN m \subseteq Key
    BY <1>1, <2>1, <2>2, KeysAssumption DEF LayerInv, ContentsOK
  <2>4. PICK L, A : L = Tree(y) /\ A = Active(m, Inactive)
    OBVIOUS
  <2>5. /\ NodesOK /\ Root(y) \in L /\ L \subseteq DOMAIN node
        /\ TrieShape(L, Pfxs, Lens, Kids, Null)
    BY <1>1, <2>4 DEF LayerInv, LayersOK, Tree
  <2>6. NodesTyped(L, Pfxs, Lens)
    BY <2>5, TreeTyped
  <2>7. \A x \in L : Pfxs[x] = x.pfx /\ Lens[x] = x.len /\ x.pfx = Truncate(x.pfx, x.len)
    BY <2>5, NodeFact DEF NodesOK
  <2>8. HasLeaves(L, Pfxs, Lens, A)
    <3>1. ASSUME NEW k \in A PROVE \E x \in L : Pfxs[x] = k /\ Lens[x] = KeyLen
      <4>1. k \in Keys /\ m[k] # Inactive
        BY <2>3, <2>4 DEF Active
      <4>2. PICK x \in L : is_leaf(x) /\ x.pfx = k
        BY <2>3, <2>4, <4>1 DEF Holds
      <4> QED BY <4>2, <2>7 DEF is_leaf
    <3> QED BY <3>1 DEF HasLeaves
  <2>9. PICK f : f = metadata /\ \A x \in L : x \in DOMAIN f /\ f[x] = HashFrom(x, f)
    <3>1. Reach(Root(y)) = L
      BY <1>1, <2>4, ReachTree
    <3>2. \A x \in DOMAIN metadata \cap DOMAIN ChildMap : ChildMap[x] \subseteq DOMAIN metadata
      BY <1>1 DEF MetadataOK, ChildMap
    <3>3. L \subseteq DOMAIN metadata
      BY <3>1, <3>2, ClosureIn DEF Reach
    <3> QED BY <3>3, <1>1 DEF MetadataOK
  <2>10. ASSUME NEW x \in L
         PROVE  NodeHash(Pfxs, Lens, Kids, Null, m, Inactive, NoHash, f, x)
    <3>1. x \in DOMAIN node /\ f[x] = HashFrom(x, f) /\ Pfxs[x] = x.pfx /\ Lens[x] = x.len
      BY <2>5, <2>7, <2>9
    <3>2. CASE is_leaf(x)
      <4>1. x.len = KeyLen /\ x.pfx \in Keys /\ node[x].value = m[x.pfx]
        BY <1>1, <2>3, <2>4, <3>1, <3>2 DEF is_leaf, LeafKeys, Holds
      <4>2. is_active_leaf(x) <=> x.pfx \in Active(m, Inactive)
        BY <2>3, <3>2, <4>1 DEF is_active_leaf, Active
      <4>3. HashFrom(x, f) = IF is_active_leaf(x)
                             THEN [pfx |-> x.pfx, len |-> x.len, body |-> <<node[x].value>>]
                             ELSE NoHash
        BY <3>2 DEF HashFrom, Header
      <4> QED BY <3>1, <4>1, <4>2, <4>3 DEF NodeHash
    <3>3. CASE ~is_leaf(x)
      <4>1. Summary(x.pfx, x.len, ChildHashes(Kids, Null, f, NoHash, x), NoHash, f[x])
        BY <1>1, <3>1, <3>3, HashSummary
      <4> QED BY <3>1, <3>3, <4>1 DEF NodeHash, is_leaf
    <3> QED BY <3>2, <3>3
  <2>11. \A x \in L, b \in Branch : Kids[x][b] # Null => Kids[x][b] \in L
    BY <2>5 DEF TrieShape, ShapeEdges
  <2>12. \A x \in L : Pfxs[x] = Truncate(Pfxs[x], Lens[x])
    BY <2>7
  <2>13. f[Root(y)] = Digests(m, Inactive, NoHash)[KeysUnder(A, Pfxs[Root(y)], Lens[Root(y)])]
    BY <2>3, <2>4, <2>5, <2>6, <2>8, <2>10, <2>11, <2>12, ShapeDigest
  <2>14. KeysUnder(A, Pfxs[Root(y)], Lens[Root(y)]) = A
    <3>1. Lens[Root(y)] = 0
      BY <2>2, <2>5, <2>7, RootFact
    <3> QED BY <3>1, KeyLenAssumption DEF KeysUnder, IsPrefixOf
  <2>15. LayerDigest(m) = Digests(m, Inactive, NoHash)[A]
    BY <2>3, <2>4, LayerDigestFact
  <2> QED BY <2>1, <2>5, <2>9, <2>13, <2>14, <2>15
<1>2. LayeredInv => HashCanonical
  BY <1>1 DEF LayeredInv, Emptied, HashCanonical
<1> QED BY <1>2, LayerInductive, PTL

\* The sealed layers whose hash was computed.
HashedLayers == {y \in roots : y < active_layer /\ Root(y) \in DOMAIN metadata}

\* The hash of a sealed layer commits to its contents: of two sealed layers
\* that were hashed, in whatever order, the hashes are the same exactly when
\* they hold the same keys and values.
THEOREM LayerHashCommits ==
    ASSUME Distinct(NoHash)
    PROVE  Spec => [](\A y, z \in HashedLayers :
                        metadata[Root(y)] = metadata[Root(z)] <=> Content(y) = Content(z))
<1>1. ASSUME LayerInv, HashCanonical, SealedUnchanged, NEW y \in HashedLayers, NEW z \in HashedLayers
      PROVE  metadata[Root(y)] = metadata[Root(z)] <=> Content(y) = Content(z)
  <2>0. /\ y \in roots /\ z \in roots /\ y < active_layer /\ z < active_layer
        /\ Root(y) \in DOMAIN metadata /\ Root(z) \in DOMAIN metadata
    BY DEF HashedLayers
  <2>1. PICK m, w : m = sealed[y] /\ w = sealed[z]
    OBVIOUS
  <2>2. y \in Layers /\ z \in Layers
    BY <1>1, <2>0, LayerNumbers DEF LayerInv, BoundsOK, Layers
  <2>3. /\ m \in [Keys -> Value] /\ DOMAIN m = Keys /\ DOMAIN m \subseteq Key
        /\ w \in [Keys -> Value] /\ DOMAIN w = Keys /\ DOMAIN w \subseteq Key
    BY <1>1, <2>1, <2>2, KeysAssumption DEF LayerInv, ContentsOK
  <2>4. metadata[Root(y)] = LayerDigest(m) /\ metadata[Root(z)] = LayerDigest(w)
    BY <1>1, <2>0, <2>1 DEF HashCanonical
  <2>5. Content(y) = m /\ Content(z) = w
    BY <1>1, <2>0, <2>1 DEF SealedUnchanged
  <2>6. ASSUME LayerDigest(m) = LayerDigest(w) PROVE m = w
    <3>1. PICK A, B : A = Active(m, Inactive) /\ B = Active(w, Inactive)
      OBVIOUS
    <3>2. Digests(m, Inactive, NoHash)[A] = Digests(w, Inactive, NoHash)[B]
      BY <2>3, <2>6, <3>1, LayerDigestFact
    <3>3. A = B /\ \A k \in A : m[k] = w[k]
      BY <2>3, <3>1, <3>2, DigestSame
    <3>4. \A k \in Keys : m[k] = w[k]
      BY <2>3, <3>1, <3>3 DEF Active
    <3> QED BY <2>3, <3>4
  <2> QED BY <2>4, <2>5, <2>6
<1>2. LayeredInv /\ HashCanonical /\ SealedUnchanged =>
        \A y, z \in HashedLayers :
            metadata[Root(y)] = metadata[Root(z)] <=> Content(y) = Content(z)
  <2>1. Emptied => HashedLayers = {}
    BY DEF Emptied, HashedLayers
  <2> QED BY <1>1, <2>1 DEF LayeredInv
<1> QED BY <1>2, LayerInductive, SealedHash, SealedForGood, PTL
=============================================================================
