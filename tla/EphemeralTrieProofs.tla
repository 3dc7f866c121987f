------------------------ MODULE EphemeralTrieProofs -------------------------
(***************************************************************************)
(* Proofs about the ephemeral trie, for every number of threads, keys and  *)
(* handles, every branching and every key length: its shape, that no       *)
(* update of a size is lost or made twice, what its hash is worth, that it *)
(* implements the map, and that its proofs say what it holds.              *)
(***************************************************************************)
EXTENDS EphemeralProof, TriePrefixTheorems, FiniteSetTheorems

-----------------------------------------------------------------------------
(* Nodes, words and the shape of the tree *)

\* The handles in the slots of the nodes that have slots.
Children ==
    [n \in Addr |-> [b \in Branch |-> IF IsLeaf(n) THEN NULL ELSE word[n][b].ptr]]

LEMMA TreeIsShape ==
    TypeOK => (TreeOK <=> TrieShape(live, pfx, len, Children, NULL))
<1> SUFFICES ASSUME TypeOK
             PROVE  TreeOK <=> TrieShape(live, pfx, len, Children, NULL)
  OBVIOUS
<1>1. \A n \in live : n \in Addr /\ len[n] \in PrefixLen /\ pfx[n] \in Key
  BY DEF TypeOK
<1>2. \A n \in live, b \in Branch :
        Children[n][b] = IF IsLeaf(n) THEN NULL ELSE word[n][b].ptr
  BY <1>1 DEF Children
<1> HIDE DEF Children
<1>3. EdgesDescend <=> ShapeEdges(live, pfx, len, Children, NULL)
  BY <1>2 DEF EdgesDescend, ShapeEdges, Above
<1>4. ASSUME NEW n \in live, NEW x \in live, len[n] < len[x]
      PROVE  Children[n][BranchBits(pfx[x], len[n])] = At(n, pfx[x]).ptr
  <2>1. len[n] < KeyLen /\ ~IsLeaf(n)
    BY <1>1, <1>4, KeyLenAssumption DEF PrefixLen, IsLeaf
  <2>2. BranchBits(pfx[x], len[n]) \in Branch
    BY <2>1, <1>1, BranchBitsType
  <2> QED BY <2>1, <2>2, <1>2 DEF At, Slot
<1>5. PathsComplete <=> ShapePaths(live, pfx, len, Children, NULL)
  BY <1>4 DEF PathsComplete, ShapePaths, Above
<1>6. NoDuplicates <=> ShapeUnique(live, pfx, len)
  BY DEF NoDuplicates, ShapeUnique, Above
<1> QED BY <1>3, <1>5, <1>6 DEF TreeOK, TrieShape

LEMMA TreeIsShapeThen ==
    TypeOK' => (TreeOK' <=> TrieShape(live, pfx, len, Children, NULL)')
BY TreeIsShape, PTL

LEMMA CoversPrefix ==
    ASSUME TypeOK, NEW c \in Addr, NEW k \in Key
    PROVE  Covers(c, k) <=> IsPrefixOf(pfx[c], len[c], k, KeyLen)
<1>1. KeyLen \in PrefixLen
  BY KeyLenAssumption DEF PrefixLen
<1> QED BY <1>1, CoversFact DEF TypeOK, Covers

\* The word in the slot of a node towards a key.
LEMMA WordFacts ==
    ASSUME TypeOK, TreeOK, NEW n \in live, ~IsLeaf(n), NEW k \in Key
    PROVE  /\ n \in Addr /\ len[n] \in PrefixLen /\ len[n] < KeyLen
           /\ Slot(n, k) \in Branch
           /\ At(n, k) \in [ptr : Pointer, sz : Nat]
           /\ At(n, k).ptr \in Pointer /\ At(n, k).sz \in Nat
           /\ At(n, k).ptr # NULL =>
                /\ At(n, k).ptr \in live
                /\ At(n, k).ptr \in Addr
                /\ len[n] < len[At(n, k).ptr]
<1>0. n \in Addr /\ len[n] \in PrefixLen
  BY DEF TypeOK
<1>1. n \in Addr /\ len[n] \in PrefixLen /\ len[n] < KeyLen
  BY <1>0, KeyLenAssumption DEF IsLeaf, PrefixLen
<1>2. Slot(n, k) \in Branch
  BY <1>1, BranchBitsType DEF Slot
<1>3. At(n, k) \in [ptr : Pointer, sz : Nat]
  BY <1>1, <1>2 DEF TypeOK, At
<1>4. At(n, k).ptr \in Pointer /\ At(n, k).sz \in Nat
  BY <1>3
<1>5. ASSUME At(n, k).ptr # NULL
      PROVE  /\ At(n, k).ptr \in live
             /\ At(n, k).ptr \in Addr
             /\ len[n] < len[At(n, k).ptr]
  BY <1>1, <1>2, <1>5 DEF TypeOK, TreeOK, EdgesDescend, At
<1> QED BY <1>1, <1>2, <1>3, <1>4, <1>5

LEMMA MallocFree ==
    ASSUME TypeOK, NEW p \in Key, NEW l \in PrefixLen, Free # {}
    PROVE  /\ Malloc(Free, p, l) \in Free
           /\ Malloc(Free, p, l) \in Addr
           /\ Malloc(Free, p, l) \notin live
           /\ Malloc(Free, p, l) # NULL
<1>1. Free \in SUBSET Addr
  BY DEF Free
<1>2. Malloc(Free, p, l) \in Free
  BY <1>1, MallocAssumption
<1> QED BY <1>2, AddrAssumption DEF Free

LEMMA ZeroKeyType == ZeroKey \in Key /\ 0 \in PrefixLen /\ KeyLen \in PrefixLen
BY KeyLenAssumption, BranchAssumption DEF ZeroKey, Key, PrefixLen

LEMMA EmptyWordType ==
    /\ EmptyWord \in [ptr : Pointer, sz : Nat]
    /\ EmptyWord.ptr = NULL /\ EmptyWord.sz = 0
    /\ NoChildren \in [Branch -> [ptr : Pointer, sz : Nat]]
    /\ \A b \in Branch : NoChildren[b].ptr = NULL /\ NoChildren[b].sz = 0
BY DEF EmptyWord, Word, Pointer, NoChildren

-----------------------------------------------------------------------------
(* What a step does to the other threads and to the other nodes *)

\* What ShapeInv says of one thread, and of the children of one node.
ThreadOK(t) ==
    /\ pc[t] # "idle" =>
          /\ cur[t] \in live
          /\ IsPrefixOf(pfx[cur[t]], len[cur[t]], key[t], KeyLen)
    /\ pc[t] = "ins_cas" =>
          /\ ~IsLeaf(cur[t])
          /\ exp[t].ptr # NULL =>
                /\ exp[t].ptr \in live
                /\ len[cur[t]] < len[exp[t].ptr]
                /\ ~Covers(exp[t].ptr, key[t])
    /\ pc[t] = "bump_cas" => exp[t].ptr \in live /\ ~IsLeaf(cur[t])
    /\ Inserting(t) => arg[t] \in Value
    /\ Bumping(t) => \E n \in Leaves : pfx[n] = key[t]

\* The thread is at node n, and the slot towards its key is empty.
Filling(t, n) == Inserting(t) /\ cur[t] = n /\ Slot(n, key[t]) \notin Kids(n)

BranchOK(n) ==
    ~IsLeaf(n) /\ n # Root =>
        \E b \in Kids(n) :
            (\E d \in Kids(n) : d # b) \/ (\E t \in Threads : Filling(t, n))

LEMMA ThreadParts ==
    PointersStable /\ CallsCarry <=> \A t \in Threads : ThreadOK(t)
BY DEF PointersStable, CallsCarry, ThreadOK

LEMMA BranchParts == BranchesPending <=> \A n \in live : BranchOK(n)
BY DEF BranchesPending, BranchOK, Filling

LEMMA ShapeParts ==
    ShapeInv <=> /\ TypeOK /\ TreeOK /\ RootStays
                 /\ \A t \in Threads : ThreadOK(t)
                 /\ \A n \in live : BranchOK(n)
BY ThreadParts, BranchParts DEF ShapeInv

LEMMA ShapePartsThen ==
    ShapeInv' <=> /\ TypeOK' /\ TreeOK' /\ RootStays'
                  /\ \A t \in Threads : ThreadOK(t)'
                  /\ \A n \in live' : BranchOK(n)'
<1>1. (ShapeInv <=> /\ TypeOK /\ TreeOK /\ RootStays
                    /\ \A t \in Threads : ThreadOK(t)
                    /\ \A n \in live : BranchOK(n))'
  BY ShapeParts, PTL
<1> QED BY <1>1

\* The variables of a thread stay as they are.
SameLocals(u) ==
    /\ pc'[u] = pc[u] /\ key'[u] = key[u] /\ arg'[u] = arg[u]
    /\ cur'[u] = cur[u] /\ exp'[u] = exp[u]

\* Prefix and length of the nodes of the tree stay as they are.
NodesStay ==
    /\ live \subseteq live'
    /\ \A n \in live : pfx'[n] = pfx[n] /\ len'[n] = len[n]

LEMMA ThreadFrame ==
    ASSUME NEW u \in Threads, ThreadOK(u), SameLocals(u), NodesStay
    PROVE  ThreadOK(u)'
<1>1. Inserting(u)' = Inserting(u) /\ Bumping(u)' = Bumping(u)
  BY DEF SameLocals, Inserting, Bumping
<1>2. ASSUME pc[u] # "idle"
      PROVE  /\ cur[u] \in live'
             /\ pfx'[cur[u]] = pfx[cur[u]] /\ len'[cur[u]] = len[cur[u]]
             /\ IsPrefixOf(pfx[cur[u]], len[cur[u]], key[u], KeyLen)
  BY <1>2 DEF ThreadOK, NodesStay
<1>3. ASSUME pc[u] = "ins_cas"
      PROVE  /\ ~IsLeaf(cur[u])'
             /\ exp'[u].ptr # NULL =>
                  /\ exp'[u].ptr \in live'
                  /\ len'[cur'[u]] < len'[exp'[u].ptr]
                  /\ ~Covers(exp[u].ptr, key[u])'
  <2>1. pc[u] # "idle" /\ ~IsLeaf(cur[u])
    BY <1>3 DEF ThreadOK
  <2>2. ASSUME exp[u].ptr # NULL
        PROVE  /\ exp[u].ptr \in live
               /\ len[cur[u]] < len[exp[u].ptr]
               /\ ~Covers(exp[u].ptr, key[u])
    BY <1>3, <2>2 DEF ThreadOK
  <2> QED BY <1>2, <2>1, <2>2 DEF SameLocals, NodesStay, IsLeaf, Covers
<1>4. ASSUME pc[u] = "bump_cas"
      PROVE  exp'[u].ptr \in live' /\ ~IsLeaf(cur[u])'
  <2>1. pc[u] # "idle" /\ ~IsLeaf(cur[u]) /\ exp[u].ptr \in live
    BY <1>4 DEF ThreadOK
  <2> QED BY <1>2, <2>1 DEF SameLocals, NodesStay, IsLeaf
<1>5. ASSUME Bumping(u)
      PROVE  \E n \in Leaves' : pfx'[n] = key'[u]
  <2>1. PICK n \in Leaves : pfx[n] = key[u]
    BY <1>5 DEF ThreadOK
  <2> QED BY <2>1 DEF Leaves, IsLeaf, NodesStay, SameLocals
<1> QED BY <1>1, <1>2, <1>3, <1>4, <1>5 DEF ThreadOK, SameLocals

\* The children a node has stay, and a thread at it stays or fills its slot.
LEMMA BranchFrame ==
    ASSUME NEW n \in live, BranchOK(n), NodesStay, Kids(n) \subseteq Kids(n)',
           \A u \in Threads : Filling(u, n) =>
                \/ Slot(n, key[u]) \in Kids(n)'
                \/ Inserting(u)' /\ cur'[u] = n /\ key'[u] = key[u]
    PROVE  BranchOK(n)'
<1> SUFFICES ASSUME ~IsLeaf(n)', n # Root
             PROVE  \E b \in Kids(n)' : \/ \E d \in Kids(n)' : d # b
                                        \/ \E u \in Threads : Filling(u, n)'
  BY DEF BranchOK
<1>1. ~IsLeaf(n)
  BY DEF IsLeaf, NodesStay
<1>2. PICK b \in Kids(n) : \/ \E d \in Kids(n) : d # b
                           \/ \E u \in Threads : Filling(u, n)
  BY <1>1 DEF BranchOK
<1>3. CASE \E d \in Kids(n) : d # b
  BY <1>3
<1>4. ASSUME NEW u \in Threads, Filling(u, n)
      PROVE  \E e \in Kids(n)' : \/ \E d \in Kids(n)' : d # e
                                 \/ \E v \in Threads : Filling(v, n)'
  <2>1. Slot(n, key[u]) # b
    BY <1>4 DEF Filling
  <2>2. CASE Slot(n, key[u]) \in Kids(n)'
    BY <2>1, <2>2
  <2>3. CASE /\ Slot(n, key[u]) \notin Kids(n)'
             /\ Inserting(u)' /\ cur'[u] = n /\ key'[u] = key[u]
    <3>1. Slot(n, key[u])' = Slot(n, key[u])
      BY <2>3 DEF Slot, NodesStay
    <3>2. Filling(u, n)'
      BY <2>3, <3>1 DEF Filling
    <3> QED BY <3>2
  <2> QED BY <1>4, <2>2, <2>3
<1> QED BY <1>2, <1>3, <1>4

\* A step of one thread that leaves the nodes and the handles alone.
LEMMA QuietStep ==
    ASSUME ShapeInv, NEW t \in Threads, TypeOK',
           UNCHANGED <<live, pfx, len, phase>>, Children' = Children,
           \A n \in live : Kids(n)' = Kids(n),
           \A u \in Threads \ {t} : SameLocals(u),
           phase = "batch", ThreadOK(t)',
           \A n \in live : ~IsLeaf(n) /\ Filling(t, n) =>
               Inserting(t)' /\ cur'[t] = n /\ key'[t] = key[t]
    PROVE  ShapeInv'
<1>0. /\ TypeOK /\ TreeOK /\ RootStays
      /\ \A u \in Threads : ThreadOK(u)
      /\ \A n \in live : BranchOK(n)
  BY ShapeParts
<1>1. NodesStay
  BY DEF NodesStay
<1>2. TreeOK'
  <2>1. TrieShape(live, pfx, len, Children, NULL)
    BY <1>0, TreeIsShape
  <2>2. TrieShape(live', pfx', len', Children', NULL)
    BY <2>1
  <2> QED BY <2>2, TreeIsShapeThen
<1>3. \A u \in Threads : ThreadOK(u)'
  BY <1>0, <1>1, ThreadFrame
<1>4. \A n \in live : BranchOK(n)'
  <2> SUFFICES ASSUME NEW n \in live, ~IsLeaf(n) PROVE BranchOK(n)'
    BY DEF BranchOK, IsLeaf
  <2>1. ASSUME NEW u \in Threads, Filling(u, n)
        PROVE  Inserting(u)' /\ cur'[u] = n /\ key'[u] = key[u]
    <3>1. CASE u = t
      BY <2>1, <3>1
    <3>2. CASE u # t
      BY <2>1, <3>2 DEF SameLocals, Filling, Inserting
    <3> QED BY <3>1, <3>2
  <2> QED BY <2>1, <1>0, <1>1, BranchFrame
<1>5. RootStays'
  BY <1>0 DEF RootStays
<1> QED BY <1>0, <1>2, <1>3, <1>4, <1>5, ShapePartsThen

-----------------------------------------------------------------------------
(* Steps that change no handle *)

LEMMA SameTree ==
    ASSUME UNCHANGED <<len, word>>
    PROVE  Children' = Children /\ \A n : Kids(n)' = Kids(n)
BY DEF Children, IsLeaf, Kids

LEMMA Busy ==
    ASSUME ShapeInv, NEW t \in Threads, pc[t] # "idle"
    PROVE  /\ phase = "batch" /\ TypeOK /\ TreeOK /\ ThreadOK(t)
           /\ cur[t] \in live /\ cur[t] \in Addr /\ key[t] \in Key
           /\ IsPrefixOf(pfx[cur[t]], len[cur[t]], key[t], KeyLen)
<1>1. TypeOK /\ TreeOK /\ RootStays /\ ThreadOK(t)
  BY ShapeParts
<1>2. phase = "batch"
  BY <1>1 DEF TypeOK, RootStays, AllIdle
<1> QED BY <1>1, <1>2 DEF TypeOK, ThreadOK

\* A call returns.
LEMMA ReturnStep ==
    ASSUME ShapeInv, NEW t \in Threads, pc[t] # "idle",
           Inserting(t) => IsLeaf(cur[t]), Return(t),
           UNCHANGED <<live, pfx, len, word, phase, hashed>>,
           val' \in [Addr -> Value \cup {NoValue}],
           \A n \in Leaves : val'[n] \in Value,
           res' \in [Threads -> Value \cup {NoValue}]
    PROVE  ShapeInv'
<1>1. phase = "batch" /\ TypeOK
  BY Busy
<1>2. Leaves' = Leaves
  BY DEF Leaves, IsLeaf
<1>3. TypeOK'
  BY <1>1, <1>2, ZeroKeyType, EmptyWordType DEF TypeOK, Return, Pointer
<1>4. pc'[t] = "idle" /\ \A u \in Threads \ {t} : SameLocals(u)
  BY <1>1 DEF Return, TypeOK, SameLocals
<1>5. ThreadOK(t)'
  BY <1>4 DEF ThreadOK, Inserting, Bumping
<1>6. \A n \in live : ~(~IsLeaf(n) /\ Filling(t, n))
  BY DEF Filling
<1> QED BY <1>1, <1>3, <1>4, <1>5, <1>6, SameTree, QuietStep

LEMMA InsertValueShape ==
    ASSUME ShapeInv, NEW t \in Threads, InsertValue(t)
    PROVE  ShapeInv'
<1>1. pc[t] # "idle" /\ pc[t] = "ins" /\ IsLeaf(cur[t]) /\ Return(t)
  BY DEF InsertValue
<1>2. /\ TypeOK /\ cur[t] \in live /\ cur[t] \in Addr /\ ThreadOK(t)
  BY <1>1, Busy
<1>3. val[cur[t]] \in Value /\ arg[t] \in Value
  BY <1>1, <1>2 DEF TypeOK, Leaves, ThreadOK, Inserting
<1>4. Merge(val[cur[t]], arg[t]) \in Value
  BY <1>3, ValueAssumption
<1>5. val' = [val EXCEPT ![cur[t]] = Merge(val[cur[t]], arg[t])]
  BY DEF InsertValue
<1>6. val' \in [Addr -> Value \cup {NoValue}] /\ \A n \in Leaves : val'[n] \in Value
  BY <1>2, <1>4, <1>5 DEF TypeOK, Leaves
<1>7. /\ UNCHANGED <<live, pfx, len, word, phase, hashed>>
      /\ res' \in [Threads -> Value \cup {NoValue}]
  BY <1>2 DEF InsertValue, hashes, TypeOK
<1> QED BY <1>1, <1>6, <1>7, ReturnStep

LEMMA BumpReturnShape ==
    ASSUME ShapeInv, NEW t \in Threads, BumpReturn(t)
    PROVE  ShapeInv'
<1>1. pc[t] # "idle" /\ ~Inserting(t) /\ Return(t) /\ TypeOK
  BY Busy DEF BumpReturn, Inserting
<1>2. /\ UNCHANGED <<live, pfx, len, word, phase, hashed>>
      /\ val' \in [Addr -> Value \cup {NoValue}]
      /\ \A n \in Leaves : val'[n] \in Value
      /\ res' \in [Threads -> Value \cup {NoValue}]
  BY <1>1 DEF BumpReturn, tree, hashes, TypeOK
<1> QED BY <1>1, <1>2, ReturnStep

LEMMA GetLeafShape ==
    ASSUME ShapeInv, NEW t \in Threads, GetLeaf(t)
    PROVE  ShapeInv'
<1>1. /\ pc[t] # "idle" /\ ~Inserting(t) /\ Return(t) /\ TypeOK
      /\ cur[t] \in Addr
  BY Busy DEF GetLeaf, Inserting
<1>2. /\ UNCHANGED <<live, pfx, len, word, phase, hashed>>
      /\ val' \in [Addr -> Value \cup {NoValue}]
      /\ \A n \in Leaves : val'[n] \in Value
  BY <1>1 DEF GetLeaf, tree, hashes, TypeOK
<1>3. res' \in [Threads -> Value \cup {NoValue}]
  BY <1>1 DEF GetLeaf, TypeOK
<1> QED BY <1>1, <1>2, <1>3, ReturnStep

LEMMA GetLoadShape ==
    ASSUME ShapeInv, NEW t \in Threads, GetLoad(t)
    PROVE  ShapeInv'
<1> DEFINE c == At(cur[t], key[t]).ptr
<1>1. /\ pc[t] = "get" /\ pc[t] # "idle" /\ ~Inserting(t) /\ ~Bumping(t)
      /\ ~IsLeaf(cur[t])
      /\ UNCHANGED <<tree, hashes, res>>
  BY DEF GetLoad, Inserting, Bumping
<1>2. /\ TypeOK /\ TreeOK /\ ThreadOK(t) /\ phase = "batch"
      /\ cur[t] \in live /\ key[t] \in Key
  BY <1>1, Busy
<1>3. CASE c # NULL /\ Covers(c, key[t])
  <2>1. /\ cur' = [cur EXCEPT ![t] = c]
        /\ UNCHANGED <<pc, key, arg, given, exp>>
    BY <1>3 DEF GetLoad
  <2>2. c \in live /\ c \in Addr
    BY <1>1, <1>2, <1>3, WordFacts
  <2>3. IsPrefixOf(pfx[c], len[c], key[t], KeyLen)
    BY <1>2, <1>3, <2>2, CoversPrefix
  <2> HIDE DEF c
  <2>4. TypeOK'
    BY <1>1, <1>2, <2>1, <2>2 DEF TypeOK, tree, hashes, Pointer, Leaves, IsLeaf
  <2>5. \A u \in Threads \ {t} : SameLocals(u)
    BY <1>2, <2>1 DEF TypeOK, SameLocals
  <2>6. ThreadOK(t)'
    BY <1>1, <1>2, <2>1, <2>2, <2>3
       DEF ThreadOK, TypeOK, tree, Inserting, Bumping
  <2>7. \A n \in live : ~Filling(t, n)
    BY <1>1 DEF Filling
  <2> QED BY <1>1, <1>2, <2>4, <2>5, <2>6, <2>7, SameTree, QuietStep
          DEF tree, hashes
<1>4. CASE ~(c # NULL /\ Covers(c, key[t]))
  <2>1. Return(t)
    BY <1>4 DEF GetLoad
  <2>2. /\ UNCHANGED <<live, pfx, len, word, phase, hashed>>
        /\ val' \in [Addr -> Value \cup {NoValue}]
        /\ \A n \in Leaves : val'[n] \in Value
        /\ res' \in [Threads -> Value \cup {NoValue}]
    BY <1>1, <1>2 DEF tree, hashes, TypeOK
  <2> QED BY <1>1, <2>1, <2>2, ReturnStep
<1> QED BY <1>3, <1>4

\* A call starts at the root.
LEMMA CallStep ==
    ASSUME ShapeInv, NEW t \in Threads, NEW op \in {"ins", "get"}, NEW k \in Key,
           Call(t, op, k), UNCHANGED <<tree, hashes, exp>>,
           arg' \in [Threads -> Value \cup {NoValue}],
           given' \in [Threads -> Value \cup {NoValue}],
           res' \in [Threads -> Value \cup {NoValue}],
           \A u \in Threads \ {t} : arg'[u] = arg[u],
           op = "ins" => arg'[t] \in Value
    PROVE  ShapeInv'
<1>1. TypeOK /\ RootStays /\ phase = "batch" /\ pc[t] = "idle"
  BY ShapeParts DEF Call
<1>2. Root \in live /\ Root \in Addr /\ len[Root] = 0
  BY <1>1, AddrAssumption DEF RootStays
<1>3. TypeOK'
  BY <1>1, <1>2 DEF TypeOK, Call, tree, hashes, Pointer, Leaves, IsLeaf
<1>4. /\ \A u \in Threads \ {t} : SameLocals(u)
      /\ pc'[t] = op /\ key'[t] = k /\ cur'[t] = Root
  BY <1>1 DEF TypeOK, SameLocals, Call
<1>5. IsPrefixOf(pfx[Root], len[Root], k, KeyLen)
  BY <1>2, KeyLenAssumption DEF IsPrefixOf
<1>6. ThreadOK(t)'
  BY <1>2, <1>4, <1>5 DEF ThreadOK, Inserting, Bumping, tree
<1>7. \A n \in live : ~Filling(t, n)
  BY <1>1 DEF Filling, Inserting
<1> QED BY <1>1, <1>3, <1>4, <1>6, <1>7, SameTree, QuietStep DEF tree, hashes

LEMMA StartShape ==
    ASSUME ShapeInv, NEW t \in Threads, Start(t)
    PROVE  ShapeInv'
<1>0. TypeOK
  BY DEF ShapeInv
<1>1. ASSUME NEW p \in Inserts, StartInsert(t, p[1], p[2])
      PROVE  ShapeInv'
  <2>1. p[1] \in Key /\ p[2] \in Value
    BY ValueAssumption, KeysAssumption
  <2>2. /\ arg' \in [Threads -> Value \cup {NoValue}]
        /\ given' \in [Threads -> Value \cup {NoValue}]
        /\ res' \in [Threads -> Value \cup {NoValue}]
        /\ \A u \in Threads \ {t} : arg'[u] = arg[u]
        /\ arg'[t] \in Value
    BY <1>0, <1>1, <2>1 DEF StartInsert, TypeOK
  <2> QED BY <1>1, <2>1, <2>2, CallStep DEF StartInsert
<1>2. ASSUME NEW k \in Keys, StartGet(t, k)
      PROVE  ShapeInv'
  <2>1. k \in Key
    BY KeysAssumption
  <2>2. /\ arg' \in [Threads -> Value \cup {NoValue}]
        /\ given' \in [Threads -> Value \cup {NoValue}]
        /\ res' \in [Threads -> Value \cup {NoValue}]
        /\ \A u \in Threads \ {t} : arg'[u] = arg[u]
    BY <1>0, <1>2 DEF StartGet, TypeOK
  <2> QED BY <1>2, <2>1, <2>2, CallStep DEF StartGet
<1> QED BY <1>1, <1>2 DEF Start

\* insert has read the word in the slot towards its key.
LEMMA ObserveStep ==
    ASSUME ShapeInv, NEW t \in Threads, Inserting(t), ~IsLeaf(cur[t]),
           Observe(t, At(cur[t], key[t])),
           UNCHANGED <<tree, hashes, key, given, res>>,
           arg' \in [Threads -> Value \cup {NoValue}],
           \A u \in Threads \ {t} : arg'[u] = arg[u], arg'[t] \in Value
    PROVE  ShapeInv'
<1> DEFINE w == At(cur[t], key[t])
<1>1. pc[t] # "idle"
  BY DEF Inserting
<1>2. /\ TypeOK /\ TreeOK /\ ThreadOK(t) /\ phase = "batch"
      /\ cur[t] \in live /\ cur[t] \in Addr /\ key[t] \in Key
      /\ IsPrefixOf(pfx[cur[t]], len[cur[t]], key[t], KeyLen)
  BY <1>1, Busy
<1>3. /\ w \in [ptr : Pointer, sz : Nat]
      /\ w.ptr # NULL => /\ w.ptr \in live /\ w.ptr \in Addr
                         /\ len[cur[t]] < len[w.ptr]
  BY <1>2, WordFacts
<1>4. CASE w.ptr # NULL /\ Covers(w.ptr, key[t])
  <2>1. /\ pc'  = [pc EXCEPT ![t] = "ins"]
        /\ cur' = [cur EXCEPT ![t] = w.ptr]
        /\ exp' = [exp EXCEPT ![t] = EmptyWord]
    BY <1>4 DEF Observe
  <2>2. IsPrefixOf(pfx[w.ptr], len[w.ptr], key[t], KeyLen)
    BY <1>2, <1>3, <1>4, CoversPrefix
  <2>3. \A n \in live : ~Filling(t, n)
    <3> SUFFICES ASSUME NEW n \in live, Filling(t, n) PROVE FALSE
      OBVIOUS
    <3>1. n = cur[t] /\ Slot(n, key[t]) \notin Kids(n)
      BY DEF Filling
    <3>2. Slot(n, key[t]) \in Branch
      BY <1>2, <3>1, WordFacts
    <3> QED BY <3>1, <3>2, <1>4 DEF Kids, At
  <2> HIDE DEF w
  <2>4. TypeOK'
    BY <1>2, <1>3, <1>4, <2>1, EmptyWordType
       DEF TypeOK, tree, hashes, Pointer, Leaves, IsLeaf
  <2>5. /\ \A u \in Threads \ {t} : SameLocals(u)
        /\ pc'[t] = "ins" /\ cur'[t] = w.ptr
    BY <1>2, <2>1 DEF TypeOK, SameLocals
  <2>6. ThreadOK(t)'
    BY <1>3, <1>4, <2>2, <2>5 DEF ThreadOK, tree, Inserting, Bumping
  <2> QED BY <1>2, <2>3, <2>4, <2>5, <2>6, SameTree, QuietStep DEF tree, hashes
<1>5. CASE ~(w.ptr # NULL /\ Covers(w.ptr, key[t]))
  <2>1. /\ pc'  = [pc EXCEPT ![t] = "ins_cas"]
        /\ exp' = [exp EXCEPT ![t] = w]
        /\ cur' = cur
    BY <1>5 DEF Observe
  <2> HIDE DEF w
  <2>4. TypeOK'
    BY <1>2, <1>3, <2>1 DEF TypeOK, tree, hashes, Leaves, IsLeaf
  <2>5. /\ \A u \in Threads \ {t} : SameLocals(u)
        /\ pc'[t] = "ins_cas" /\ cur'[t] = cur[t] /\ exp'[t] = w
    BY <1>2, <2>1 DEF TypeOK, SameLocals
  <2>6. ThreadOK(t)'
    <3>1. w.ptr # NULL => ~Covers(w.ptr, key[t])
      BY <1>5
    <3> QED BY <1>2, <1>3, <3>1, <2>5
            DEF ThreadOK, tree, Inserting, Bumping, IsLeaf, Covers
  <2>7. \A n \in live : Filling(t, n) =>
            Inserting(t)' /\ cur'[t] = n /\ key'[t] = key[t]
    BY <2>5 DEF Filling, Inserting
  <2> QED BY <1>2, <2>4, <2>5, <2>6, <2>7, SameTree, QuietStep DEF tree, hashes
<1> QED BY <1>4, <1>5

LEMMA InsertLoadShape ==
    ASSUME ShapeInv, NEW t \in Threads, InsertLoad(t)
    PROVE  ShapeInv'
<1>1. Inserting(t) /\ pc[t] # "idle"
  BY DEF InsertLoad, Inserting
<1>2. TypeOK /\ ThreadOK(t)
  BY <1>1, Busy
<1>3. arg' = arg /\ arg \in [Threads -> Value \cup {NoValue}] /\ arg[t] \in Value
  BY <1>1, <1>2 DEF InsertLoad, TypeOK, ThreadOK
<1> QED BY <1>1, <1>3, ObserveStep DEF InsertLoad

LEMMA InsertRetryShape ==
    ASSUME ShapeInv, NEW t \in Threads, InsertRetry(t)
    PROVE  ShapeInv'
<1>1. Inserting(t) /\ pc[t] # "idle" /\ pc[t] = "ins_cas"
  BY DEF InsertRetry, Inserting
<1>2. TypeOK /\ ThreadOK(t)
  BY <1>1, Busy
<1>3. arg[t] \in Value /\ MovedFrom(arg[t]) \in Value /\ ~IsLeaf(cur[t])
  BY <1>1, <1>2, ValueAssumption DEF ThreadOK
<1>4. /\ arg' \in [Threads -> Value \cup {NoValue}] /\ arg'[t] \in Value
      /\ \A u \in Threads \ {t} : arg'[u] = arg[u]
  BY <1>2, <1>3 DEF InsertRetry, TypeOK
<1> QED BY <1>1, <1>3, <1>4, ObserveStep DEF InsertRetry

-----------------------------------------------------------------------------
(* bump_size *)

\* While bump_size is on its way, there is a child ahead.
LEMMA ChildAhead ==
    ASSUME ShapeInv, NEW t \in Threads, Bumping(t), ~IsLeaf(cur[t])
    PROVE  LET c == At(cur[t], key[t]).ptr
           IN  c \in live /\ IsPrefixOf(pfx[c], len[c], key[t], KeyLen)
<1>1. pc[t] # "idle"
  BY DEF Bumping
<1>2. /\ TypeOK /\ TreeOK /\ ThreadOK(t) /\ cur[t] \in live /\ key[t] \in Key
      /\ IsPrefixOf(pfx[cur[t]], len[cur[t]], key[t], KeyLen)
  BY <1>1, Busy
<1>3. PICK x \in Leaves : pfx[x] = key[t]
  BY <1>2 DEF ThreadOK
<1>4. x \in live /\ len[x] = KeyLen /\ len[cur[t]] < KeyLen
  BY <1>2, <1>3, WordFacts DEF Leaves, IsLeaf
<1>5. At(cur[t], key[t]).ptr # NULL /\ Above(At(cur[t], key[t]).ptr, x)
  BY <1>2, <1>3, <1>4 DEF TreeOK, PathsComplete, Above
<1>6. At(cur[t], key[t]).ptr \in live
  BY <1>2, <1>5, WordFacts
<1> QED BY <1>3, <1>4, <1>5, <1>6 DEF Above

\* bump_size reads the word in the slot towards its key.
LEMMA BumpReadStep ==
    ASSUME ShapeInv, NEW t \in Threads, Bumping(t), ~IsLeaf(cur[t]),
           pc' = [pc EXCEPT ![t] = "bump_cas"],
           exp' = [exp EXCEPT ![t] = At(cur[t], key[t])],
           UNCHANGED <<tree, hashes, key, arg, given, cur, res>>
    PROVE  ShapeInv'
<1> DEFINE w == At(cur[t], key[t])
<1>1. pc[t] # "idle" /\ ~Inserting(t)
  BY DEF Bumping, Inserting
<1>2. /\ TypeOK /\ TreeOK /\ ThreadOK(t) /\ phase = "batch"
      /\ cur[t] \in live /\ key[t] \in Key
      /\ IsPrefixOf(pfx[cur[t]], len[cur[t]], key[t], KeyLen)
  BY <1>1, Busy
<1>3. w \in [ptr : Pointer, sz : Nat] /\ w.ptr \in live
  BY <1>2, WordFacts, ChildAhead
<1>4. exp' = [exp EXCEPT ![t] = w]
  OBVIOUS
<1> HIDE DEF w
<1>5. TypeOK'
  BY <1>2, <1>3, <1>4 DEF TypeOK, tree, hashes, Leaves, IsLeaf
<1>6. /\ \A u \in Threads \ {t} : SameLocals(u)
      /\ pc'[t] = "bump_cas" /\ cur'[t] = cur[t] /\ exp'[t] = w
  BY <1>2, <1>4 DEF TypeOK, SameLocals
<1>7. ThreadOK(t)'
  BY <1>2, <1>3, <1>6
     DEF ThreadOK, tree, Inserting, Bumping, IsLeaf, Leaves
<1>8. \A n \in live : ~Filling(t, n)
  BY <1>1 DEF Filling
<1> QED BY <1>2, <1>5, <1>6, <1>7, <1>8, SameTree, QuietStep DEF tree, hashes

LEMMA BumpLoadShape ==
    ASSUME ShapeInv, NEW t \in Threads, BumpLoad(t)
    PROVE  ShapeInv'
BY BumpReadStep DEF BumpLoad, Bumping

LEMMA BumpRetryShape ==
    ASSUME ShapeInv, NEW t \in Threads, BumpRetry(t)
    PROVE  ShapeInv'
<1>1. pc[t] = "bump_cas" /\ pc[t] # "idle" /\ Bumping(t)
  BY DEF BumpRetry, Bumping
<1>2. TypeOK /\ ThreadOK(t)
  BY <1>1, Busy
<1>3. ~IsLeaf(cur[t]) /\ pc' = [pc EXCEPT ![t] = "bump_cas"]
  BY <1>1, <1>2 DEF ThreadOK, TypeOK, BumpRetry
<1> QED BY <1>1, <1>3, BumpReadStep DEF BumpRetry

\* What BumpSet does to the words.
LEMMA BumpSetWord ==
    ASSUME ShapeInv, NEW t \in Threads, BumpSet(t)
    PROVE  /\ exp[t].ptr \in live /\ exp[t].ptr \in Addr
           /\ IsPrefixOf(pfx[exp[t].ptr], len[exp[t].ptr], key[t], KeyLen)
           /\ Slot(cur[t], key[t]) \in Branch
           /\ word' \in [Addr -> [Branch -> [ptr : Pointer, sz : Nat]]]
           /\ \A n \in Addr, b \in Branch :
                 /\ word'[n][b].ptr = word[n][b].ptr
                 /\ word'[n][b].sz = IF n = cur[t] /\ b = Slot(cur[t], key[t])
                                     THEN word[n][b].sz + 1 ELSE word[n][b].sz
<1> DEFINE s == Slot(cur[t], key[t])
           w == At(cur[t], key[t])
<1>1. pc[t] = "bump_cas" /\ pc[t] # "idle" /\ Bumping(t) /\ w = exp[t]
  BY DEF BumpSet, Bumping
<1>2. /\ TypeOK /\ TreeOK /\ ThreadOK(t) /\ cur[t] \in live /\ cur[t] \in Addr
      /\ key[t] \in Key
  BY <1>1, Busy
<1>3. ~IsLeaf(cur[t])
  BY <1>1, <1>2 DEF ThreadOK
<1>4. w \in [ptr : Pointer, sz : Nat] /\ w.ptr \in live /\ s \in Branch
      /\ IsPrefixOf(pfx[w.ptr], len[w.ptr], key[t], KeyLen)
  BY <1>1, <1>2, <1>3, WordFacts, ChildAhead
<1>5. w = word[cur[t]][s] /\ w.ptr \in Addr
  BY <1>2, <1>4 DEF At, TypeOK
<1>6. word' = [word EXCEPT ![cur[t]][s] = Word(w.ptr, w.sz + 1)]
  BY <1>1 DEF BumpSet
<1> HIDE DEF s, w
<1>7. Word(w.ptr, w.sz + 1) \in [ptr : Pointer, sz : Nat]
  BY <1>4, <1>5 DEF Word, Pointer
<1>8. word' \in [Addr -> [Branch -> [ptr : Pointer, sz : Nat]]]
  BY <1>2, <1>4, <1>6, <1>7 DEF TypeOK
<1>9. \A n \in Addr, b \in Branch :
        word'[n][b] = IF n = cur[t] /\ b = s THEN Word(w.ptr, w.sz + 1)
                      ELSE word[n][b]
  BY <1>2, <1>4, <1>6 DEF TypeOK
<1>10. \A n \in Addr, b \in Branch :
         /\ word'[n][b].ptr = word[n][b].ptr
         /\ word'[n][b].sz = IF n = cur[t] /\ b = s
                             THEN word[n][b].sz + 1 ELSE word[n][b].sz
  BY <1>5, <1>9 DEF Word
<1> QED BY <1>1, <1>4, <1>5, <1>8, <1>10 DEF s

LEMMA BumpSetShape ==
    ASSUME ShapeInv, NEW t \in Threads, BumpSet(t)
    PROVE  ShapeInv'
<1>1. pc[t] = "bump_cas" /\ pc[t] # "idle" /\ Bumping(t) /\ ~Inserting(t)
  BY DEF BumpSet, Bumping, Inserting
<1>2. /\ TypeOK /\ TreeOK /\ ThreadOK(t) /\ phase = "batch"
      /\ cur[t] \in live /\ cur[t] \in Addr /\ key[t] \in Key
  BY <1>1, Busy
<1>3. /\ exp[t].ptr \in live /\ exp[t].ptr \in Addr
      /\ IsPrefixOf(pfx[exp[t].ptr], len[exp[t].ptr], key[t], KeyLen)
      /\ word' \in [Addr -> [Branch -> [ptr : Pointer, sz : Nat]]]
      /\ \A n \in Addr, b \in Branch : word'[n][b].ptr = word[n][b].ptr
  BY BumpSetWord
<1>4. TypeOK'
  BY <1>2, <1>3, EmptyWordType
     DEF BumpSet, TypeOK, hashes, Leaves, IsLeaf, Pointer
<1>5. Children' = Children /\ \A n \in live : Kids(n)' = Kids(n)
  BY <1>2, <1>3 DEF Children, IsLeaf, Kids, BumpSet, TypeOK
<1>6. /\ \A u \in Threads \ {t} : SameLocals(u)
      /\ pc'[t] = "bump" /\ cur'[t] = exp[t].ptr
      /\ UNCHANGED <<live, pfx, len, phase, key, arg>>
  BY <1>2 DEF TypeOK, SameLocals, BumpSet, hashes
<1>7. ThreadOK(t)'
  <2>1. \E n \in Leaves : pfx[n] = key[t]
    BY <1>1, <1>2 DEF ThreadOK
  <2> QED BY <2>1, <1>3, <1>6 DEF ThreadOK, Inserting, Bumping, Leaves, IsLeaf
<1>8. \A n \in live : ~Filling(t, n)
  BY <1>1 DEF Filling
<1> QED BY <1>2, <1>4, <1>5, <1>6, <1>7, <1>8, QuietStep

-----------------------------------------------------------------------------
(* Steps that publish a node *)

\* What Publish does, for a handle that is free.
LEMMA PublishFacts ==
    ASSUME TypeOK, NEW n \in live, NEW b \in Branch,
           NEW w \in [ptr : Pointer, sz : Nat], w.ptr \in Free,
           NEW p \in Key, NEW l \in PrefixLen,
           NEW kids \in [Branch -> [ptr : Pointer, sz : Nat]],
           NEW v \in Value \cup {NoValue},
           Publish(n, b, w, p, l, kids, v)
    PROVE  /\ live' = live \cup {w.ptr} /\ live' \in SUBSET Addr
           /\ w.ptr \in Addr /\ w.ptr # NULL /\ w.ptr \notin live
           /\ pfx' \in [Addr -> Key] /\ len' \in [Addr -> PrefixLen]
           /\ word' \in [Addr -> [Branch -> [ptr : Pointer, sz : Nat]]]
           /\ val' \in [Addr -> Value \cup {NoValue}]
           /\ UNCHANGED <<phase, hashed>>
           /\ NodesStay
           /\ \A x \in live : val'[x] = val[x]
           /\ pfx'[w.ptr] = p /\ len'[w.ptr] = l
           /\ word'[w.ptr] = kids /\ val'[w.ptr] = v
           /\ \A x \in live, e \in Branch :
                 word'[x][e] = IF x = n /\ e = b THEN w ELSE word[x][e]
<1> DEFINE a == w.ptr
<1>0. /\ a \in Addr /\ a # NULL /\ a \notin live /\ n \in Addr /\ n # a
      /\ \A x \in live : x \in Addr /\ x # a
  BY AddrAssumption DEF TypeOK, Free
<1>1. /\ live' = live \cup {a}
      /\ pfx'  = [pfx EXCEPT ![a] = p]
      /\ len'  = [len EXCEPT ![a] = l]
      /\ word' = [word EXCEPT ![a] = kids, ![n][b] = w]
      /\ val'  = [val EXCEPT ![a] = v]
      /\ UNCHANGED <<phase, hashed>>
  BY DEF Publish
<1> HIDE DEF a
<1>2. /\ live' \in SUBSET Addr /\ pfx' \in [Addr -> Key]
      /\ len' \in [Addr -> PrefixLen] /\ val' \in [Addr -> Value \cup {NoValue}]
  BY <1>0, <1>1 DEF TypeOK
<1>3. /\ pfx'[a] = p /\ len'[a] = l /\ val'[a] = v
      /\ \A x \in live : pfx'[x] = pfx[x] /\ len'[x] = len[x] /\ val'[x] = val[x]
  BY <1>0, <1>1 DEF TypeOK
<1>4. word' \in [Addr -> [Branch -> [ptr : Pointer, sz : Nat]]]
  BY <1>0, <1>1 DEF TypeOK
<1>5. /\ word'[a] = kids
      /\ \A x \in live, e \in Branch :
            word'[x][e] = IF x = n /\ e = b THEN w ELSE word[x][e]
  BY <1>0, <1>1 DEF TypeOK
<1> QED BY <1>0, <1>1, <1>2, <1>3, <1>4, <1>5 DEF a, NodesStay

\* In terms of the shape of the tree.
LEMMA PublishAdded ==
    ASSUME TypeOK, NEW n \in live, ~IsLeaf(n), NEW b \in Branch, NEW w,
           NEW p, NEW l,
           live' = live \cup {w.ptr}, live' \in SUBSET Addr, NodesStay,
           pfx'[w.ptr] = p, len'[w.ptr] = l,
           \A x \in live, e \in Branch :
                 word'[x][e] = IF x = n /\ e = b THEN w ELSE word[x][e]
    PROVE  Added(live, pfx, len, Children, n, b, w.ptr, p, l,
                 live', pfx', len', Children')
<1>1. \A x \in live' : x \in Addr
  OBVIOUS
<1>2. \A x \in live, e \in Branch :
        /\ Children[x][e] = IF IsLeaf(x) THEN NULL ELSE word[x][e].ptr
        /\ Children'[x][e] = IF IsLeaf(x) THEN NULL ELSE word'[x][e].ptr
  BY <1>1 DEF Children, IsLeaf, NodesStay
<1>3. \A x \in live, e \in Branch :
        Children'[x][e] = IF x = n /\ e = b THEN w.ptr ELSE Children[x][e]
  BY <1>2
<1> HIDE DEF Children
<1> QED BY <1>3 DEF Added, NodesStay

\* The rest of the invariant when thread t fills the slot towards its key.
LEMMA PublishStep ==
    ASSUME ShapeInv, NEW t \in Threads, pc[t] = "ins_cas",
           TypeOK', TreeOK', NodesStay, phase' = phase, NEW w, w.ptr # NULL,
           live' = live \cup {w.ptr}, Slot(cur[t], key[t]) \in Branch,
           \A x \in live, e \in Branch :
                 word'[x][e] = IF x = cur[t] /\ e = Slot(cur[t], key[t])
                               THEN w ELSE word[x][e],
           \A u \in Threads \ {t} : SameLocals(u),
           ThreadOK(t)', BranchOK(w.ptr)'
    PROVE  ShapeInv'
<1>0. /\ TypeOK /\ TreeOK /\ RootStays
      /\ \A u \in Threads : ThreadOK(u)
      /\ \A x \in live : BranchOK(x)
  BY ShapeParts
<1>1. \A u \in Threads : ThreadOK(u)'
  BY <1>0, ThreadFrame
<1>2. phase = "batch" /\ Inserting(t)
  BY Busy DEF Inserting
<1>3. RootStays'
  BY <1>0, <1>2 DEF RootStays, NodesStay
<1>4. ASSUME NEW x \in live
      PROVE  BranchOK(x)'
  <2>1. Kids(x) \subseteq Kids(x)'
    BY DEF Kids
  <2>2. ASSUME NEW u \in Threads, Filling(u, x)
        PROVE  \/ Slot(x, key[u]) \in Kids(x)'
               \/ Inserting(u)' /\ cur'[u] = x /\ key'[u] = key[u]
    <3>1. CASE u = t
      BY <2>2, <3>1 DEF Filling, Kids
    <3>2. CASE u # t
      BY <2>2, <3>2 DEF Filling, SameLocals, Inserting
    <3> QED BY <3>1, <3>2
  <2> QED BY <2>1, <2>2, <1>0, BranchFrame
<1>5. \A x \in live' : BranchOK(x)'
  BY <1>4
<1> QED BY <1>1, <1>3, <1>5, ShapePartsThen

\* What InsertAttach does: a leaf a for the key, in an empty slot of cur[t].
LEMMA AttachFacts ==
    ASSUME ShapeInv, NEW t \in Threads, InsertAttach(t)
    PROVE  LET a == LeafAddr(key[t])
               n == cur[t]
               b == Slot(n, key[t])
           IN  /\ TypeOK /\ TreeOK /\ ThreadOK(t) /\ pc[t] = "ins_cas"
               /\ n \in live /\ ~IsLeaf(n) /\ len[n] < KeyLen
               /\ key[t] \in Key /\ arg[t] \in Value /\ b \in Branch
               /\ IsPrefixOf(pfx[n], len[n], key[t], KeyLen)
               /\ word[n][b].ptr = NULL /\ word[n][b] = exp[t]
               /\ a \in Addr /\ a # NULL /\ a \notin live
               /\ live' = live \cup {a} /\ live' \in SUBSET Addr
               /\ pfx' \in [Addr -> Key] /\ len' \in [Addr -> PrefixLen]
               /\ word' \in [Addr -> [Branch -> [ptr : Pointer, sz : Nat]]]
               /\ val' \in [Addr -> Value \cup {NoValue}]
               /\ UNCHANGED <<phase, hashed>>
               /\ NodesStay
               /\ \A x \in live : val'[x] = val[x]
               /\ pfx'[a] = key[t] /\ len'[a] = KeyLen
               /\ word'[a] = NoChildren /\ val'[a] = arg[t]
               /\ \A x \in live, e \in Branch :
                     word'[x][e] = IF x = n /\ e = b THEN Word(a, 0)
                                   ELSE word[x][e]
               /\ \A u \in Threads \ {t} : SameLocals(u)
               /\ pc'[t] = "bump" /\ cur'[t] = Root /\ key' = key /\ arg' = arg
<1> DEFINE a == LeafAddr(key[t])
           n == cur[t]
           b == Slot(n, key[t])
           w == Word(a, 0)
<1>1. pc[t] = "ins_cas" /\ pc[t] # "idle" /\ Inserting(t)
  BY DEF InsertAttach, Inserting
<1>2. /\ TypeOK /\ TreeOK /\ ThreadOK(t) /\ n \in live /\ key[t] \in Key
      /\ IsPrefixOf(pfx[n], len[n], key[t], KeyLen)
  BY <1>1, Busy
<1>3. ~IsLeaf(n) /\ arg[t] \in Value
  BY <1>1, <1>2 DEF ThreadOK
<1>4. b \in Branch /\ len[n] < KeyLen
  BY <1>2, <1>3, WordFacts
<1>5. a \in Free /\ a \in Addr /\ a # NULL /\ a \notin live
  BY <1>2, MallocFree, ZeroKeyType DEF InsertAttach, LeafAddr
<1>6. w \in [ptr : Pointer, sz : Nat] /\ w.ptr = a
  BY <1>5 DEF Word, Pointer
<1>7. /\ Publish(n, b, w, key[t], KeyLen, NoChildren, arg[t])
      /\ word[n][b] = exp[t] /\ exp[t].ptr = NULL
  BY DEF InsertAttach, PublishLeaf, At
<1>8. /\ \A u \in Threads \ {t} : SameLocals(u)
      /\ pc'[t] = "bump" /\ cur'[t] = Root /\ key' = key /\ arg' = arg
  BY <1>2 DEF InsertAttach, TypeOK, SameLocals
<1> HIDE DEF a, b, n, w
<1>9. /\ live' = live \cup {a} /\ live' \in SUBSET Addr
      /\ pfx' \in [Addr -> Key] /\ len' \in [Addr -> PrefixLen]
      /\ word' \in [Addr -> [Branch -> [ptr : Pointer, sz : Nat]]]
      /\ val' \in [Addr -> Value \cup {NoValue}]
      /\ UNCHANGED <<phase, hashed>>
      /\ NodesStay
      /\ \A x \in live : val'[x] = val[x]
      /\ pfx'[a] = key[t] /\ len'[a] = KeyLen
      /\ word'[a] = NoChildren /\ val'[a] = arg[t]
      /\ \A x \in live, e \in Branch :
            word'[x][e] = IF x = n /\ e = b THEN w ELSE word[x][e]
  BY <1>2, <1>3, <1>4, <1>5, <1>6, <1>7, PublishFacts, EmptyWordType, ZeroKeyType
<1>10. w = Word(a, 0)
  BY DEF w
<1> QED BY <1>1, <1>2, <1>3, <1>4, <1>5, <1>7, <1>8, <1>9, <1>10 DEF a, b, n

LEMMA InsertAttachShape ==
    ASSUME ShapeInv, NEW t \in Threads, InsertAttach(t)
    PROVE  ShapeInv'
<1>0. PICK a, n, b, w : /\ a = LeafAddr(key[t]) /\ n = cur[t]
                        /\ b = Slot(n, key[t]) /\ w = Word(a, 0)
  OBVIOUS
<1>1. /\ TypeOK /\ TreeOK /\ ThreadOK(t) /\ pc[t] = "ins_cas"
      /\ n \in live /\ ~IsLeaf(n) /\ len[n] < KeyLen
      /\ key[t] \in Key /\ arg[t] \in Value /\ b \in Branch
      /\ IsPrefixOf(pfx[n], len[n], key[t], KeyLen)
      /\ word[n][b].ptr = NULL /\ a \in Addr /\ a # NULL /\ a \notin live
  BY <1>0, AttachFacts
<1>2. /\ live' = live \cup {a} /\ live' \in SUBSET Addr
      /\ pfx' \in [Addr -> Key] /\ len' \in [Addr -> PrefixLen]
      /\ word' \in [Addr -> [Branch -> [ptr : Pointer, sz : Nat]]]
      /\ val' \in [Addr -> Value \cup {NoValue}]
      /\ UNCHANGED <<phase, hashed>>
      /\ NodesStay
      /\ \A x \in live : val'[x] = val[x]
      /\ pfx'[a] = key[t] /\ len'[a] = KeyLen
      /\ word'[a] = NoChildren /\ val'[a] = arg[t]
      /\ \A x \in live, e \in Branch :
            word'[x][e] = IF x = n /\ e = b THEN w ELSE word[x][e]
  BY <1>0, AttachFacts
<1>3. /\ \A u \in Threads \ {t} : SameLocals(u)
      /\ pc'[t] = "bump" /\ cur'[t] = Root /\ key' = key /\ arg' = arg
  BY <1>0, AttachFacts
<1>4. w.ptr = a
  BY <1>0 DEF Word
<1>5. n = cur[t] /\ b = Slot(cur[t], key[t]) /\ b = BranchBits(key[t], len[n])
  BY <1>0 DEF Slot
<1>6. TypeOK'
  <2>1. \A x \in Leaves' : val'[x] \in Value
    BY <1>1, <1>2 DEF TypeOK, Leaves, IsLeaf, NodesStay
  <2>2. /\ pc' \in [Threads -> {"idle", "ins", "ins_cas", "bump", "bump_cas", "get"}]
        /\ cur' \in [Threads -> Pointer] /\ UNCHANGED <<key, arg, given, exp, res>>
    BY <1>1, AddrAssumption DEF InsertAttach, TypeOK, Pointer
  <2> QED BY <1>1, <1>2, <2>1, <2>2 DEF TypeOK
<1>7. TreeOK'
  <2>1. Added(live, pfx, len, Children, n, b, a, key[t], KeyLen,
              live', pfx', len', Children')
    BY <1>1, <1>2, <1>4, PublishAdded
  <2>2. \A e \in Branch : Children'[a][e] = NULL
    BY <1>1, <1>2 DEF Children, IsLeaf
  <2>3. Children[n][b] = NULL
    BY <1>1 DEF Children, TypeOK
  <2>4. Attached(live, pfx, len, Children, NULL, n, key[t], KeyLen, a,
                 live', pfx', len', Children')
    BY <1>5, <2>1, <2>2, <2>3 DEF Attached
  <2>5. NodesTyped(live, pfx, len)
    BY <1>1 DEF TypeOK, NodesTyped
  <2>6. TrieShape(live, pfx, len, Children, NULL)
    BY <1>1, TreeIsShape
  <2>7. TrieShape(live', pfx', len', Children', NULL)
    BY <1>1, <2>4, <2>5, <2>6, ShapeAttach, ZeroKeyType
  <2> QED BY <1>6, <2>7, TreeIsShapeThen
<1>8. ThreadOK(t)'
  <2>1. Root \in live' /\ len'[Root] = 0
    BY <1>2 DEF ShapeInv, RootStays, NodesStay
  <2>2. IsPrefixOf(pfx'[Root], len'[Root], key[t], KeyLen)
    BY <2>1, KeyLenAssumption DEF IsPrefixOf
  <2>3. a \in Leaves' /\ pfx'[a] = key'[t]
    BY <1>2, <1>3 DEF Leaves, IsLeaf
  <2> QED BY <1>3, <2>1, <2>2, <2>3 DEF ThreadOK, Inserting, Bumping
<1>9. BranchOK(w.ptr)'
  BY <1>2, <1>4 DEF BranchOK, IsLeaf
<1>10. /\ live' = live \cup {w.ptr} /\ w.ptr # NULL
       /\ Slot(cur[t], key[t]) \in Branch /\ phase' = phase
       /\ \A x \in live, e \in Branch :
             word'[x][e] = IF x = cur[t] /\ e = Slot(cur[t], key[t])
                           THEN w ELSE word[x][e]
  BY <1>1, <1>2, <1>4, <1>5
<1>11. NodesStay /\ pc[t] = "ins_cas" /\ \A u \in Threads \ {t} : SameLocals(u)
  BY <1>1, <1>2, <1>3
<1> QED BY <1>6, <1>7, <1>8, <1>9, <1>10, <1>11, PublishStep

\* What InsertSplit does: a node a for what the key and the child c in its
\* slot of cur[t] share, above c.
LEMMA SplitFacts ==
    ASSUME ShapeInv, NEW t \in Threads, InsertSplit(t)
    PROVE  LET c == exp[t].ptr
               j == JoinLen(c, key[t])
               p == Truncate(key[t], j)
               a == SplitAddr(c, key[t])
               n == cur[t]
               b == Slot(n, key[t])
               d == BranchBits(pfx[c], j)
           IN  /\ TypeOK /\ TreeOK /\ ThreadOK(t) /\ pc[t] = "ins_cas"
               /\ n \in live /\ ~IsLeaf(n) /\ len[n] < KeyLen
               /\ key[t] \in Key /\ arg[t] \in Value /\ b \in Branch
               /\ IsPrefixOf(pfx[n], len[n], key[t], KeyLen)
               /\ word[n][b] = exp[t] /\ c # NULL /\ c \in live /\ c \in Addr
               /\ exp[t] \in [ptr : Pointer, sz : Nat]
               /\ j \in PrefixLen /\ j < len[c] /\ j < KeyLen
               /\ p \in Key /\ d \in Branch /\ d # BranchBits(key[t], j)
               /\ a \in Addr /\ a # NULL /\ a \notin live
               /\ live' = live \cup {a} /\ live' \in SUBSET Addr
               /\ pfx' \in [Addr -> Key] /\ len' \in [Addr -> PrefixLen]
               /\ word' \in [Addr -> [Branch -> [ptr : Pointer, sz : Nat]]]
               /\ val' \in [Addr -> Value \cup {NoValue}]
               /\ UNCHANGED <<phase, hashed>>
               /\ NodesStay
               /\ \A x \in live : val'[x] = val[x]
               /\ pfx'[a] = p /\ len'[a] = j /\ val'[a] = NoValue
               /\ \A e \in Branch :
                     word'[a][e] = IF e = d THEN exp[t] ELSE EmptyWord
               /\ \A x \in live, e \in Branch :
                     word'[x][e] = IF x = n /\ e = b THEN Word(a, exp[t].sz)
                                   ELSE word[x][e]
               /\ \A u \in Threads \ {t} : SameLocals(u)
               /\ pc'[t] = "ins" /\ cur'[t] = a /\ key' = key /\ arg' = arg
<1> DEFINE c == exp[t].ptr
           j == JoinLen(c, key[t])
           p == Truncate(key[t], j)
           a == SplitAddr(c, key[t])
           n == cur[t]
           b == Slot(n, key[t])
           d == BranchBits(pfx[c], j)
           w == Word(a, exp[t].sz)
           kids == [NoChildren EXCEPT ![d] = exp[t]]
<1>1. pc[t] = "ins_cas" /\ pc[t] # "idle" /\ Inserting(t)
  BY DEF InsertSplit, Inserting
<1>2. /\ TypeOK /\ TreeOK /\ ThreadOK(t) /\ n \in live /\ key[t] \in Key
      /\ IsPrefixOf(pfx[n], len[n], key[t], KeyLen)
  BY <1>1, Busy
<1>3. /\ ~IsLeaf(n) /\ arg[t] \in Value /\ c # NULL /\ c \in live
      /\ ~Covers(c, key[t]) /\ Free # {} /\ At(n, key[t]) = exp[t]
  BY <1>1, <1>2 DEF ThreadOK, InsertSplit
<1>4. /\ b \in Branch /\ len[n] < KeyLen /\ c \in Addr /\ pfx[c] \in Key
      /\ len[c] \in PrefixLen /\ exp[t] \in [ptr : Pointer, sz : Nat]
  BY <1>2, <1>3, WordFacts DEF TypeOK
<1>5. /\ j \in PrefixLen /\ j < len[c] /\ j < KeyLen
      /\ d # BranchBits(key[t], j)
  <2>1. j = MatchLen(pfx[c], len[c], key[t], KeyLen)
    BY DEF JoinLen
  <2>2. j \in PrefixLen /\ j <= len[c]
    BY <1>2, <1>4, <2>1, MatchLenFact, ZeroKeyType
  <2>3. ~(j >= len[c])
    BY <1>3, <2>1 DEF Covers
  <2>4. j < len[c] /\ j < KeyLen
    BY <1>4, <2>2, <2>3, KeyLenAssumption DEF PrefixLen
  <2>5. d # BranchBits(key[t], j)
    BY <1>2, <1>4, <2>1, <2>4, MatchEnds, ZeroKeyType
  <2> QED BY <2>2, <2>4, <2>5
<1>6. p \in Key /\ d \in Branch
  BY <1>2, <1>4, <1>5, TruncateFact, BranchBitsType
<1>7. a \in Free /\ a \in Addr /\ a # NULL /\ a \notin live
  BY <1>2, <1>3, <1>5, <1>6, MallocFree DEF SplitAddr
<1>8. w \in [ptr : Pointer, sz : Nat] /\ w.ptr = a
  BY <1>4, <1>7 DEF Word, Pointer
<1>9. /\ kids \in [Branch -> [ptr : Pointer, sz : Nat]]
      /\ \A e \in Branch : kids[e] = IF e = d THEN exp[t] ELSE EmptyWord
  <2>1. NoChildren \in [Branch -> [ptr : Pointer, sz : Nat]]
    BY EmptyWordType
  <2>2. \A e \in Branch : NoChildren[e] = EmptyWord
    BY DEF NoChildren
  <2> HIDE DEF d
  <2> QED BY <2>1, <2>2, <1>4, <1>6
<1>10. Publish(n, b, w, p, j, kids, NoValue)
  BY DEF InsertSplit, PublishSplit
<1>11. /\ \A u \in Threads \ {t} : SameLocals(u)
       /\ pc'[t] = "ins" /\ cur'[t] = a /\ key' = key /\ arg' = arg
  BY <1>2 DEF InsertSplit, TypeOK, SameLocals
<1>12. word[n][b] = exp[t] /\ w = Word(a, exp[t].sz)
  BY <1>3 DEF At
<1> HIDE DEF a, b, n, w, c, j, p, d, kids
<1>13. /\ live' = live \cup {a} /\ live' \in SUBSET Addr
       /\ pfx' \in [Addr -> Key] /\ len' \in [Addr -> PrefixLen]
       /\ word' \in [Addr -> [Branch -> [ptr : Pointer, sz : Nat]]]
       /\ val' \in [Addr -> Value \cup {NoValue}]
       /\ UNCHANGED <<phase, hashed>>
       /\ NodesStay
       /\ \A x \in live : val'[x] = val[x]
       /\ pfx'[a] = p /\ len'[a] = j /\ word'[a] = kids /\ val'[a] = NoValue
       /\ \A x \in live, e \in Branch :
             word'[x][e] = IF x = n /\ e = b THEN w ELSE word[x][e]
  BY <1>2, <1>4, <1>5, <1>6, <1>7, <1>8, <1>9, <1>10, PublishFacts
<1>14. \A e \in Branch : word'[a][e] = IF e = d THEN exp[t] ELSE EmptyWord
  BY <1>9, <1>13
<1> QED BY <1>1, <1>2, <1>3, <1>4, <1>5, <1>6, <1>7, <1>11, <1>12, <1>13, <1>14
        DEF a, b, n, c, j, p, d

\* In terms of the shape of the tree.
LEMMA SplitShape ==
    ASSUME ShapeInv, NEW t \in Threads, InsertSplit(t)
    PROVE  LET c == exp[t].ptr
               j == JoinLen(c, key[t])
               p == Truncate(key[t], j)
           IN  /\ TrieShape(live', pfx', len', Children', NULL)
               /\ len[cur[t]] < j
               /\ IsPrefixOf(p, j, key[t], KeyLen)
               /\ IsPrefixOf(p, j, pfx[c], len[c])
<1>0. PICK c, j, p, a, n, b, d, w :
        /\ c = exp[t].ptr /\ j = JoinLen(c, key[t]) /\ p = Truncate(key[t], j)
        /\ a = SplitAddr(c, key[t]) /\ n = cur[t] /\ b = Slot(n, key[t])
        /\ d = BranchBits(pfx[c], j) /\ w = Word(a, exp[t].sz)
  OBVIOUS
<1>1. /\ TypeOK /\ TreeOK /\ n \in live /\ ~IsLeaf(n) /\ len[n] < KeyLen
      /\ key[t] \in Key /\ b \in Branch
      /\ IsPrefixOf(pfx[n], len[n], key[t], KeyLen)
      /\ word[n][b] = exp[t] /\ c # NULL /\ j < len[c] /\ j < KeyLen
      /\ a \in Addr /\ a # NULL /\ a \notin live
  BY <1>0, SplitFacts
<1>2. /\ live' = live \cup {a} /\ live' \in SUBSET Addr /\ NodesStay
      /\ pfx'[a] = p /\ len'[a] = j /\ len' \in [Addr -> PrefixLen]
      /\ \A e \in Branch : word'[a][e] = IF e = d THEN exp[t] ELSE EmptyWord
      /\ \A x \in live, e \in Branch :
            word'[x][e] = IF x = n /\ e = b THEN w ELSE word[x][e]
  BY <1>0, SplitFacts
<1>3. w.ptr = a /\ b = BranchBits(key[t], len[n])
  BY <1>0 DEF Word, Slot
<1>4. Added(live, pfx, len, Children, n, b, a, p, j,
            live', pfx', len', Children')
  BY <1>1, <1>2, <1>3, PublishAdded
<1>5. \A e \in Branch : Children'[a][e] = IF e = d THEN c ELSE NULL
  <2>1. len'[a] # KeyLen
    BY <1>1, <1>2, KeyLenAssumption
  <2>2. \A e \in Branch : Children'[a][e] = word'[a][e].ptr
    BY <1>1, <2>1 DEF Children, IsLeaf
  <2> QED BY <2>2, <1>0, <1>2, EmptyWordType
<1>6. Children[n][b] = c
  BY <1>0, <1>1 DEF Children, TypeOK
<1>7. j = MatchLen(pfx[c], len[c], key[t], KeyLen) /\ ~(j >= len[c])
  <2>1. j = MatchLen(pfx[c], len[c], key[t], KeyLen)
    BY <1>0 DEF JoinLen
  <2>2. ~Covers(c, key[t])
    BY <1>0, SplitFacts DEF ThreadOK, InsertSplit
  <2> QED BY <2>1, <2>2 DEF Covers
<1>8. SplitAt(live, pfx, len, Children, NULL, n, key[t], KeyLen, c, j, a,
              live', pfx', len', Children')
  BY <1>0, <1>1, <1>3, <1>4, <1>5, <1>6, <1>7 DEF SplitAt
<1>9. NodesTyped(live, pfx, len)
  BY <1>1 DEF TypeOK, NodesTyped
<1>10. TrieShape(live, pfx, len, Children, NULL)
  BY <1>1, TreeIsShape
<1>11. /\ TrieShape(live', pfx', len', Children', NULL)
       /\ len[n] < j
       /\ IsPrefixOf(Truncate(key[t], j), j, key[t], KeyLen)
       /\ IsPrefixOf(Truncate(key[t], j), j, pfx[c], len[c])
  BY <1>1, <1>8, <1>9, <1>10, ShapeSplit, ZeroKeyType
<1> QED BY <1>0, <1>11

LEMMA InsertSplitShape ==
    ASSUME ShapeInv, NEW t \in Threads, InsertSplit(t)
    PROVE  ShapeInv'
<1>0. PICK c, j, p, a, n, b, d, w :
        /\ c = exp[t].ptr /\ j = JoinLen(c, key[t]) /\ p = Truncate(key[t], j)
        /\ a = SplitAddr(c, key[t]) /\ n = cur[t] /\ b = Slot(n, key[t])
        /\ d = BranchBits(pfx[c], j) /\ w = Word(a, exp[t].sz)
  OBVIOUS
<1>1. /\ TypeOK /\ pc[t] = "ins_cas" /\ n \in live /\ b \in Branch
      /\ key[t] \in Key /\ arg[t] \in Value /\ c # NULL
      /\ j < KeyLen /\ d \in Branch /\ d # BranchBits(key[t], j)
      /\ a \in Addr /\ a # NULL /\ a \notin live
  BY <1>0, SplitFacts
<1>2. /\ live' = live \cup {a} /\ live' \in SUBSET Addr
      /\ pfx' \in [Addr -> Key] /\ len' \in [Addr -> PrefixLen]
      /\ word' \in [Addr -> [Branch -> [ptr : Pointer, sz : Nat]]]
      /\ val' \in [Addr -> Value \cup {NoValue}]
      /\ UNCHANGED <<phase, hashed>>
      /\ NodesStay
      /\ \A x \in live : val'[x] = val[x]
      /\ pfx'[a] = p /\ len'[a] = j
      /\ \A e \in Branch : word'[a][e] = IF e = d THEN exp[t] ELSE EmptyWord
      /\ \A x \in live, e \in Branch :
            word'[x][e] = IF x = n /\ e = b THEN w ELSE word[x][e]
  BY <1>0, SplitFacts
<1>3. /\ \A u \in Threads \ {t} : SameLocals(u)
      /\ pc'[t] = "ins" /\ cur'[t] = a /\ key' = key /\ arg' = arg
  BY <1>0, SplitFacts
<1>4. /\ TrieShape(live', pfx', len', Children', NULL)
      /\ IsPrefixOf(p, j, key[t], KeyLen)
  BY <1>0, SplitShape
<1>5. w.ptr = a
  BY <1>0 DEF Word
<1>6. TypeOK'
  <2>1. len'[a] # KeyLen
    BY <1>1, <1>2, KeyLenAssumption
  <2>2. \A x \in Leaves' : val'[x] \in Value
    BY <2>1, <1>1, <1>2 DEF TypeOK, Leaves, IsLeaf, NodesStay
  <2>3. /\ pc' \in [Threads -> {"idle", "ins", "ins_cas", "bump", "bump_cas", "get"}]
        /\ cur' \in [Threads -> Pointer]
        /\ exp' \in [Threads -> [ptr : Pointer, sz : Nat]]
        /\ UNCHANGED <<key, arg, given, res>>
    BY <1>0, <1>1, EmptyWordType DEF InsertSplit, TypeOK, Pointer
  <2> QED BY <1>1, <1>2, <2>2, <2>3 DEF TypeOK
<1>7. TreeOK'
  BY <1>4, <1>6, TreeIsShapeThen
<1>8. ThreadOK(t)'
  BY <1>1, <1>2, <1>3, <1>4 DEF ThreadOK, Inserting, Bumping
<1>9. BranchOK(w.ptr)'
  <2>1. d \in Kids(w.ptr)'
    BY <1>0, <1>1, <1>2, <1>5 DEF Kids
  <2>2. Slot(w.ptr, key[t])' = BranchBits(key[t], j)
    BY <1>2, <1>3, <1>5 DEF Slot
  <2>3. BranchBits(key[t], j) \notin Kids(w.ptr)'
    BY <1>1, <1>2, <1>5, EmptyWordType DEF Kids
  <2>4. Filling(t, w.ptr)'
    BY <2>2, <2>3, <1>3, <1>5 DEF Filling, Inserting
  <2> QED BY <2>1, <2>4 DEF BranchOK
<1>10. /\ live' = live \cup {w.ptr} /\ w.ptr # NULL
       /\ Slot(cur[t], key[t]) \in Branch /\ phase' = phase
       /\ \A x \in live, e \in Branch :
             word'[x][e] = IF x = cur[t] /\ e = Slot(cur[t], key[t])
                           THEN w ELSE word[x][e]
  BY <1>0, <1>1, <1>2, <1>5
<1>11. NodesStay /\ pc[t] = "ins_cas" /\ \A u \in Threads \ {t} : SameLocals(u)
  BY <1>1, <1>2, <1>3
<1> QED BY <1>6, <1>7, <1>8, <1>9, <1>10, <1>11, PublishStep

-----------------------------------------------------------------------------
(* hash and clear *)

\* A step that changes digests, phase and hashed only.
LEMMA HashQuiet ==
    ASSUME ShapeInv, AllIdle, UNCHANGED <<tree, threads>>,
           phase' \in {"batch", "hash"}, hashed' \in BOOLEAN
    PROVE  ShapeInv'
<1>0. /\ TypeOK /\ TreeOK /\ RootStays
      /\ \A u \in Threads : ThreadOK(u)
      /\ \A n \in live : BranchOK(n)
  BY ShapeParts
<1>1. /\ UNCHANGED <<live, pfx, len, word, val>>
      /\ UNCHANGED <<pc, key, arg, given, cur, exp, res>>
  BY DEF tree, threads
<1>2. TypeOK'
  BY <1>0, <1>1 DEF TypeOK, Leaves, IsLeaf
<1>3. TreeOK'
  BY <1>0, <1>1
     DEF TreeOK, EdgesDescend, PathsComplete, NoDuplicates, Above, IsLeaf, At, Slot
<1>4. RootStays'
  BY <1>0, <1>1 DEF RootStays, AllIdle
<1>5. \A u \in Threads : ThreadOK(u)'
  BY <1>1 DEF ThreadOK, AllIdle, Inserting, Bumping
<1>6. \A n \in live : BranchOK(n)'
  BY <1>0, <1>1 DEF BranchOK, Filling, Kids, IsLeaf, AllIdle, Inserting
<1> QED BY <1>1, <1>2, <1>3, <1>4, <1>5, <1>6, ShapePartsThen

\* A tree that is just the root.
OnlyRoot ==
    /\ live = {Root}
    /\ pfx = [a \in Addr |-> ZeroKey]
    /\ len = [a \in Addr |-> 0]
    /\ word = [a \in Addr |-> NoChildren]
    /\ val = [a \in Addr |-> NoValue]

LEMMA OnlyRootShape ==
    ASSUME OnlyRoot
    PROVE  /\ TreeOK /\ Root \in live /\ len[Root] = 0 /\ Leaves = {}
           /\ live \in SUBSET Addr /\ pfx \in [Addr -> Key]
           /\ len \in [Addr -> PrefixLen]
           /\ word \in [Addr -> [Branch -> [ptr : Pointer, sz : Nat]]]
           /\ val \in [Addr -> Value \cup {NoValue}]
           /\ \A n \in live : BranchOK(n)
<1>1. Root \in Addr /\ live = {Root} /\ len[Root] = 0 /\ 0 # KeyLen
  BY AddrAssumption, KeyLenAssumption DEF OnlyRoot
<1>2. \A b \in Branch : word[Root][b].ptr = NULL
  BY <1>1, EmptyWordType DEF OnlyRoot
<1>3. TreeOK
  BY <1>1, <1>2 DEF TreeOK, EdgesDescend, PathsComplete, NoDuplicates
<1>4. Leaves = {}
  BY <1>1 DEF Leaves, IsLeaf
<1>5. /\ live \in SUBSET Addr /\ pfx \in [Addr -> Key]
      /\ len \in [Addr -> PrefixLen]
      /\ word \in [Addr -> [Branch -> [ptr : Pointer, sz : Nat]]]
      /\ val \in [Addr -> Value \cup {NoValue}]
  BY <1>1, ZeroKeyType, EmptyWordType DEF OnlyRoot
<1>6. \A n \in live : BranchOK(n)
  BY <1>1 DEF BranchOK
<1> QED BY <1>1, <1>3, <1>4, <1>5, <1>6

\* No thread works on the trie.
Quiet ==
    /\ AllIdle
    /\ phase \in {"batch", "hash"} /\ hashed \in BOOLEAN
    /\ pc \in [Threads -> {"idle", "ins", "ins_cas", "bump", "bump_cas", "get"}]
    /\ key \in [Threads -> Key]
    /\ arg \in [Threads -> Value \cup {NoValue}]
    /\ given \in [Threads -> Value \cup {NoValue}]
    /\ cur \in [Threads -> Pointer]
    /\ exp \in [Threads -> [ptr : Pointer, sz : Nat]]
    /\ res \in [Threads -> Value \cup {NoValue}]

LEMMA OnlyRootInv == OnlyRoot /\ Quiet => ShapeInv
<1> SUFFICES ASSUME OnlyRoot, Quiet PROVE ShapeInv
  OBVIOUS
<1>1. TypeOK
  BY OnlyRootShape DEF TypeOK, Quiet
<1>2. RootStays
  BY OnlyRootShape DEF RootStays, Quiet
<1>3. \A t \in Threads : ThreadOK(t)
  BY DEF AllIdle, ThreadOK, Inserting, Bumping, Quiet
<1> QED BY <1>1, <1>2, <1>3, OnlyRootShape, ShapeParts

LEMMA ClearShape ==
    ASSUME ShapeInv, Clear
    PROVE  ShapeInv'
<1>1. TypeOK /\ AllIdle /\ UNCHANGED <<phase, threads>> /\ hashed' = FALSE
  BY DEF ShapeInv, Clear
<1>2. OnlyRoot'
  BY DEF Clear, OnlyRoot
<1>3. UNCHANGED <<pc, key, arg, given, cur, exp, res>>
  BY <1>1 DEF threads
<1>4. Quiet'
  BY <1>1, <1>3 DEF TypeOK, AllIdle, Quiet
<1>5. OnlyRoot' /\ Quiet' => ShapeInv'
  BY OnlyRootInv, PTL
<1> QED BY <1>2, <1>4, <1>5

LEMMA InitShape == Init => ShapeInv
<1> SUFFICES ASSUME Init PROVE ShapeInv
  OBVIOUS
<1>1. OnlyRoot
  BY DEF Init, OnlyRoot
<1>2. Quiet
  BY ZeroKeyType, EmptyWordType DEF Init, Pointer, AllIdle, Quiet
<1> QED BY <1>1, <1>2, OnlyRootInv

-----------------------------------------------------------------------------
(* The inductive invariant of the shape *)

LEMMA ProceedShape ==
    ASSUME ShapeInv, NEW t \in Threads, Proceed(t)
    PROVE  ShapeInv'
BY InsertValueShape, InsertLoadShape, InsertAttachShape, InsertSplitShape,
   InsertRetryShape, BumpReturnShape, BumpLoadShape, BumpSetShape,
   BumpRetryShape, GetLeafShape, GetLoadShape DEF Proceed

LEMMA NextShape == ShapeInv /\ [Next]_vars => ShapeInv'
<1> SUFFICES ASSUME ShapeInv, [Next]_vars PROVE ShapeInv'
  OBVIOUS
<1>0. TypeOK /\ RootStays
  BY DEF ShapeInv
<1>1. CASE \E t \in Threads : Start(t) \/ Proceed(t)
  BY <1>1, StartShape, ProceedShape
<1>2. CASE HashStart
  BY <1>2, HashQuiet, <1>0 DEF HashStart, TypeOK
<1>3. CASE \E n \in Addr : HashNode(n)
  BY <1>3, HashQuiet, <1>0 DEF HashNode, TypeOK, RootStays
<1>4. CASE HashSerial
  BY <1>4, HashQuiet, <1>0 DEF HashSerial, TypeOK, RootStays
<1>5. CASE Clear
  BY <1>5, ClearShape
<1>6. CASE UNCHANGED vars
  <2>1. UNCHANGED <<live, pfx, len, word, val, phase, hashed>>
        /\ UNCHANGED <<pc, key, arg, given, cur, exp, res>>
    BY <1>6 DEF vars, tree, hashes, threads
  <2>2. TypeOK'
    BY <1>0, <2>1 DEF TypeOK, Leaves, IsLeaf
  <2>3. TreeOK' /\ RootStays'
    BY <1>0, <2>1 DEF ShapeInv, TreeOK, EdgesDescend, PathsComplete,
                      NoDuplicates, Above, IsLeaf, At, Slot, RootStays, AllIdle
  <2>4. PointersStable' /\ CallsCarry'
    BY <2>1 DEF ShapeInv, PointersStable, CallsCarry, Covers, IsLeaf, Inserting,
                Bumping, Leaves
  <2>5. BranchesPending'
    BY <2>1 DEF ShapeInv, BranchesPending, Kids, IsLeaf, Inserting, Slot
  <2> QED BY <2>2, <2>3, <2>4, <2>5 DEF ShapeInv
<1> QED BY <1>1, <1>2, <1>3, <1>4, <1>5, <1>6 DEF Next, HashStep

\* The shape of the tree, what a thread holds between two accesses to words,
\* and who is going to complete a node with one child: an invariant of every
\* interleaving of insert, bump_size and get_value calls, hash and clear.
THEOREM ShapeInductive == Spec => []ShapeInv
BY InitShape, NextShape, PTL DEF Spec

LEMMA TwoKids ==
    ASSUME NEW n, NEW b \in Kids(n), NEW d \in Kids(n), b # d
    PROVE  ~(Cardinality(Kids(n)) < 2)
<1>1. IsFiniteSet(Kids(n)) /\ Cardinality(Kids(n)) \in Nat
  BY FiniteAssumption, FS_Subset, FS_CardinalityType DEF Kids
<1>2. IsFiniteSet({b}) /\ Cardinality({b}) = 1
  BY FS_Singleton
<1>3. Cardinality({b} \cup {d}) = 2
  BY <1>2, FS_AddElement
<1>4. {b} \cup {d} \in SUBSET Kids(n)
  OBVIOUS
<1>5. Cardinality({b} \cup {d}) <= Cardinality(Kids(n))
  BY <1>1, <1>4, FS_Subset
<1> QED BY <1>1, <1>3, <1>5

LEMMA PendingBranches == ShapeInv => WellFormed
<1> SUFFICES ASSUME ShapeInv PROVE WellFormed
  OBVIOUS
<1>1. ASSUME NEW n \in live, ~IsLeaf(n), n # Root, Cardinality(Kids(n)) < 2
      PROVE  \E t \in Threads : Inserting(t) /\ cur[t] = n
  BY <1>1, TwoKids DEF ShapeInv, BranchesPending
<1> QED BY <1>1 DEF WellFormed, ShapeInv, BranchesBranch

\* Children sit below their prefix, nothing is cut off or made twice by the
\* compare_exchange loops of insert, what a thread holds between two accesses
\* is still good, and a node with fewer than two children is about to get
\* another one.
THEOREM AlwaysWellFormed == Spec => []WellFormed
BY ShapeInductive, PendingBranches, PTL

-----------------------------------------------------------------------------
(* Sizes *)

Counting(n, b) == {t \in Threads : Uncounted(t, n, b)}

SizeOK(n, b) ==
    word[n][b].sz + Cardinality(Counting(n, b)) = Cardinality(LeavesBelow(n, b))

LEMMA SizeParts ==
    SizeInv <=> /\ IsFiniteSet(live)
                /\ \A n \in live, b \in Branch : ~IsLeaf(n) => SizeOK(n, b)
BY DEF SizeInv, SizesAccounted, SizeOK, Counting

LEMMA SizePartsThen ==
    SizeInv' <=> /\ IsFiniteSet(live')
                 /\ \A n \in live', b \in Branch : ~IsLeaf(n)' => SizeOK(n, b)'
<1>1. (SizeInv <=> /\ IsFiniteSet(live)
                   /\ \A n \in live, b \in Branch : ~IsLeaf(n) => SizeOK(n, b))'
  BY SizeParts, PTL
<1> QED BY <1>1

LEMMA FiniteCounts ==
    ASSUME IsFiniteSet(live), NEW n, NEW b
    PROVE  /\ IsFiniteSet(Counting(n, b)) /\ Cardinality(Counting(n, b)) \in Nat
           /\ IsFiniteSet(LeavesBelow(n, b)) /\ Cardinality(LeavesBelow(n, b)) \in Nat
<1>1. Counting(n, b) \in SUBSET Threads /\ LeavesBelow(n, b) \in SUBSET live
  BY DEF Counting, LeavesBelow, Leaves
<1>2. IsFiniteSet(Counting(n, b)) /\ IsFiniteSet(LeavesBelow(n, b))
  BY <1>1, FiniteAssumption, FS_Subset
<1> QED BY <1>2, FS_CardinalityType

\* A step of one thread that changes no word.
LEMMA SizeQuiet ==
    ASSUME SizeInv, NEW t \in Threads, UNCHANGED <<live, pfx, len, word>>,
           \A u \in Threads \ {t} : SameLocals(u),
           \A n \in live, b \in Branch :
               ~IsLeaf(n) => (Uncounted(t, n, b)' <=> Uncounted(t, n, b))
    PROVE  SizeInv'
<1> SUFFICES ASSUME NEW n \in live, NEW b \in Branch, ~IsLeaf(n)
             PROVE  SizeOK(n, b)'
  BY SizeParts, SizePartsThen DEF IsLeaf
<1>1. SizeOK(n, b)
  BY SizeParts
<1>2. \A u \in Threads : Uncounted(u, n, b)' <=> Uncounted(u, n, b)
  BY DEF SameLocals, Uncounted, Bumping, Slot
<1>3. Counting(n, b)' = Counting(n, b)
  BY <1>2 DEF Counting
<1>4. LeavesBelow(n, b)' = LeavesBelow(n, b)
  BY DEF LeavesBelow, Leaves, Above, IsLeaf, Slot
<1> QED BY <1>1, <1>3, <1>4 DEF SizeOK

\* bump_size has passed: nothing is left to count at a leaf.
LEMMA LeafCounted ==
    ASSUME TypeOK, NEW t \in Threads, IsLeaf(cur[t]),
           NEW n \in live, ~IsLeaf(n), NEW b
    PROVE  ~Uncounted(t, n, b)
<1>1. len[n] \in PrefixLen /\ len[n] # KeyLen /\ len[cur[t]] = KeyLen
  BY DEF TypeOK, IsLeaf
<1> QED BY <1>1, KeyLenAssumption DEF Uncounted, PrefixLen

LEMMA ThreadSizes ==
    ASSUME ShapeInv, SizeInv, NEW t \in Threads,
           \/ Start(t) \/ InsertValue(t) \/ InsertLoad(t) \/ InsertRetry(t)
           \/ BumpReturn(t) \/ BumpLoad(t) \/ BumpRetry(t)
           \/ GetLeaf(t) \/ GetLoad(t)
    PROVE  SizeInv'
<1>0. TypeOK
  BY DEF ShapeInv
<1>1. CASE Start(t) \/ InsertValue(t) \/ InsertLoad(t) \/ InsertRetry(t)
           \/ GetLeaf(t) \/ GetLoad(t)
  <2>1. UNCHANGED <<live, pfx, len, word>>
    BY <1>1 DEF Start, StartInsert, StartGet, InsertValue, InsertLoad,
                InsertRetry, GetLeaf, GetLoad, tree
  <2>2. ~Bumping(t)
    BY <1>1 DEF Start, StartInsert, StartGet, Call, InsertValue, InsertLoad,
                InsertRetry, GetLeaf, GetLoad, Bumping
  <2>3. ~Bumping(t)'
    BY <1>0, <1>1 DEF Start, StartInsert, StartGet, Call, InsertValue, InsertLoad,
             InsertRetry, GetLeaf, GetLoad, Bumping, Return, Observe, TypeOK
  <2>4. \A u \in Threads \ {t} : SameLocals(u)
    BY <1>0, <1>1 DEF Start, StartInsert, StartGet, Call, InsertValue, InsertLoad,
             InsertRetry, GetLeaf, GetLoad, Return, Observe, TypeOK, SameLocals
  <2> QED BY <2>1, <2>2, <2>3, <2>4, SizeQuiet DEF Uncounted
<1>2. CASE BumpReturn(t)
  <2>1. /\ UNCHANGED <<live, pfx, len, word>> /\ IsLeaf(cur[t])
        /\ ~Bumping(t)' /\ \A u \in Threads \ {t} : SameLocals(u)
    BY <1>0, <1>2 DEF BumpReturn, Return, tree, Bumping, TypeOK, SameLocals
  <2>2. \A n \in live, b \in Branch :
            ~IsLeaf(n) => ~Uncounted(t, n, b)' /\ ~Uncounted(t, n, b)
    BY <1>0, <2>1, LeafCounted DEF Uncounted
  <2> QED BY <2>1, <2>2, SizeQuiet
<1>3. CASE BumpLoad(t) \/ BumpRetry(t)
  <2>1. /\ UNCHANGED <<live, pfx, len, word, cur, key>>
        /\ Bumping(t) /\ Bumping(t)' /\ \A u \in Threads \ {t} : SameLocals(u)
    BY <1>0, <1>3 DEF BumpLoad, BumpRetry, tree, Bumping, TypeOK, SameLocals
  <2> QED BY <2>1, SizeQuiet DEF Uncounted, Slot
<1> QED BY <1>1, <1>2, <1>3

\* Between a node and its child towards a key, nothing is on the path to it.
LEMMA NothingBetween ==
    ASSUME TypeOK, TreeOK, NEW n \in live, ~IsLeaf(n), NEW k \in Key,
           IsPrefixOf(pfx[n], len[n], k, KeyLen), At(n, k).ptr # NULL,
           NEW x \in live, IsPrefixOf(pfx[x], len[x], k, KeyLen),
           len[n] <= len[x], len[x] < len[At(n, k).ptr]
    PROVE  x = n
<1>1. /\ len[n] \in PrefixLen /\ len[x] \in PrefixLen /\ KeyLen \in PrefixLen
      /\ len[n] < KeyLen /\ At(n, k).ptr \in live
      /\ len[At(n, k).ptr] \in PrefixLen
  BY WordFacts, ZeroKeyType DEF TypeOK
<1>2. Above(n, x)
  BY <1>1, PrefixCompare DEF Above
<1>3. CASE len[n] = len[x]
  BY <1>2, <1>3 DEF TreeOK, NoDuplicates
<1>4. CASE len[n] < len[x]
  <2>1. Slot(n, pfx[x]) = Slot(n, k)
    BY <1>1, <1>4, PrefixDigit DEF Slot
  <2>2. Above(At(n, k).ptr, x)
    BY <1>2, <1>4, <2>1 DEF TreeOK, PathsComplete, At
  <2>3. len[At(n, k).ptr] <= len[x]
    BY <2>2 DEF Above, IsPrefixOf
  <2> QED BY <1>1, <2>3 DEF PrefixLen
<1> QED BY <1>1, <1>3, <1>4 DEF PrefixLen

LEMMA BumpSetSizes ==
    ASSUME ShapeInv, SizeInv, NEW t \in Threads, BumpSet(t)
    PROVE  SizeInv'
<1> DEFINE m == cur[t]
           s == Slot(m, key[t])
           c == exp[t].ptr
<1>1. pc[t] = "bump_cas" /\ pc[t] # "idle" /\ Bumping(t)
  BY DEF BumpSet, Bumping
<1>2. /\ TypeOK /\ TreeOK /\ ThreadOK(t) /\ m \in live /\ m \in Addr
      /\ key[t] \in Key /\ IsPrefixOf(pfx[m], len[m], key[t], KeyLen)
  BY <1>1, Busy
<1>3. ~IsLeaf(m) /\ At(m, key[t]) = exp[t]
  BY <1>1, <1>2 DEF ThreadOK, BumpSet
<1>4. c \in live /\ s \in Branch /\ c # NULL
  BY <1>2, BumpSetWord, AddrAssumption DEF TypeOK
<1>5. len[m] < len[c] /\ len[m] \in PrefixLen /\ len[c] \in PrefixLen
  BY <1>2, <1>3, <1>4, WordFacts DEF TypeOK
<1>6. \A n \in Addr, b \in Branch :
        word'[n][b].sz = IF n = m /\ b = s THEN word[n][b].sz + 1
                         ELSE word[n][b].sz
  BY BumpSetWord
<1>7. /\ \A u \in Threads \ {t} : SameLocals(u)
      /\ pc'[t] = "bump" /\ cur'[t] = c
      /\ UNCHANGED <<live, pfx, len, key>>
  BY <1>2 DEF TypeOK, SameLocals, BumpSet
<1>8. IsFiniteSet(live) /\ \A n \in live, b \in Branch : ~IsLeaf(n) => SizeOK(n, b)
  BY SizeParts
<1> SUFFICES ASSUME NEW n \in live, NEW b \in Branch, ~IsLeaf(n)
             PROVE  SizeOK(n, b)'
  BY <1>7, <1>8, SizePartsThen DEF IsLeaf
<1>9. LeavesBelow(n, b)' = LeavesBelow(n, b)
  BY <1>7 DEF LeavesBelow, Leaves, Above, IsLeaf, Slot
<1>10. \A u \in Threads \ {t} : Uncounted(u, n, b)' <=> Uncounted(u, n, b)
  BY <1>7 DEF SameLocals, Uncounted, Bumping, Slot
<1>11. Uncounted(t, n, b)' <=>
         /\ len[c] <= len[n]
         /\ IsPrefixOf(pfx[n], len[n], key[t], KeyLen) /\ Slot(n, key[t]) = b
  BY <1>7 DEF Uncounted, Bumping, Slot
<1>12. Uncounted(t, n, b) <=>
         /\ len[m] <= len[n]
         /\ IsPrefixOf(pfx[n], len[n], key[t], KeyLen) /\ Slot(n, key[t]) = b
  BY <1>1 DEF Uncounted
<1>13. SizeOK(n, b) /\ n \in Addr /\ len[n] \in PrefixLen
  BY <1>2, <1>8 DEF TypeOK
<1>14. CASE n = m /\ b = s
  <2>1. Uncounted(t, n, b) /\ ~Uncounted(t, n, b)'
    BY <1>2, <1>5, <1>11, <1>12, <1>14 DEF PrefixLen
  <2>2. Counting(n, b)' = Counting(n, b) \ {t} /\ t \in Counting(n, b)
    BY <1>10, <2>1 DEF Counting
  <2>3. Cardinality(Counting(n, b)') = Cardinality(Counting(n, b)) - 1
    BY <1>8, <2>2, FiniteCounts, FS_RemoveElement
  <2>4. word'[n][b].sz = word[n][b].sz + 1 /\ word[n][b].sz \in Nat
    BY <1>2, <1>6, <1>13, <1>14 DEF TypeOK
  <2> QED BY <1>8, <1>9, <1>13, <2>3, <2>4, FiniteCounts DEF SizeOK
<1>15. CASE ~(n = m /\ b = s)
  <2>1. Uncounted(t, n, b)' => Uncounted(t, n, b)
    BY <1>5, <1>11, <1>12, <1>13 DEF PrefixLen
  <2>2. ASSUME Uncounted(t, n, b), ~(len[c] <= len[n])
        PROVE  FALSE
    <3>1. len[n] < len[c]
      BY <1>5, <1>13, <2>2 DEF PrefixLen
    <3>2. n = m
      BY <1>2, <1>3, <1>4, <1>12, <2>2, <3>1, NothingBetween
    <3> QED BY <1>12, <1>15, <2>2, <3>2
  <2>3. Counting(n, b)' = Counting(n, b)
    BY <1>10, <1>11, <1>12, <2>1, <2>2 DEF Counting
  <2>4. word'[n][b].sz = word[n][b].sz
    BY <1>6, <1>13, <1>15
  <2> QED BY <1>9, <1>13, <2>3, <2>4 DEF SizeOK
<1> QED BY <1>14, <1>15

\* Nothing is below an empty slot.
LEMMA EmptySlot ==
    ASSUME TypeOK, TreeOK, NEW n \in live, ~IsLeaf(n), NEW b \in Branch,
           word[n][b].ptr = NULL
    PROVE  LeavesBelow(n, b) = {}
<1> SUFFICES ASSUME NEW x \in LeavesBelow(n, b) PROVE FALSE
  OBVIOUS
<1>1. x \in live /\ len[x] = KeyLen /\ Above(n, x) /\ Slot(n, pfx[x]) = b
  BY DEF LeavesBelow, Leaves, IsLeaf
<1>2. len[n] < KeyLen
  BY WordFacts, ZeroKeyType
<1> QED BY <1>1, <1>2 DEF TreeOK, PathsComplete, At

LEMMA InsertAttachSizes ==
    ASSUME ShapeInv, SizeInv, NEW t \in Threads, InsertAttach(t)
    PROVE  SizeInv'
<1>0. PICK a, m, s : /\ a = LeafAddr(key[t]) /\ m = cur[t]
                     /\ s = Slot(m, key[t])
  OBVIOUS
<1>1. /\ TypeOK /\ TreeOK /\ pc[t] = "ins_cas"
      /\ m \in live /\ ~IsLeaf(m) /\ key[t] \in Key /\ s \in Branch
      /\ word[m][s].ptr = NULL /\ a \notin live
  BY <1>0, AttachFacts
<1>2. /\ live' = live \cup {a} /\ live' \in SUBSET Addr /\ NodesStay
      /\ len' \in [Addr -> PrefixLen]
      /\ pfx'[a] = key[t] /\ len'[a] = KeyLen
      /\ \A x \in live, e \in Branch :
            word'[x][e] = IF x = m /\ e = s THEN Word(a, 0) ELSE word[x][e]
  BY <1>0, AttachFacts
<1>3. /\ \A u \in Threads \ {t} : SameLocals(u)
      /\ pc'[t] = "bump" /\ cur'[t] = Root /\ key' = key
  BY <1>0, AttachFacts
<1>4. /\ IsFiniteSet(live)
      /\ \A n \in live, b \in Branch : ~IsLeaf(n) => SizeOK(n, b)
  BY SizeParts
<1>5. IsFiniteSet(live')
  BY <1>2, <1>4, FS_AddElement
<1>6. len'[Root] = 0
  BY <1>2 DEF ShapeInv, RootStays, NodesStay
<1> SUFFICES ASSUME NEW n \in live', NEW b \in Branch, ~IsLeaf(n)'
             PROVE  SizeOK(n, b)'
  BY <1>5, SizePartsThen
<1>7. /\ n \in live /\ ~IsLeaf(n) /\ n \in Addr /\ len[n] \in PrefixLen
      /\ pfx'[n] = pfx[n] /\ len'[n] = len[n]
  BY <1>1, <1>2 DEF IsLeaf, NodesStay, TypeOK
<1>8. SizeOK(n, b) /\ word[n][b].sz \in Nat
  BY <1>1, <1>4, <1>7 DEF TypeOK
<1>9. word'[n][b].sz = word[n][b].sz
  <2>1. CASE n = m /\ b = s
    <3>1. word'[n][b].sz = 0
      BY <1>1, <1>2, <2>1 DEF Word
    <3>2. Cardinality(LeavesBelow(n, b)) = 0
      BY <1>1, <2>1, EmptySlot, FS_EmptySet
    <3>3. word[n][b].sz = 0
      BY <1>4, <1>8, <3>2, FiniteCounts DEF SizeOK
    <3> QED BY <3>1, <3>3
  <2>2. CASE ~(n = m /\ b = s)
    BY <1>2, <1>7, <2>2
  <2> QED BY <2>1, <2>2
<1> DEFINE Ahead == /\ IsPrefixOf(pfx[n], len[n], key[t], KeyLen)
                       /\ Slot(n, key[t]) = b
<1>10. /\ ~Uncounted(t, n, b)
       /\ Uncounted(t, n, b)' <=> Ahead
  BY <1>1, <1>3, <1>6, <1>7 DEF Uncounted, Bumping, Slot, PrefixLen
<1>11. ASSUME NEW u \in Threads, u # t
       PROVE  Uncounted(u, n, b)' <=> Uncounted(u, n, b)
  <2>1. Bumping(u) => cur[u] \in live
    BY ShapeParts DEF ThreadOK, Bumping
  <2> QED BY <2>1, <1>2, <1>3, <1>7, <1>11
          DEF SameLocals, Uncounted, Bumping, Slot, NodesStay
<1>12. Counting(n, b)' = IF Ahead THEN Counting(n, b) \cup {t}
                         ELSE Counting(n, b)
  BY <1>10, <1>11 DEF Counting
<1>13. t \notin Counting(n, b)
  BY <1>10 DEF Counting
<1>14. LeavesBelow(n, b)' = IF Ahead THEN LeavesBelow(n, b) \cup {a}
                            ELSE LeavesBelow(n, b)
  <2>1. Leaves' = Leaves \cup {a}
    BY <1>2 DEF Leaves, IsLeaf, NodesStay
  <2>2. \A x \in Leaves : /\ Above(n, x)' <=> Above(n, x)
                          /\ Slot(n, pfx[x])' = Slot(n, pfx[x])
    BY <1>2, <1>7 DEF Above, Slot, Leaves, NodesStay
  <2>3. ASSUME NEW x \in Leaves'
        PROVE  Above(n, x)' /\ Slot(n, pfx[x])' = b <=>
                   \/ x \in LeavesBelow(n, b)
                   \/ x = a /\ Ahead
    <3>1. CASE x \in Leaves
      <4>1. x # a
        BY <1>1, <3>1 DEF Leaves
      <4> QED BY <3>1, <4>1, <2>2 DEF LeavesBelow
    <3>2. CASE x = a
      <4>1. a \notin LeavesBelow(n, b)
        BY <1>1 DEF LeavesBelow, Leaves
      <4>2. Above(n, a)' <=> IsPrefixOf(pfx[n], len[n], key[t], KeyLen)
        BY <1>2, <1>7 DEF Above
      <4>3. Slot(n, pfx[a])' = Slot(n, key[t])
        BY <1>2, <1>7 DEF Slot
      <4> QED BY <3>2, <4>1, <4>2, <4>3
    <3> QED BY <2>1, <2>3, <3>1, <3>2
  <2>4. LeavesBelow(n, b) \subseteq Leaves
    BY DEF LeavesBelow
  <2>5. LeavesBelow(n, b)' = {x \in Leaves' : Above(n, x)' /\ Slot(n, pfx[x])' = b}
    BY DEF LeavesBelow
  <2> HIDE DEF Ahead
  <2> QED BY <2>1, <2>3, <2>4, <2>5
<1>15. a \notin LeavesBelow(n, b)
  BY <1>1 DEF LeavesBelow, Leaves
<1> HIDE DEF Ahead
<1>16. CASE Ahead
  <2>1. /\ Cardinality(Counting(n, b)') = Cardinality(Counting(n, b)) + 1
        /\ Cardinality(LeavesBelow(n, b)') = Cardinality(LeavesBelow(n, b)) + 1
    BY <1>4, <1>12, <1>13, <1>14, <1>15, <1>16, FiniteCounts, FS_AddElement
  <2> QED BY <1>4, <1>8, <1>9, <2>1, FiniteCounts DEF SizeOK
<1>17. CASE ~Ahead
  BY <1>8, <1>9, <1>12, <1>14, <1>17 DEF SizeOK
<1> QED BY <1>16, <1>17

\* A node a is put between n and its child c: what lies below the slot of n
\* lies below a, in the slot of c.
LEMMA BelowSplit ==
    ASSUME TypeOK, TreeOK, NEW n \in live, ~IsLeaf(n), NEW k \in Key,
           IsPrefixOf(pfx[n], len[n], k, KeyLen),
           At(n, k).ptr # NULL, NEW j \in PrefixLen, NEW p \in Key,
           len[n] < j, j < len[At(n, k).ptr],
           IsPrefixOf(p, j, k, KeyLen),
           IsPrefixOf(p, j, pfx[At(n, k).ptr], len[At(n, k).ptr]),
           NEW x \in Leaves
    PROVE  /\ Above(n, x) /\ Slot(n, pfx[x]) = Slot(n, k)
                <=> IsPrefixOf(p, j, pfx[x], len[x])
           /\ IsPrefixOf(p, j, pfx[x], len[x])
                => BranchBits(pfx[x], j) = BranchBits(pfx[At(n, k).ptr], j)
<1> DEFINE c == At(n, k).ptr
<1>1. /\ len[n] \in PrefixLen /\ KeyLen \in PrefixLen /\ len[n] < KeyLen
      /\ c \in live /\ len[c] \in PrefixLen /\ x \in live /\ len[x] = KeyLen
  BY WordFacts, ZeroKeyType DEF TypeOK, Leaves, IsLeaf
<1>2. ASSUME Above(n, x), Slot(n, pfx[x]) = Slot(n, k)
      PROVE  /\ IsPrefixOf(p, j, pfx[x], len[x])
             /\ BranchBits(pfx[x], j) = BranchBits(pfx[c], j)
  <2>1. Above(c, x)
    BY <1>1, <1>2 DEF TreeOK, PathsComplete, At
  <2>2. IsPrefixOf(pfx[c], len[c], pfx[x], len[x])
    BY <2>1 DEF Above
  <2> HIDE DEF c
  <2>3. IsPrefixOf(p, j, pfx[x], len[x])
    BY <2>2, <1>1, PrefixTrans DEF c
  <2>4. BranchBits(pfx[c], j) = BranchBits(pfx[x], j)
    BY <2>2, <1>1, PrefixDigit DEF c
  <2> QED BY <2>3, <2>4
<1>3. ASSUME IsPrefixOf(p, j, pfx[x], len[x])
      PROVE  Above(n, x) /\ Slot(n, pfx[x]) = Slot(n, k)
  <2>1. len[n] <= j
    BY <1>1 DEF PrefixLen
  <2>2. IsPrefixOf(pfx[n], len[n], p, j)
    BY <1>1, <2>1, PrefixCompare
  <2>3. IsPrefixOf(pfx[n], len[n], pfx[x], len[x])
    BY <1>1, <1>3, <2>2, PrefixTrans
  <2>4. BranchBits(p, len[n]) = BranchBits(pfx[x], len[n])
    BY <1>1, <1>3, PrefixDigit
  <2>5. BranchBits(p, len[n]) = BranchBits(k, len[n])
    BY <1>1, PrefixDigit
  <2> QED BY <2>3, <2>4, <2>5 DEF Above, Slot
<1> QED BY <1>2, <1>3

LEMMA InsertSplitSizes ==
    ASSUME ShapeInv, SizeInv, NEW t \in Threads, InsertSplit(t)
    PROVE  SizeInv'
<1>0. PICK c, j, p, a, m, s, d :
        /\ c = exp[t].ptr /\ j = JoinLen(c, key[t]) /\ p = Truncate(key[t], j)
        /\ a = SplitAddr(c, key[t]) /\ m = cur[t] /\ s = Slot(m, key[t])
        /\ d = BranchBits(pfx[c], j)
  OBVIOUS
<1>1. /\ TypeOK /\ TreeOK /\ pc[t] = "ins_cas" /\ m \in live /\ ~IsLeaf(m)
      /\ key[t] \in Key /\ s \in Branch
      /\ IsPrefixOf(pfx[m], len[m], key[t], KeyLen)
      /\ word[m][s] = exp[t] /\ c # NULL /\ c \in live
      /\ j \in PrefixLen /\ j < len[c] /\ j < KeyLen
      /\ p \in Key /\ d \in Branch /\ a \notin live
  BY <1>0, SplitFacts
<1>2. /\ live' = live \cup {a} /\ NodesStay
      /\ pfx'[a] = p /\ len'[a] = j
      /\ \A e \in Branch : word'[a][e] = IF e = d THEN exp[t] ELSE EmptyWord
      /\ \A x \in live, e \in Branch :
            word'[x][e] = IF x = m /\ e = s THEN Word(a, exp[t].sz)
                          ELSE word[x][e]
  BY <1>0, SplitFacts
<1>3. /\ \A u \in Threads \ {t} : SameLocals(u)
      /\ pc'[t] = "ins" /\ key' = key
  BY <1>0, SplitFacts
<1>4. /\ IsFiniteSet(live)
      /\ \A n \in live, b \in Branch : ~IsLeaf(n) => SizeOK(n, b)
  BY SizeParts
<1>5. IsFiniteSet(live')
  BY <1>2, <1>4, FS_AddElement
<1>6. /\ len[m] < j /\ IsPrefixOf(p, j, key[t], KeyLen)
      /\ IsPrefixOf(p, j, pfx[c], len[c])
  BY <1>0, SplitShape
<1>7. At(m, key[t]).ptr = c
  BY <1>0, <1>1 DEF At
<1>8. /\ Leaves' = Leaves
      /\ \A x \in Leaves : x \in live /\ pfx'[x] = pfx[x] /\ len'[x] = len[x]
  <2>1. len'[a] # KeyLen
    BY <1>1, <1>2, KeyLenAssumption
  <2> QED BY <1>2, <2>1 DEF Leaves, IsLeaf, NodesStay
<1>9. \A u \in Threads :
        /\ Bumping(u)' = Bumping(u)
        /\ Bumping(u) => /\ u # t /\ cur[u] \in live /\ cur'[u] = cur[u]
                         /\ len'[cur[u]] = len[cur[u]]
  <2>1. \A u \in Threads : Bumping(u) => cur[u] \in live
    BY ShapeParts DEF ThreadOK, Bumping
  <2> QED BY <2>1, <1>1, <1>2, <1>3 DEF Bumping, SameLocals, NodesStay
<1>10. ASSUME NEW n \in live, NEW b \in Branch, ~IsLeaf(n)
       PROVE  SizeOK(n, b)'
  <2>1. SizeOK(n, b) /\ pfx'[n] = pfx[n] /\ len'[n] = len[n]
    BY <1>2, <1>4, <1>10 DEF NodesStay
  <2>2. word'[n][b].sz = word[n][b].sz
    BY <1>1, <1>2, <1>10 DEF Word
  <2>3. Counting(n, b)' = Counting(n, b)
    BY <2>1, <1>3, <1>9 DEF Counting, Uncounted, Slot
  <2>4. LeavesBelow(n, b)' = LeavesBelow(n, b)
    BY <2>1, <1>8 DEF LeavesBelow, Above, Slot
  <2> QED BY <2>1, <2>2, <2>3, <2>4 DEF SizeOK
\* A leaf below the new node is below the slot of m, and towards c.
<1>11. ASSUME NEW x \in Leaves
       PROVE  /\ Above(a, x)' <=> Above(m, x) /\ Slot(m, pfx[x]) = s
              /\ Above(a, x)' => Slot(a, pfx[x])' = d
  <2>1. /\ Above(a, x)' <=> IsPrefixOf(p, j, pfx[x], len[x])
        /\ Slot(a, pfx[x])' = BranchBits(pfx[x], j)
    BY <1>2, <1>8 DEF Above, Slot
  <2>2. /\ Above(m, x) /\ Slot(m, pfx[x]) = Slot(m, key[t])
             <=> IsPrefixOf(p, j, pfx[x], len[x])
        /\ IsPrefixOf(p, j, pfx[x], len[x])
             => BranchBits(pfx[x], j) = BranchBits(pfx[c], j)
    BY <1>1, <1>6, <1>7, BelowSplit
  <2> QED BY <1>0, <2>1, <2>2
<1>12. LeavesBelow(a, d)' = LeavesBelow(m, s)
  BY <1>8, <1>11 DEF LeavesBelow
<1>13. ASSUME NEW e \in Branch, e # d
       PROVE  LeavesBelow(a, e)' = {}
  BY <1>8, <1>11, <1>13 DEF LeavesBelow
\* The same for the leaves that are still to be counted.
<1>14. ASSUME NEW u \in Threads, Bumping(u), NEW e \in Branch
       PROVE  Uncounted(u, a, e)' <=> e = d /\ Uncounted(u, m, s)
  <2>1. PICK x \in Leaves : pfx[x] = key[u]
    BY <1>14, ShapeParts DEF ThreadOK
  <2>2. /\ key'[u] = key[u] /\ len[x] = KeyLen /\ cur[u] \in live
        /\ cur'[u] = cur[u] /\ len'[cur[u]] = len[cur[u]] /\ Bumping(u)'
        /\ len[m] \in PrefixLen /\ len[cur[u]] \in PrefixLen
        /\ len[c] \in PrefixLen /\ KeyLen \in PrefixLen
    BY <1>1, <1>3, <1>9, <1>14, <2>1, ZeroKeyType DEF Leaves, IsLeaf, TypeOK
  <2>3. IsPrefixOf(pfx[cur[u]], len[cur[u]], key[u], KeyLen)
    BY <1>14, ShapeParts DEF ThreadOK, Bumping
  <2>4. Uncounted(u, a, e)' <=>
          len[cur[u]] <= j /\ Above(a, x)' /\ Slot(a, pfx[x])' = e
    BY <1>2, <1>8, <2>1, <2>2 DEF Uncounted, Above, Slot
  <2>5. Uncounted(u, m, s) <=>
          len[cur[u]] <= len[m] /\ Above(m, x) /\ Slot(m, pfx[x]) = s
    BY <1>14, <2>1, <2>2 DEF Uncounted, Above
  <2>6. ASSUME Above(m, x), Slot(m, pfx[x]) = s, len[cur[u]] <= j
        PROVE  len[cur[u]] <= len[m]
    <3> SUFFICES ASSUME ~(len[cur[u]] <= len[m]) PROVE FALSE
      OBVIOUS
    <3>1. /\ len[m] <= len[cur[u]] /\ len[cur[u]] < len[c]
          /\ len[cur[u]] # len[m]
      BY <1>1, <2>2, <2>6 DEF PrefixLen
    <3>2. /\ IsPrefixOf(pfx[m], len[m], key[u], KeyLen)
          /\ At(m, key[u]) = At(m, key[t]) /\ key[u] \in Key
      BY <1>0, <1>1, <2>1, <2>2, <2>6 DEF Above, At, TypeOK
    <3>3. cur[u] = m
      BY <1>1, <1>7, <2>2, <2>3, <3>1, <3>2, NothingBetween
    <3> QED BY <3>1, <3>3
  <2>7. len[cur[u]] <= len[m] => len[cur[u]] <= j
    BY <1>1, <1>6, <2>2 DEF PrefixLen
  <2> QED BY <1>11, <2>4, <2>5, <2>6, <2>7
<1>15. Counting(a, d)' = Counting(m, s)
  BY <1>1, <1>9, <1>14 DEF Counting, Uncounted
<1>16. ASSUME NEW e \in Branch, e # d
       PROVE  Counting(a, e)' = {}
  BY <1>9, <1>14, <1>16 DEF Counting, Uncounted
<1>17. ASSUME NEW e \in Branch
       PROVE  SizeOK(a, e)'
  <2>1. CASE e = d
    <3>1. SizeOK(m, s) /\ word'[a][e].sz = word[m][s].sz
      BY <1>1, <1>2, <1>4, <2>1
    <3> QED BY <3>1, <2>1, <1>12, <1>15 DEF SizeOK
  <2>2. CASE e # d
    <3>1. word'[a][e].sz = 0
      BY <1>2, <2>2, EmptyWordType
    <3> QED BY <3>1, <2>2, <1>13, <1>16, FS_EmptySet DEF SizeOK
  <2> QED BY <2>1, <2>2
<1>18. \A n \in live', b \in Branch : ~IsLeaf(n)' => SizeOK(n, b)'
  <2> SUFFICES ASSUME NEW n \in live', NEW b \in Branch, ~IsLeaf(n)'
               PROVE  SizeOK(n, b)'
    OBVIOUS
  <2>1. CASE n \in live
    <3>1. ~IsLeaf(n)
      BY <1>2, <2>1 DEF IsLeaf, NodesStay
    <3> QED BY <3>1, <2>1, <1>10
  <2>2. CASE n = a
    BY <2>2, <1>17
  <2> QED BY <2>1, <2>2, <1>2
<1> QED BY <1>5, <1>18, SizePartsThen

-----------------------------------------------------------------------------
(* The inductive invariant of the sizes *)

LEMMA OnlyRootSizes == OnlyRoot /\ AllIdle => SizeInv
<1> SUFFICES ASSUME OnlyRoot, AllIdle PROVE SizeInv
  OBVIOUS
<1>1. live = {Root} /\ Leaves = {} /\ Root \in Addr
  BY OnlyRootShape, AddrAssumption DEF OnlyRoot
<1>2. IsFiniteSet(live)
  BY <1>1, FS_Singleton
<1>3. ASSUME NEW n \in live, NEW b \in Branch
      PROVE  SizeOK(n, b)
  <2>1. LeavesBelow(n, b) = {} /\ Counting(n, b) = {}
    BY <1>1 DEF LeavesBelow, Counting, Uncounted, Bumping, AllIdle
  <2>2. word[n][b].sz = 0
    BY <1>1, EmptyWordType DEF OnlyRoot
  <2> QED BY <2>1, <2>2, FS_EmptySet DEF SizeOK
<1> QED BY <1>2, <1>3, SizeParts

LEMMA SameSizes ==
    ASSUME SizeInv, UNCHANGED <<tree, threads>>
    PROVE  SizeInv'
<1>1. UNCHANGED <<live, pfx, len, word>> /\ UNCHANGED <<pc, key, cur>>
  BY DEF tree, threads
<1>2. \A n \in live, b \in Branch : SizeOK(n, b)' = SizeOK(n, b)
  BY <1>1 DEF SizeOK, Counting, LeavesBelow, Uncounted, Bumping, Leaves, Above,
              Slot, IsLeaf
<1> QED BY <1>1, <1>2, SizeParts, SizePartsThen DEF IsLeaf

LEMMA NextSizes == ShapeInv /\ SizeInv /\ [Next]_vars => SizeInv'
<1> SUFFICES ASSUME ShapeInv, SizeInv, [Next]_vars PROVE SizeInv'
  OBVIOUS
<1>1. CASE \E t \in Threads : Start(t) \/ Proceed(t)
  BY <1>1, ThreadSizes, BumpSetSizes, InsertAttachSizes, InsertSplitSizes
     DEF Proceed
<1>2. CASE HashStart \/ HashStep
  BY <1>2, SameSizes DEF HashStart, HashStep, HashNode, HashSerial
<1>3. CASE Clear
  <2>1. OnlyRoot' /\ AllIdle'
    BY <1>3 DEF Clear, OnlyRoot, AllIdle, threads
  <2>2. OnlyRoot' /\ AllIdle' => SizeInv'
    BY OnlyRootSizes, PTL
  <2> QED BY <2>1, <2>2
<1>4. CASE UNCHANGED vars
  BY <1>4, SameSizes DEF vars
<1> QED BY <1>1, <1>2, <1>3, <1>4 DEF Next

\* The size in a word and the bump_size calls that are still going to pass
\* there add up to the keys below, at every moment: neither a split that
\* moves the word while threads count nor a concurrent increment loses or
\* repeats one.
THEOREM SizesExact == Spec => []SizesAccounted
<1>1. Init => SizeInv
  BY OnlyRootSizes DEF Init, OnlyRoot, AllIdle
<1>2. SizeInv => SizesAccounted
  BY DEF SizeInv
<1> QED BY <1>1, <1>2, NextSizes, ShapeInductive, PTL DEF Spec

-----------------------------------------------------------------------------
(* Digests *)

\* A step that leaves the tree and the digests alone.
LEMMA DigestQuiet ==
    ASSUME DigestsSettled, UNCHANGED <<tree, hashes>>,
           hashed => \A u \in Threads : pc'[u] \in {"idle", "get"}
    PROVE  DigestsSettled'
<1>1. UNCHANGED <<live, pfx, len, word, val, hash, phase, hashed>>
  BY DEF tree, hashes
<1>2. /\ DOMAIN hash' = Addr
      /\ hashed' => /\ phase' = "batch" /\ hash'[Root] # NoHash
                    /\ \A u \in Threads : pc'[u] \in {"idle", "get"}
      /\ phase' = "batch" /\ ~hashed' => \A n \in live' : hash'[n] = NoHash
  BY <1>1 DEF DigestsSettled
<1>3. \A n : HashOf(n)' = HashOf(n) /\ Kids(n)' = Kids(n) /\ IsLeaf(n)' = IsLeaf(n)
  BY <1>1 DEF HashOf, Digest, Kids, IsLeaf
<1>4. ASSUME NEW n \in live', hash'[n] # NoHash
      PROVE  /\ hash'[n] = HashOf(n)'
             /\ ~IsLeaf(n)' => \A b \in Kids(n)' : hash'[word'[n][b].ptr] # NoHash
  BY <1>1, <1>3, <1>4 DEF DigestsSettled
<1> QED BY <1>2, <1>4 DEF DigestsSettled, NoHash

\* A step before hash has begun.
LEMMA DigestNone ==
    ASSUME phase' = "batch", ~hashed', DOMAIN hash' = Addr,
           \A n \in live' : hash'[n] = NoHash
    PROVE  DigestsSettled'
BY DEF DigestsSettled, NoHash

\* Nobody inserts once the trie is hashed.
LEMMA InsertsBefore ==
    ASSUME ShapeInv, DigestsSettled, NEW t \in Threads, Inserting(t) \/ Bumping(t)
    PROVE  /\ phase = "batch" /\ ~hashed /\ \A n \in live : hash[n] = NoHash
           /\ DOMAIN hash = Addr
<1>1. pc[t] \notin {"idle", "get"} /\ pc[t] # "idle"
  BY DEF Inserting, Bumping
<1>2. phase = "batch"
  BY <1>1, Busy
<1> QED BY <1>1, <1>2 DEF DigestsSettled

LEMMA PublishDigests ==
    ASSUME ShapeInv, DigestsSettled, NEW t \in Threads, Inserting(t),
           NEW n, NEW b, NEW w, NEW p, NEW l, NEW kids, NEW v,
           Publish(n, b, w, p, l, kids, v), w.ptr \in Addr
    PROVE  DigestsSettled'
<1>1. /\ phase = "batch" /\ ~hashed /\ DOMAIN hash = Addr
      /\ \A x \in live : hash[x] = NoHash
  BY InsertsBefore
<1>2. /\ live' = live \cup {w.ptr} /\ hash' = [hash EXCEPT ![w.ptr] = NoHash]
      /\ phase' = phase /\ hashed' = hashed
  BY DEF Publish
<1>3. DOMAIN hash' = Addr /\ \A x \in live' : hash'[x] = NoHash
  BY <1>1, <1>2
<1> QED BY <1>1, <1>2, <1>3, DigestNone

LEMMA ProceedDigests ==
    ASSUME ShapeInv, DigestsSettled, NEW t \in Threads, Proceed(t)
    PROVE  DigestsSettled'
<1>0. TypeOK /\ pc \in [Threads -> {"idle", "ins", "ins_cas", "bump", "bump_cas", "get"}]
  BY DEF ShapeInv, TypeOK
<1>1. CASE \/ InsertValue(t) \/ InsertLoad(t) \/ InsertRetry(t) \/ BumpReturn(t)
           \/ BumpLoad(t) \/ BumpSet(t) \/ BumpRetry(t)
  <2>1. Inserting(t) \/ Bumping(t)
    BY <1>1 DEF InsertValue, InsertLoad, InsertRetry, BumpReturn, BumpLoad, BumpSet,
                BumpRetry, Inserting, Bumping
  <2>2. /\ phase = "batch" /\ ~hashed /\ \A n \in live : hash[n] = NoHash
        /\ DOMAIN hash = Addr
    BY <2>1, InsertsBefore
  <2>3. UNCHANGED <<live, hash, phase, hashed>>
    BY <1>1 DEF InsertValue, InsertLoad, InsertRetry, BumpReturn, BumpLoad, BumpSet,
                BumpRetry, tree, hashes
  <2> QED BY <2>2, <2>3, DigestNone
<1>2. CASE InsertAttach(t)
  <2>1. Inserting(t) /\ PublishLeaf(cur[t], key[t], arg[t]) /\ LeafAddr(key[t]) \in Addr
    BY <1>2, AttachFacts DEF InsertAttach, Inserting
  <2>2. Word(LeafAddr(key[t]), 0).ptr = LeafAddr(key[t])
    BY DEF Word
  <2> QED BY <2>1, <2>2, PublishDigests DEF PublishLeaf
<1>3. CASE InsertSplit(t)
  <2>1. PICK a, z, p, l, kids :
           /\ a = SplitAddr(exp[t].ptr, key[t])
           /\ Publish(cur[t], Slot(cur[t], key[t]), Word(a, z), p, l, kids, NoValue)
    BY <1>3 DEF InsertSplit, PublishSplit
  <2>2. Inserting(t) /\ a \in Addr
    BY <1>3, <2>1, SplitFacts DEF Inserting
  <2>3. Word(a, z).ptr = a
    BY DEF Word
  <2> QED BY <2>1, <2>2, <2>3, PublishDigests
<1>4. CASE GetLeaf(t) \/ GetLoad(t)
  <2>1. UNCHANGED <<tree, hashes>> /\ (pc' = pc \/ pc' = [pc EXCEPT ![t] = "idle"])
    BY <1>4 DEF GetLeaf, GetLoad, Return
  <2>2. hashed => \A u \in Threads : pc'[u] \in {"idle", "get"}
    BY <1>0, <2>1 DEF DigestsSettled
  <2> QED BY <2>1, <2>2, DigestQuiet
<1> QED BY <1>1, <1>2, <1>3, <1>4 DEF Proceed

LEMMA StartDigests ==
    ASSUME ShapeInv, DigestsSettled, NEW t \in Threads, Start(t)
    PROVE  DigestsSettled'
<1>0. pc \in [Threads -> {"idle", "ins", "ins_cas", "bump", "bump_cas", "get"}]
  BY DEF ShapeInv, TypeOK
<1>1. /\ UNCHANGED <<tree, hashes>>
      /\ \/ ~hashed
         \/ pc' = [pc EXCEPT ![t] = "get"]
  BY DEF Start, StartInsert, StartGet, Call
<1>2. hashed => \A u \in Threads : pc'[u] \in {"idle", "get"}
  BY <1>0, <1>1 DEF DigestsSettled
<1> QED BY <1>1, <1>2, DigestQuiet

LEMMA HashOfDistinct == Distinct(NoHash)
<1> SUFFICES ASSUME NEW p, NEW l, NEW d, NoHash = [pfx |-> p, len |-> l, body |-> d]
             PROVE  FALSE
  BY DEF Distinct
<1>1. DOMAIN [pfx |-> p, len |-> l, body |-> d] = {"pfx", "len", "body"}
  OBVIOUS
<1>2. DOMAIN NoHash = {"body"}
  BY DEF NoHash
<1>3. "pfx" \in DOMAIN NoHash
  BY <1>1
<1> QED BY <1>2, <1>3

\* The digest of a node whose children are all hashed.
LEMMA HashNodeDigests ==
    ASSUME ShapeInv, DigestsSettled, NEW n \in Addr, HashNode(n)
    PROVE  DigestsSettled'
<1>1. /\ TypeOK /\ TreeOK /\ phase = "hash" /\ n \in live /\ n \in Addr /\ hash[n] = NoHash
      /\ hash' = [hash EXCEPT ![n] = HashOf(n)] /\ DOMAIN hash = Addr /\ live \subseteq Addr
      /\ IsLeaf(n) \/ \A b \in Kids(n) : hash[word[n][b].ptr] # NoHash
  BY DEF ShapeInv, TypeOK, HashNode, Hashable, DigestsSettled
<1>2. UNCHANGED <<live, pfx, len, word, val, phase, hashed>>
  BY DEF HashNode, tree, threads
<1>3. /\ \A m : Kids(m)' = Kids(m) /\ IsLeaf(m)' = IsLeaf(m)
      /\ \A m \in Addr : hash'[m] = IF m = n THEN HashOf(n) ELSE hash[m]
      /\ DOMAIN hash' = Addr
  BY <1>1, <1>2 DEF Kids, IsLeaf
<1>4. HashOf(n) # NoHash
  <2>1. PICK p, l, d : HashOf(n) = [pfx |-> p, len |-> l, body |-> d]
    BY DEF HashOf, Digest
  <2> QED BY <2>1, HashOfDistinct DEF Distinct
<1>5. ASSUME NEW m \in live, ~IsLeaf(m), NEW b \in Kids(m)
      PROVE  word[m][b].ptr \in live /\ word[m][b].ptr # m
  <2>1. b \in Branch /\ word[m][b].ptr # NULL
    BY <1>5 DEF Kids
  <2>2. word[m][b].ptr \in live /\ len[m] < len[word[m][b].ptr]
    BY <1>1, <1>5, <2>1 DEF TreeOK, EdgesDescend
  <2>3. len[m] \in Nat
    BY <1>1, KeyLenAssumption DEF TypeOK, PrefixLen
  <2> QED BY <2>2, <2>3
<1>6. ASSUME NEW m \in live, ~IsLeaf(m), \A b \in Kids(m) : hash[word[m][b].ptr] # NoHash,
             NEW b \in Kids(m)
      PROVE  hash'[word[m][b].ptr] = hash[word[m][b].ptr]
  <2>1. word[m][b].ptr \in live /\ word[m][b].ptr # n
    BY <1>1, <1>5, <1>6
  <2> QED BY <1>1, <1>3, <2>1
<1>7. ASSUME NEW m \in live, IsLeaf(m) \/ \A b \in Kids(m) : hash[word[m][b].ptr] # NoHash
      PROVE  HashOf(m)' = HashOf(m)
  <2>1. CASE IsLeaf(m)
    BY <2>1, <1>2, <1>3 DEF HashOf, Digest
  <2>2. CASE ~IsLeaf(m)
    <3>1. \A b \in Branch : (IF b \in Kids(m) THEN hash'[word[m][b].ptr] ELSE NoHash)
                            = (IF b \in Kids(m) THEN hash[word[m][b].ptr] ELSE NoHash)
      BY <2>2, <1>6, <1>7
    <3>2. [b \in Branch |-> IF b \in Kids(m) THEN hash'[word[m][b].ptr] ELSE NoHash]
          = [b \in Branch |-> IF b \in Kids(m) THEN hash[word[m][b].ptr] ELSE NoHash]
      BY <3>1
    <3>3. NoHash' = NoHash
      BY DEF NoHash
    <3>4. HashOf(m)' = [pfx |-> pfx[m], len |-> len[m],
              body |-> [b \in Branch |-> IF b \in Kids(m) THEN hash'[word[m][b].ptr] ELSE NoHash]]
      BY <1>2, <1>3, <2>2, <3>3 DEF HashOf, Digest
    <3>5. HashOf(m) = [pfx |-> pfx[m], len |-> len[m],
              body |-> [b \in Branch |-> IF b \in Kids(m) THEN hash[word[m][b].ptr] ELSE NoHash]]
      BY <2>2 DEF HashOf, Digest
    <3> QED BY <3>2, <3>4, <3>5
  <2> QED BY <2>1, <2>2
<1>8. ASSUME NEW m \in live', hash'[m] # NoHash
      PROVE  /\ hash'[m] = HashOf(m)'
             /\ ~IsLeaf(m)' => \A b \in Kids(m)' : hash'[word'[m][b].ptr] # NoHash
  <2>1. m \in live /\ m \in Addr
    BY <1>1, <1>2
  <2>2. /\ IsLeaf(m) \/ \A b \in Kids(m) : hash[word[m][b].ptr] # NoHash
        /\ hash'[m] = HashOf(m)
    BY <1>1, <1>3, <1>8, <2>1 DEF DigestsSettled
  <2>3. HashOf(m)' = HashOf(m)
    BY <2>1, <2>2, <1>7
  <2>4. ~IsLeaf(m) => \A b \in Kids(m) : hash'[word[m][b].ptr] # NoHash
    BY <2>1, <2>2, <1>6
  <2> QED BY <1>2, <1>3, <2>2, <2>3, <2>4
<1>9. /\ ~hashed' /\ phase' = "hash"
  BY <1>1, <1>2 DEF DigestsSettled
<1> QED BY <1>3, <1>8, <1>9 DEF DigestsSettled, NoHash

LEMMA NextDigests == ShapeInv /\ DigestsSettled /\ [Next]_vars => DigestsSettled'
<1> SUFFICES ASSUME ShapeInv, DigestsSettled, [Next]_vars PROVE DigestsSettled'
  OBVIOUS
<1>0. TypeOK /\ RootStays /\ Root \in live
  BY DEF ShapeInv, RootStays
<1>1. CASE \E t \in Threads : Start(t) \/ Proceed(t)
  BY <1>1, StartDigests, ProceedDigests
<1>2. CASE HashStart
  <2>1. /\ UNCHANGED <<live, pfx, len, word, val, hash, hashed>> /\ phase' = "hash"
        /\ ~hashed /\ \A n \in live : hash[n] = NoHash
    BY <1>2 DEF HashStart, tree, DigestsSettled
  <2> QED BY <2>1 DEF DigestsSettled, NoHash
<1>3. CASE \E n \in Addr : HashNode(n)
  BY <1>3, HashNodeDigests
<1>4. CASE HashSerial
  <2>1. /\ UNCHANGED <<live, pfx, len, word, val, hash>> /\ pc' = pc
        /\ phase = "hash" /\ phase' = "batch" /\ hashed' = TRUE /\ hash[Root] # NoHash
    BY <1>4 DEF HashSerial, tree, threads
  <2>2. \A u \in Threads : pc'[u] \in {"idle", "get"}
    BY <2>1, <1>0 DEF RootStays, AllIdle
  <2>3. \A n : HashOf(n)' = HashOf(n) /\ Kids(n)' = Kids(n) /\ IsLeaf(n)' = IsLeaf(n)
    BY <2>1 DEF HashOf, Digest, Kids, IsLeaf
  <2>4. ASSUME NEW n \in live', hash'[n] # NoHash
        PROVE  /\ hash'[n] = HashOf(n)'
               /\ ~IsLeaf(n)' => \A b \in Kids(n)' : hash'[word'[n][b].ptr] # NoHash
    BY <2>1, <2>3, <2>4 DEF DigestsSettled
  <2>5. DOMAIN hash' = Addr
    BY <2>1 DEF DigestsSettled
  <2> QED BY <2>1, <2>2, <2>4, <2>5 DEF DigestsSettled, NoHash
<1>5. CASE Clear
  <2>1. /\ phase' = "batch" /\ ~hashed' /\ hash' = [a \in Addr |-> NoHash] /\ live' = {Root}
    BY <1>5 DEF Clear
  <2>2. DOMAIN hash' = Addr /\ \A n \in live' : hash'[n] = NoHash
    BY <2>1, AddrAssumption
  <2> QED BY <2>1, <2>2, DigestNone
<1>6. CASE UNCHANGED vars
  <2>1. UNCHANGED <<tree, hashes>> /\ pc' = pc
    BY <1>6 DEF vars, threads
  <2> QED BY <2>1, DigestQuiet DEF DigestsSettled
<1> QED BY <1>1, <1>2, <1>3, <1>4, <1>5, <1>6 DEF Next, HashStep

\* What NodesNamed says of a node.
Named(n) == pfx[n] = Truncate(pfx[n], len[n]) /\ (IsLeaf(n) => pfx[n] \in Keys)

LEMMA NamedKept ==
    ASSUME NodesNamed, \A n \in live' : n \in live \/ Named(n)',
           \A n \in live : pfx'[n] = pfx[n] /\ len'[n] = len[n],
           \A u \in Threads : pc'[u] # "idle" => key'[u] \in Keys
    PROVE  NodesNamed'
<1>1. ASSUME NEW n \in live' PROVE Named(n)'
  <2>1. CASE n \in live
    BY <2>1 DEF NodesNamed, Named, Truncate, IsLeaf
  <2> QED BY <2>1
<1> QED BY <1>1 DEF NodesNamed, Named

LEMMA TruncateTwice ==
    ASSUME NEW k, NEW l
    PROVE  Truncate(Truncate(k, l), l) = Truncate(k, l)
BY DEF Truncate

LEMMA ProceedNamed ==
    ASSUME ShapeInv, NodesNamed, NEW t \in Threads, Proceed(t)
    PROVE  NodesNamed'
<1>0. /\ TypeOK /\ pc \in [Threads -> {"idle", "ins", "ins_cas", "bump", "bump_cas", "get"}]
      /\ key \in [Threads -> Key]
  BY DEF ShapeInv, TypeOK
<1>1. pc[t] # "idle" /\ key[t] \in Keys
  <2>1. pc[t] # "idle"
    BY DEF Proceed, InsertValue, InsertLoad, InsertAttach, InsertSplit, InsertRetry,
           BumpReturn, BumpLoad, BumpSet, BumpRetry, GetLeaf, GetLoad
  <2> QED BY <2>1 DEF NodesNamed
<1>2. ASSUME \/ key' = key /\ (pc' = pc \/ \E x : x # "idle" /\ pc' = [pc EXCEPT ![t] = x])
             \/ \E z : key' = [key EXCEPT ![t] = z] /\ pc' = [pc EXCEPT ![t] = "idle"]
      PROVE  \A u \in Threads : pc'[u] # "idle" => key'[u] \in Keys
  <2> SUFFICES ASSUME NEW u \in Threads, pc'[u] # "idle" PROVE key'[u] \in Keys
    OBVIOUS
  <2>1. CASE u = t
    BY <1>0, <1>1, <1>2, <2>1
  <2>2. CASE u # t
    <3>1. pc'[u] = pc[u] /\ key'[u] = key[u]
      BY <1>0, <1>2, <2>2
    <3> QED BY <3>1 DEF NodesNamed
  <2> QED BY <2>1, <2>2
<1>3. CASE InsertAttach(t)
  <2>1. PICK a : a = LeafAddr(key[t])
    OBVIOUS
  <2>2. /\ live' = live \cup {a} /\ NodesStay /\ key[t] \in Key
        /\ pfx'[a] = key[t] /\ len'[a] = KeyLen
    BY <1>3, <2>1, AttachFacts
  <2>3. Truncate(key[t], KeyLen) = key[t]
    BY <2>2, FullTruncate
  <2>4. Named(a)'
    BY <1>1, <2>2, <2>3 DEF Named, Truncate
  <2>5. \A u \in Threads : pc'[u] # "idle" => key'[u] \in Keys
    <3>1. key' = key /\ pc' = [pc EXCEPT ![t] = "bump"]
      BY <1>3 DEF InsertAttach
    <3> QED BY <3>1, <1>2
  <2> QED BY <2>2, <2>4, <2>5, NamedKept DEF NodesStay
<1>4. CASE InsertSplit(t)
  <2>1. PICK a, j : a = SplitAddr(exp[t].ptr, key[t]) /\ j = JoinLen(exp[t].ptr, key[t])
    OBVIOUS
  <2>2. /\ live' = live \cup {a} /\ NodesStay /\ j \in PrefixLen /\ j < KeyLen
        /\ pfx'[a] = Truncate(key[t], j) /\ len'[a] = j
    BY <1>4, <2>1, SplitFacts
  <2>3. Named(a)'
    <3>1. j # KeyLen
      BY <2>2, KeyLenAssumption DEF PrefixLen
    <3>2. Truncate(pfx'[a], len'[a]) = pfx'[a]
      BY <2>2, TruncateTwice
    <3> QED BY <2>2, <3>1, <3>2 DEF Named, IsLeaf, Truncate
  <2>4. \A u \in Threads : pc'[u] # "idle" => key'[u] \in Keys
    <3>1. key' = key /\ pc' = [pc EXCEPT ![t] = "ins"]
      BY <1>4 DEF InsertSplit
    <3> QED BY <3>1, <1>2
  <2> QED BY <2>2, <2>3, <2>4, NamedKept DEF NodesStay
<1>5. CASE \/ InsertValue(t) \/ InsertLoad(t) \/ InsertRetry(t) \/ BumpReturn(t)
           \/ BumpLoad(t) \/ BumpSet(t) \/ BumpRetry(t) \/ GetLeaf(t) \/ GetLoad(t)
  <2>1. UNCHANGED <<live, pfx, len>>
    BY <1>5 DEF InsertValue, InsertLoad, InsertRetry, BumpReturn, BumpLoad, BumpSet,
                BumpRetry, GetLeaf, GetLoad, tree
  <2>2. \/ key' = key /\ (pc' = pc \/ \E x : x # "idle" /\ pc' = [pc EXCEPT ![t] = x])
        \/ \E z : key' = [key EXCEPT ![t] = z] /\ pc' = [pc EXCEPT ![t] = "idle"]
    <3>1. CASE InsertValue(t) \/ BumpReturn(t) \/ GetLeaf(t)
      BY <3>1 DEF InsertValue, BumpReturn, GetLeaf, Return
    <3>2. CASE InsertLoad(t) \/ InsertRetry(t)
      BY <3>2 DEF InsertLoad, InsertRetry, Observe
    <3>3. CASE BumpLoad(t) \/ BumpSet(t) \/ BumpRetry(t)
      BY <3>3 DEF BumpLoad, BumpSet, BumpRetry
    <3>4. CASE GetLoad(t)
      BY <3>4 DEF GetLoad, Return
    <3> QED BY <1>5, <3>1, <3>2, <3>3, <3>4
  <2>3. \A u \in Threads : pc'[u] # "idle" => key'[u] \in Keys
    BY <2>2, <1>2
  <2>4. \A n \in live' : n \in live
    BY <2>1
  <2> QED BY <2>1, <2>3, <2>4, NamedKept
<1> QED BY <1>3, <1>4, <1>5 DEF Proceed

LEMMA NextNamed == ShapeInv /\ NodesNamed /\ [Next]_vars => NodesNamed'
<1> SUFFICES ASSUME ShapeInv, NodesNamed, [Next]_vars PROVE NodesNamed'
  OBVIOUS
<1>0. /\ pc \in [Threads -> {"idle", "ins", "ins_cas", "bump", "bump_cas", "get"}]
      /\ key \in [Threads -> Key]
  BY DEF ShapeInv, TypeOK
<1>1. ASSUME NEW t \in Threads, Start(t) PROVE NodesNamed'
  <2>1. /\ UNCHANGED <<live, pfx, len>>
        /\ \E k \in Keys : key' = [key EXCEPT ![t] = k]
        /\ \E x : pc' = [pc EXCEPT ![t] = x]
    <3>1. CASE \E p \in Inserts : StartInsert(t, p[1], p[2])
      <4>1. PICK p \in Inserts : StartInsert(t, p[1], p[2])
        BY <3>1
      <4>2. p[1] \in Keys
        BY ValueAssumption
      <4> QED BY <4>1, <4>2 DEF StartInsert, Call, tree
    <3>2. CASE \E k \in Keys : StartGet(t, k)
      BY <3>2 DEF StartGet, Call, tree
    <3> QED BY <1>1, <3>1, <3>2 DEF Start
  <2>2. PICK k, x : k \in Keys /\ key' = [key EXCEPT ![t] = k] /\ pc' = [pc EXCEPT ![t] = x]
    BY <2>1
  <2>3. ASSUME NEW u \in Threads, pc'[u] # "idle" PROVE key'[u] \in Keys
    <3>1. CASE u = t
      BY <1>0, <2>2, <3>1
    <3>2. CASE u # t
      <4>1. pc'[u] = pc[u] /\ key'[u] = key[u]
        BY <1>0, <2>2, <3>2
      <4> QED BY <2>3, <4>1 DEF NodesNamed
    <3> QED BY <3>1, <3>2
  <2>4. \A n \in live' : n \in live
    BY <2>1
  <2> QED BY <2>1, <2>3, <2>4, NamedKept
<1>2. ASSUME NEW t \in Threads, Proceed(t) PROVE NodesNamed'
  BY <1>2, ProceedNamed
<1>3. CASE HashStart \/ HashStep \/ UNCHANGED vars
  <2>1. UNCHANGED <<live, pfx, len, pc, key>>
    BY <1>3 DEF HashStart, HashStep, HashNode, HashSerial, vars, tree, threads
  <2>2. \A n \in live' : n \in live
    BY <2>1
  <2>3. \A u \in Threads : pc'[u] # "idle" => key'[u] \in Keys
    BY <2>1 DEF NodesNamed
  <2> QED BY <2>1, <2>2, <2>3, NamedKept
<1>4. CASE Clear
  <2>1. /\ live' = {Root} /\ pfx'[Root] = ZeroKey /\ len'[Root] = 0 /\ pc' = pc /\ AllIdle
    BY <1>4, AddrAssumption DEF Clear, threads
  <2>2. \A i \in 1 .. KeyLen : ~(i <= 0)
    BY KeyLenAssumption
  <2>3. Truncate(ZeroKey, 0) = ZeroKey
    BY <2>2 DEF Truncate, ZeroKey
  <2>4. Named(Root)'
    BY <2>1, <2>3, KeyLenAssumption DEF Named, IsLeaf, Truncate
  <2>5. \A u \in Threads : pc'[u] = "idle"
    BY <2>1 DEF AllIdle
  <2> QED BY <2>1, <2>4, <2>5 DEF NodesNamed, Named
<1> QED BY <1>1, <1>2, <1>3, <1>4 DEF Next

\* Digests are computed from settled children, of a tree that no longer
\* changes.
THEOREM DigestInductive == Spec => []DigestInv
<1>1. Init => DigestInv
  <2> SUFFICES ASSUME Init PROVE DigestsSettled /\ NodesNamed
    BY DEF DigestInv
  <2>1. /\ live = {Root} /\ pfx[Root] = ZeroKey /\ len[Root] = 0 /\ hash = [a \in Addr |-> NoHash]
        /\ phase = "batch" /\ ~hashed /\ \A t \in Threads : pc[t] = "idle"
    BY AddrAssumption DEF Init
  <2>2. \A i \in 1 .. KeyLen : ~(i <= 0)
    BY KeyLenAssumption
  <2>3. Truncate(ZeroKey, 0) = ZeroKey
    BY <2>2 DEF Truncate, ZeroKey
  <2>4. NodesNamed
    BY <2>1, <2>3, KeyLenAssumption DEF NodesNamed, IsLeaf
  <2>5. hash[Root] = NoHash
    BY <2>1, AddrAssumption
  <2>6. DigestsSettled
    BY <2>1, <2>5 DEF DigestsSettled
  <2> QED BY <2>4, <2>6
<1>2. ShapeInv /\ DigestInv /\ [Next]_vars => DigestInv'
  BY NextDigests, NextNamed DEF DigestInv
<1> QED BY <1>1, <1>2, ShapeInductive, PTL DEF Spec

\* Once the root has its digest, every node has the digest of what is below it.
LEMMA AllHashed ==
    ASSUME ShapeInv, DigestInv, hashed
    PROVE  \A n \in live : hash[n] # NoHash /\ hash[n] = HashOf(n)
<1>1. TypeOK /\ TreeOK /\ Root \in live /\ len[Root] = 0 /\ live \subseteq Addr
  BY DEF ShapeInv, RootStays, TypeOK
<1>2. TrieShape(live, pfx, len, Children, NULL) /\ NodesTyped(live, pfx, len)
  BY <1>1, TreeIsShape DEF NodesTyped, TypeOK
<1>3. hash[Root] # NoHash /\ DigestsSettled
  BY DEF DigestInv, DigestsSettled
<1> DEFINE S == {i \in Nat : \E n \in live : len[n] = i /\ hash[n] = NoHash}
<1>4. ASSUME NEW z \in live, hash[z] = NoHash PROVE FALSE
  <2>1. len[z] \in Nat
    BY <1>1, KeyLenAssumption DEF TypeOK, PrefixLen
  <2>2. S \in SUBSET Nat /\ S # {}
    BY <1>4, <2>1
  <2>3. PICK i \in S : \A j \in S : i <= j
    BY <2>2, LeastNat
  <2>4. PICK n \in live : len[n] = i /\ hash[n] = NoHash
    BY <2>3
  <2>5. IsPrefixOf(pfx[Root], len[Root], pfx[n], len[n]) /\ len[Root] < len[n]
    <3>1. len[n] \in Nat
      BY <1>1, KeyLenAssumption DEF TypeOK, PrefixLen
    <3>2. IsPrefixOf(pfx[Root], len[Root], pfx[n], len[n])
      BY <1>1, <3>1 DEF IsPrefixOf
    <3>3. len[n] # 0
      <4>1. ASSUME len[n] = 0 PROVE FALSE
        <5>1. n = Root
          BY <1>1, <1>2, <3>2, <4>1 DEF TrieShape, ShapeUnique
        <5> QED BY <5>1, <2>4, <1>3
      <4> QED BY <4>1
    <3> QED BY <1>1, <3>1, <3>2, <3>3
  <2>6. PICK p \in live, b \in Branch : Children[p][b] = n /\ n # NULL /\ len[p] < len[n]
    BY <1>1, <1>2, <2>5, ShapeHasParent
  <2>7. p \in Addr /\ ~IsLeaf(p) /\ word[p][b].ptr = n /\ b \in Kids(p)
    BY <1>1, <2>6 DEF Children, Kids
  <2>8. hash[p] = NoHash
    BY <1>3, <2>4, <2>7 DEF DigestsSettled
  <2>9. len[p] \in Nat
    BY <1>1, <2>7, KeyLenAssumption DEF TypeOK, PrefixLen
  <2>10. len[p] \in S
    BY <2>8, <2>9
  <2> HIDE DEF S
  <2>11. i <= len[p] /\ i \in Nat
    BY <2>2, <2>3, <2>10
  <2> QED BY <2>4, <2>6, <2>9, <2>11
<1>5. \A n \in live : hash[n] # NoHash
  BY <1>4
<1> QED BY <1>3, <1>5 DEF DigestsSettled

\* The map of the trie has the value of every leaf.
LEMMA LeafView ==
    ASSUME TypeOK, TreeOK, NodesNamed, NEW n \in live, IsLeaf(n)
    PROVE  /\ pfx[n] \in Keys /\ View[pfx[n]] = val[n] /\ val[n] \in Value
           /\ pfx[n] \in Active(View, NoValue)
<1>1. pfx[n] \in Keys /\ n \in Leaves /\ val[n] \in Value /\ live \subseteq Addr
  BY DEF NodesNamed, Leaves, TypeOK
<1>2. ASSUME NEW m \in Leaves, pfx[m] = pfx[n] PROVE m = n
  <2>1. m \in live /\ len[m] = KeyLen /\ len[n] = KeyLen
    BY DEF Leaves, IsLeaf
  <2>2. Above(m, n)
    BY <1>2, <2>1, KeyLenAssumption DEF Above, IsPrefixOf
  <2> QED BY <2>1, <2>2 DEF TreeOK, NoDuplicates
<1>3. PICK c : c = CHOOSE m \in Leaves : pfx[m] = pfx[n]
  OBVIOUS
<1>4. c \in Leaves /\ pfx[c] = pfx[n]
  BY <1>1, <1>3
<1>5. c = n
  BY <1>2, <1>4
<1>6. View[pfx[n]] = val[n]
  BY <1>1, <1>3, <1>4, <1>5 DEF View
<1>7. DOMAIN View = Keys
  BY DEF View
<1> QED BY <1>1, <1>6, <1>7, ValueAssumption DEF Active

\* Without threads that insert, a node below the root has two children.
LEMMA TwoSettled ==
    ASSUME ShapeInv, DigestInv, hashed, NEW n \in live, ~IsLeaf(n), n # Root
    PROVE  \E b, d \in Branch : b # d /\ word[n][b].ptr # NULL /\ word[n][d].ptr # NULL
<1>1. \A t \in Threads : ~Inserting(t)
  BY DEF DigestInv, DigestsSettled, Inserting
<1>2. PICK b \in Kids(n) : \E d \in Kids(n) : d # b
  BY <1>1 DEF ShapeInv, BranchesPending
<1> QED BY <1>2 DEF Kids

LEMMA HashOfParts ==
    ASSUME TypeOK, NEW n \in live, ~IsLeaf(n)
    PROVE  HashOf(n) = [pfx |-> pfx[n], len |-> len[n],
                        body |-> ChildHashes(Children, NULL, hash, NoHash, n)]
<1>1. n \in Addr /\ \A b \in Branch : Children[n][b] = word[n][b].ptr
  BY DEF TypeOK, Children
<1>2. \A b \in Branch : (IF b \in Kids(n) THEN hash[word[n][b].ptr] ELSE NoHash)
                        = (IF Children[n][b] = NULL THEN NoHash ELSE hash[Children[n][b]])
  BY <1>1 DEF Kids
<1>3. [b \in Branch |-> IF b \in Kids(n) THEN hash[word[n][b].ptr] ELSE NoHash]
      = [b \in Branch |-> IF Children[n][b] = NULL THEN NoHash ELSE hash[Children[n][b]]]
  BY <1>2
<1> QED BY <1>3 DEF HashOf, Digest, ChildHashes

\* The digest that hash returns depends only on the keys and values in the
\* trie: not on how insertions, splits and size updates were interleaved, nor
\* on the order in which the workers of hash visit the nodes.
THEOREM RootHashExact == Spec => []RootHashCanonical
<1>1. ASSUME ShapeInv, DigestInv, hashed
      PROVE  hash[Root] = CanonicalDigest(View, NoValue, NoHash)
  <2>1. TypeOK /\ TreeOK /\ Root \in live /\ len[Root] = 0 /\ live \subseteq Addr /\ NodesNamed
    BY <1>1 DEF ShapeInv, RootStays, TypeOK, DigestInv
  <2>2. TrieShape(live, pfx, len, Children, NULL) /\ NodesTyped(live, pfx, len)
    BY <2>1, TreeIsShape DEF NodesTyped, TypeOK
  <2>3. PICK A, D : A = Active(View, NoValue) /\ D = Digests(View, NoValue, NoHash)
    OBVIOUS
  <2>4. DOMAIN View = Keys /\ DOMAIN View \subseteq Key /\ Distinct(NoHash)
    BY KeysAssumption, HashOfDistinct DEF View
  <2>5. HasLeaves(live, pfx, len, A)
    <3>1. ASSUME NEW k \in A PROVE \E x \in live : pfx[x] = k /\ len[x] = KeyLen
      <4>1. k \in Keys /\ View[k] # NoValue
        BY <2>3, <2>4 DEF Active
      <4>2. \E x \in Leaves : pfx[x] = k
        BY <4>1 DEF View
      <4> QED BY <4>2 DEF Leaves, IsLeaf
    <3> QED BY <3>1 DEF HasLeaves
  <2>6. \A n \in live : hash[n] # NoHash /\ hash[n] = HashOf(n)
    BY <1>1, AllHashed
  <2>7. ASSUME NEW n \in live, n # Root
        PROVE  NodeHash(pfx, len, Children, NULL, View, NoValue, NoHash, hash, n)
    <3>1. CASE IsLeaf(n)
      <4>1. View[pfx[n]] = val[n] /\ pfx[n] \in Active(View, NoValue) /\ len[n] = KeyLen
        BY <2>1, <3>1, LeafView DEF IsLeaf
      <4>2. hash[n] = [pfx |-> pfx[n], len |-> len[n], body |-> <<val[n]>>]
        BY <2>6, <3>1 DEF HashOf, Digest
      <4> QED BY <4>1, <4>2 DEF NodeHash
    <3>2. CASE ~IsLeaf(n)
      <4>1. PICK of : of = ChildHashes(Children, NULL, hash, NoHash, n)
        OBVIOUS
      <4>2. hash[n] = [pfx |-> pfx[n], len |-> len[n], body |-> of]
        BY <2>1, <2>6, <3>2, <4>1, HashOfParts
      <4>3. PICK b \in Branch, d \in Branch : b # d /\ word[n][b].ptr # NULL /\ word[n][d].ptr # NULL
        BY <1>1, <2>7, <3>2, TwoSettled
      <4>4. \A e \in Branch : Children[n][e] = word[n][e].ptr
        BY <2>1, <3>2 DEF Children
      <4>5. \A e \in {b, d} : of[e] = hash[word[n][e].ptr] /\ word[n][e].ptr \in live
        BY <2>2, <4>1, <4>3, <4>4 DEF ChildHashes, TrieShape, ShapeEdges
      <4>6. of[b] # NoHash /\ of[d] # NoHash
        BY <2>6, <4>5
      <4>7. Summary(pfx[n], len[n], of, NoHash, hash[n])
        BY <4>2, <4>3, <4>6 DEF Summary
      <4> QED BY <3>2, <4>1, <4>7 DEF NodeHash, IsLeaf
    <3> QED BY <3>1, <3>2
  <2>8. PICK M : M = live \ {Root}
    OBVIOUS
  <2>9. \A n \in live, b \in Branch : Children[n][b] # NULL => Children[n][b] \in M
    <3> SUFFICES ASSUME NEW n \in live, NEW b \in Branch, Children[n][b] # NULL
                 PROVE  Children[n][b] \in M
      OBVIOUS
    <3>1. PICK c : c = Children[n][b]
      OBVIOUS
    <3>2. c \in live /\ len[n] < len[c]
      BY <2>2, <3>1 DEF TrieShape, ShapeEdges
    <3>3. len[n] \in Nat /\ len[n] >= 0
      BY <2>1, KeyLenAssumption DEF TypeOK, PrefixLen
    <3>4. c # Root
      BY <2>1, <3>2, <3>3
    <3> QED BY <2>8, <3>1, <3>2, <3>4
  <2>10. \A x \in live : pfx[x] = Truncate(pfx[x], len[x])
    BY <2>1 DEF NodesNamed
  <2>11. ASSUME NEW n \in M
         PROVE  hash[n] = Digests(View, NoValue, NoHash)[KeysUnder(Active(View, NoValue), pfx[n], len[n])]
    <3>1. M \in SUBSET live /\ \A x \in M : NodeHash(pfx, len, Children, NULL, View, NoValue, NoHash, hash, x)
      BY <2>7, <2>8
    <3>2. \A x \in M, b \in Branch : Children[x][b] # NULL => Children[x][b] \in M
      BY <2>8, <2>9
    <3> QED BY <2>2, <2>3, <2>4, <2>5, <2>10, <3>1, <3>2, ShapeDigest
  <2>12. \A b \in Branch : Children[Root][b] # NULL =>
           hash[Children[Root][b]] = Digests(View, NoValue, NoHash)[KeysUnder(Active(View, NoValue),
                                        pfx[Children[Root][b]], len[Children[Root][b]])]
    BY <2>1, <2>9, <2>11
  <2>13. len[Root] < KeyLen
    BY <2>1, KeyLenAssumption
  <2>14. ChildHashes(Children, NULL, hash, NoHash, Root)
         = [b \in Branch |-> Digests(View, NoValue, NoHash)[Towards(KeysUnder(A, pfx[Root], len[Root]), len[Root], b)]]
    BY <2>1, <2>2, <2>3, <2>4, <2>5, <2>12, <2>13, SlotDigests
  <2>15. KeysUnder(A, pfx[Root], len[Root]) = A
    BY <2>1, KeyLenAssumption DEF KeysUnder, IsPrefixOf
  <2>16. pfx[Root] = [i \in 1 .. KeyLen |-> 0]
    <3>1. \A i \in 1 .. KeyLen : (IF i <= 0 THEN pfx[Root][i] ELSE 0) = 0
      BY KeyLenAssumption
    <3>2. pfx[Root] = [i \in 1 .. KeyLen |-> IF i <= 0 THEN pfx[Root][i] ELSE 0]
      BY <2>1, <2>10 DEF Truncate
    <3>3. [i \in 1 .. KeyLen |-> IF i <= 0 THEN pfx[Root][i] ELSE 0] = [i \in 1 .. KeyLen |-> 0]
      BY <3>1
    <3> QED BY <3>2, <3>3
  <2>17. hash[Root] = [pfx |-> pfx[Root], len |-> len[Root],
                       body |-> ChildHashes(Children, NULL, hash, NoHash, Root)]
    <3>1. ~IsLeaf(Root)
      BY <2>1, KeyLenAssumption DEF IsLeaf
    <3> QED BY <2>1, <2>6, <3>1, HashOfParts
  <2>18. hash[Root] = [pfx |-> [i \in 1 .. KeyLen |-> 0], len |-> 0,
                       body |-> [b \in Branch |-> Digests(View, NoValue, NoHash)[Towards(A, 0, b)]]]
    BY <2>1, <2>14, <2>15, <2>16, <2>17
  <2> QED BY <2>3, <2>18 DEF CanonicalDigest
<1>2. ShapeInv /\ DigestInv => RootHashCanonical
  BY <1>1 DEF RootHashCanonical
<1> QED BY <1>2, ShapeInductive, DigestInductive, PTL

-----------------------------------------------------------------------------
(* The refinement of the map: every step is a step of KVMap, or leaves the *)
(* map, the calls and the answers alone.                                   *)

\* CallsKept for one thread.
CallOK(t) ==
    /\ pc[t] # "idle" => key[t] \in Keys
    /\ Inserting(t) => arg[t] = given[t]
    /\ pc[t] = "get" => res[t] = NoValue

\* The variables of the map, and a step that the map allows.
Reqs == [t \in Threads |-> Request(t)]
MapStep == KV!Next \/ UNCHANGED <<View, Reqs, res>>

NoCall == [op |-> "none"]

\* The step leaves the call and the answer of a thread alone.
SameCall(u) == SameLocals(u) /\ given'[u] = given[u] /\ res'[u] = res[u]

-----------------------------------------------------------------------------
(* The calls, as the map sees them *)

LEMMA RequestIs ==
    ASSUME NEW t
    PROVE  /\ Inserting(t) =>
                Request(t) = [op |-> "ins", key |-> key[t], arg |-> given[t]]
           /\ pc[t] = "get" => Request(t) = [op |-> "get", key |-> key[t]]
           /\ ~Inserting(t) /\ pc[t] # "get" => Request(t) = NoCall
BY DEF Request, Inserting, NoCall

LEMMA RequestThen ==
    ASSUME NEW t
    PROVE  /\ Inserting(t)' =>
                Request(t)' = [op |-> "ins", key |-> key'[t], arg |-> given'[t]]
           /\ pc'[t] = "get" => Request(t)' = [op |-> "get", key |-> key'[t]]
           /\ ~Inserting(t)' /\ pc'[t] # "get" => Request(t)' = NoCall
BY DEF Request, Inserting, NoCall

\* Only thread t changes what it is calling.
LEMMA ReqsSet ==
    ASSUME NEW t \in Threads, \A u \in Threads \ {t} : SameCall(u)
    PROVE  /\ Reqs' = [Reqs EXCEPT ![t] = Request(t)']
           /\ Request(t)' = Request(t) => Reqs' = Reqs
           /\ \A u \in Threads : Reqs[u] = Request(u)
<1>1. \A u \in Threads \ {t} : Request(u)' = Request(u)
  BY DEF SameCall, SameLocals, Request, Inserting
<1> QED BY <1>1 DEF Reqs

\* The other calls keep what they carry.
LEMMA CallsFrame ==
    ASSUME CallsKept, NEW t \in Threads,
           \A u \in Threads \ {t} : SameCall(u), CallOK(t)'
    PROVE  CallsKept'
<1>1. \A u \in Threads \ {t} : CallOK(u)'
  BY DEF CallsKept, CallOK, SameCall, SameLocals, Inserting
<1> QED BY <1>1 DEF CallsKept, CallOK, Inserting

-----------------------------------------------------------------------------
(* The map that a tree holds *)

\* The value of key k in a tree with nodes L is v.
ValueIn(L, P, N, V, k, v) ==
    IF \E n \in L : N[n] = KeyLen /\ P[n] = k
    THEN \A n \in L : N[n] = KeyLen /\ P[n] = k => V[n] = v
    ELSE v = NoValue

LEMMA LeafUnique ==
    ASSUME TypeOK, TreeOK, NEW n \in Leaves, NEW m \in Leaves, pfx[n] = pfx[m]
    PROVE  n = m
<1>1. n \in live /\ m \in live /\ len[n] = KeyLen /\ len[m] = KeyLen
  BY DEF Leaves, IsLeaf
<1>2. IsPrefixOf(pfx[n], len[n], pfx[m], len[m])
  BY <1>1, KeyLenAssumption DEF IsPrefixOf
<1> QED BY <1>1, <1>2 DEF TreeOK, NoDuplicates, Above

LEMMA ViewNow ==
    ASSUME TypeOK, TreeOK, NEW k \in Keys
    PROVE  ValueIn(live, pfx, len, val, k, View[k])
<1>1. CASE \E n \in Leaves : pfx[n] = k
  <2> DEFINE c == CHOOSE n \in Leaves : pfx[n] = k
  <2>1. c \in Leaves /\ pfx[c] = k
    BY <1>1
  <2>2. View[k] = val[c]
    BY <1>1 DEF View
  <2> HIDE DEF c
  <2>3. \A n \in Leaves : pfx[n] = k => n = c
    BY <2>1, LeafUnique
  <2> QED BY <2>1, <2>2, <2>3 DEF ValueIn, Leaves, IsLeaf
<1>2. CASE ~ \E n \in Leaves : pfx[n] = k
  BY <1>2 DEF View, ValueIn, Leaves, IsLeaf
<1> QED BY <1>1, <1>2

LEMMA ViewThen ==
    ASSUME NEW k \in Keys, NEW v, ValueIn(live', pfx', len', val', k, v)
    PROVE  View'[k] = v
<1>0. Leaves' = {n \in live' : len'[n] = KeyLen}
  BY DEF Leaves, IsLeaf
<1>1. CASE \E n \in Leaves' : pfx'[n] = k
  <2> DEFINE c == CHOOSE n \in Leaves' : pfx'[n] = k
  <2>1. c \in Leaves' /\ pfx'[c] = k
    BY <1>1
  <2>2. View'[k] = val'[c]
    BY <1>1 DEF View
  <2> HIDE DEF c
  <2> QED BY <1>0, <2>1, <2>2 DEF ValueIn
<1>2. CASE ~ \E n \in Leaves' : pfx'[n] = k
  BY <1>0, <1>2 DEF View, ValueIn
<1> QED BY <1>1, <1>2

LEMMA ViewQuiet ==
    ASSUME UNCHANGED <<live, pfx, len, val>>
    PROVE  View' = View
BY DEF View, Leaves, IsLeaf

\* One key is given the value w.
LEMMA ViewSet ==
    ASSUME TypeOK, TreeOK, NEW j \in Keys, NEW w,
           ValueIn(live', pfx', len', val', j, w),
           \A k \in Keys \ {j} : \A v :
              ValueIn(live, pfx, len, val, k, v)
                => ValueIn(live', pfx', len', val', k, v)
    PROVE  View' = [View EXCEPT ![j] = w]
<1>1. ASSUME NEW k \in Keys \ {j}
      PROVE  View'[k] = View[k]
  BY ViewNow, ViewThen
<1>2. View'[j] = w
  BY ViewThen
<1>3. /\ View = [k \in Keys |-> View[k]]
      /\ View' = [k \in Keys |-> View'[k]]
  BY DEF View
<1> HIDE DEF View
<1> QED BY <1>1, <1>2, <1>3

\* A leaf is added for a key that had none.
LEMMA ViewAttach ==
    ASSUME TypeOK, TreeOK, TreeOK', NEW a, a \notin live, live' = live \cup {a},
           NodesStay, \A x \in live : val'[x] = val[x],
           len'[a] = KeyLen, NEW j \in Keys, pfx'[a] = j, NEW w, val'[a] = w
    PROVE  View[j] = NoValue /\ View' = [View EXCEPT ![j] = w]
<1>0. \A x \in live : pfx'[x] = pfx[x] /\ len'[x] = len[x]
  BY DEF NodesStay
<1>1. ASSUME NEW x \in live, len[x] = KeyLen
      PROVE  pfx[x] # j
  <2> SUFFICES ASSUME pfx[x] = j PROVE FALSE
    OBVIOUS
  <2>1. IsPrefixOf(pfx'[x], len'[x], pfx'[a], len'[a]) /\ len'[x] = len'[a]
    BY <1>0, <1>1, KeyLenAssumption DEF IsPrefixOf
  <2>2. x = a
    BY <2>1, <1>1 DEF TreeOK, NoDuplicates, Above
  <2> QED BY <2>2
<1>2. View[j] = NoValue
  BY <1>1, ViewNow DEF ValueIn
<1>3. ValueIn(live', pfx', len', val', j, w)
  BY <1>0, <1>1 DEF ValueIn
<1>4. ASSUME NEW k \in Keys \ {j}, NEW v, ValueIn(live, pfx, len, val, k, v)
      PROVE  ValueIn(live', pfx', len', val', k, v)
  BY <1>0, <1>4 DEF ValueIn
<1> QED BY <1>2, <1>3, <1>4, ViewSet

\* A node that is not a leaf is added.
LEMMA ViewSplit ==
    ASSUME TypeOK, TreeOK, NEW a, a \notin live, live' = live \cup {a},
           NodesStay, \A x \in live : val'[x] = val[x], len'[a] # KeyLen
    PROVE  View' = View
<1>0. \A x \in live : pfx'[x] = pfx[x] /\ len'[x] = len[x]
  BY DEF NodesStay
<1>1. ASSUME NEW k \in Keys, NEW v, ValueIn(live, pfx, len, val, k, v)
      PROVE  ValueIn(live', pfx', len', val', k, v)
  BY <1>0, <1>1 DEF ValueIn
<1>2. ASSUME NEW k \in Keys
      PROVE  View'[k] = View[k]
  BY <1>1, ViewNow, ViewThen
<1> QED BY <1>2 DEF View

\* The value of a leaf is written.
LEMMA ViewWrite ==
    ASSUME TypeOK, TreeOK, NEW n \in Leaves, pfx[n] \in Keys, NEW w,
           UNCHANGED <<live, pfx, len>>, val' = [val EXCEPT ![n] = w]
    PROVE  /\ View[pfx[n]] = val[n]
           /\ View' = [View EXCEPT ![pfx[n]] = w]
<1>0. n \in live /\ len[n] = KeyLen
  BY DEF Leaves, IsLeaf
<1>1. \A x \in live : len[x] = KeyLen /\ pfx[x] = pfx[n] => x = n
  BY LeafUnique DEF Leaves, IsLeaf
<1>2. \A x \in live : val'[x] = IF x = n THEN w ELSE val[x]
  BY DEF TypeOK
<1>3. View[pfx[n]] = val[n]
  BY <1>0, ViewNow DEF ValueIn
<1>4. ValueIn(live', pfx', len', val', pfx[n], w)
  BY <1>0, <1>1, <1>2 DEF ValueIn
<1>5. ASSUME NEW k \in Keys \ {pfx[n]}, NEW v, ValueIn(live, pfx, len, val, k, v)
      PROVE  ValueIn(live', pfx', len', val', k, v)
  BY <1>2, <1>5 DEF ValueIn
<1> QED BY <1>3, <1>4, <1>5, ViewSet

-----------------------------------------------------------------------------
(* The steps of the map *)

LEMMA MapStutter ==
    ASSUME View' = View, Reqs' = Reqs, res' = res
    PROVE  MapStep
BY DEF MapStep

LEMMA MapInvoke ==
    ASSUME NEW t \in Threads, NEW k \in Keys, Request(t) = NoCall,
           NEW c,
           \/ c = [op |-> "ins", key |-> k, arg |-> c.arg] /\ c.arg \in Value
           \/ c = [op |-> "get", key |-> k],
           Reqs' = [Reqs EXCEPT ![t] = c], View' = View,
           res' = [res EXCEPT ![t] = NoValue]
    PROVE  MapStep
<1>1. c \in KV!Calls(k)
  BY DEF KV!Calls
<1>2. Reqs'[t] = c /\ Reqs[t] = Request(t)
  BY DEF Reqs
<1>3. KV!Invoke(t)
  BY <1>1, <1>2 DEF KV!Invoke, KV!NoCall, NoCall, Reqs
<1> QED BY <1>3 DEF MapStep, KV!Next

LEMMA MapInsert ==
    ASSUME NEW t \in Threads, NEW k, NEW v,
           Request(t) = [op |-> "ins", key |-> k, arg |-> v],
           Reqs' = [Reqs EXCEPT ![t] = NoCall], res' = res,
           View' = [View EXCEPT ![k] = IF View[k] = NoValue THEN v
                                       ELSE Merge(View[k], v)]
    PROVE  MapStep
<1>1. Reqs[t].op = "ins" /\ Reqs[t].key = k /\ Reqs[t].arg = v
  BY DEF Reqs
<1>2. View' = [View EXCEPT ![Reqs[t].key] =
                 IF View[Reqs[t].key] = NoValue THEN Reqs[t].arg
                 ELSE Merge(View[Reqs[t].key], Reqs[t].arg)]
  BY <1>1
<1>3. KV!Insert(t)
  BY <1>1, <1>2 DEF KV!Insert, KV!NoCall, NoCall, Reqs
<1> QED BY <1>3 DEF MapStep, KV!Next

LEMMA MapGet ==
    ASSUME NEW t \in Threads, NEW k,
           Request(t) = [op |-> "get", key |-> k],
           Reqs' = [Reqs EXCEPT ![t] = NoCall],
           res' = [res EXCEPT ![t] = View[k]],
           View' = View
    PROVE  MapStep
<1>1. Reqs[t].op = "get" /\ Reqs[t].key = k
  BY DEF Reqs
<1>2. KV!Get(t)
  BY <1>1 DEF KV!Get, KV!NoCall, NoCall, Reqs
<1> QED BY <1>2 DEF MapStep, KV!Next

LEMMA MapClear ==
    ASSUME AllIdle, Reqs' = Reqs, res' = res, View' = [k \in Keys |-> NoValue]
    PROVE  MapStep
<1>1. KV!NoneInside
  <2>1. \A t \in Threads : Request(t) = NoCall
    BY RequestIs DEF AllIdle, Inserting
  <2> QED BY <2>1 DEF KV!NoneInside, KV!NoCall, NoCall
<1>2. KV!Clear
  BY <1>1 DEF KV!Clear, Reqs
<1> QED BY <1>2 DEF MapStep, KV!Next

-----------------------------------------------------------------------------
(* The steps that the map does not see *)

LEMMA QuietMap ==
    ASSUME CallsKept, NEW t \in Threads, UNCHANGED <<live, pfx, len, val, res>>,
           \A u \in Threads \ {t} : SameCall(u),
           Request(t)' = Request(t), CallOK(t)'
    PROVE  CallsKept' /\ MapStep
BY CallsFrame, ReqsSet, ViewQuiet, MapStutter

LEMMA InsertLoadMap ==
    ASSUME ShapeInv, CallsKept, \A v \in Value : MovedFrom(v) = v,
           NEW t \in Threads, InsertLoad(t) \/ InsertRetry(t)
    PROVE  CallsKept' /\ MapStep
<1>1. /\ pc[t] # "idle" /\ Inserting(t) /\ UNCHANGED <<tree, key, given, res>>
      /\ Observe(t, At(cur[t], key[t]))
  BY DEF InsertLoad, InsertRetry, Inserting
<1>2. TypeOK /\ ThreadOK(t)
  BY <1>1, Busy
<1>3. arg' = arg
  <2>1. arg[t] \in Value
    BY <1>1, <1>2 DEF ThreadOK
  <2> QED BY <1>2, <2>1 DEF InsertLoad, InsertRetry, TypeOK
<1>4. Inserting(t)' /\ \A u \in Threads \ {t} : SameCall(u)
  BY <1>1, <1>2, <1>3 DEF Observe, TypeOK, SameCall, SameLocals, Inserting
<1>5. Request(t)' = Request(t)
  BY <1>1, <1>4, RequestIs, RequestThen
<1>6. CallOK(t)'
  BY <1>1, <1>3, <1>4 DEF CallOK, CallsKept, Inserting
<1> QED BY <1>1, <1>4, <1>5, <1>6, QuietMap DEF tree

LEMMA InsertSplitMap ==
    ASSUME ShapeInv, CallsKept, NEW t \in Threads, InsertSplit(t)
    PROVE  CallsKept' /\ MapStep
<1>0. PICK a, j : a = SplitAddr(exp[t].ptr, key[t]) /\ j = JoinLen(exp[t].ptr, key[t])
  OBVIOUS
<1>1. /\ TypeOK /\ TreeOK /\ pc[t] = "ins_cas" /\ j < KeyLen /\ j \in PrefixLen
      /\ a \notin live /\ live' = live \cup {a} /\ NodesStay /\ len'[a] = j
      /\ \A x \in live : val'[x] = val[x]
  BY <1>0, SplitFacts
<1>2. /\ \A u \in Threads \ {t} : SameLocals(u)
      /\ pc'[t] = "ins" /\ key' = key /\ arg' = arg
  BY SplitFacts
<1>3. UNCHANGED <<given, res>> /\ \A u \in Threads \ {t} : SameCall(u)
  BY <1>2 DEF InsertSplit, SameCall
<1>4. View' = View
  <2>1. len'[a] # KeyLen
    BY <1>1, KeyLenAssumption DEF PrefixLen
  <2> QED BY <1>1, <2>1, ViewSplit
<1>5. Request(t)' = Request(t)
  BY <1>1, <1>2, <1>3, RequestIs, RequestThen DEF Inserting
<1>6. CallOK(t)'
  BY <1>1, <1>2, <1>3 DEF CallOK, CallsKept, Inserting
<1> QED BY <1>3, <1>4, <1>5, <1>6, CallsFrame, ReqsSet, MapStutter

LEMMA BumpMap ==
    ASSUME ShapeInv, CallsKept, NEW t \in Threads,
           BumpReturn(t) \/ BumpLoad(t) \/ BumpSet(t) \/ BumpRetry(t)
    PROVE  CallsKept' /\ MapStep
<1>1. TypeOK
  BY DEF ShapeInv
<1>2. /\ UNCHANGED <<live, pfx, len, val, res>> /\ Bumping(t)
      /\ \A u \in Threads \ {t} : SameCall(u)
  BY <1>1 DEF BumpReturn, BumpLoad, BumpSet, BumpRetry, Return, tree, TypeOK,
              SameCall, SameLocals, Bumping
<1>3. pc'[t] = "idle" \/ (Bumping(t)' /\ key'[t] = key[t])
  BY <1>1 DEF BumpReturn, BumpLoad, BumpSet, BumpRetry, Return, TypeOK, Bumping
<1>4. /\ ~Inserting(t) /\ pc[t] # "get" /\ pc[t] # "idle"
      /\ ~Inserting(t)' /\ pc'[t] # "get"
  BY <1>2, <1>3 DEF Bumping, Inserting
<1>5. Request(t)' = Request(t)
  BY <1>4, RequestIs, RequestThen
<1>6. CallOK(t)'
  BY <1>3, <1>4 DEF CallOK, CallsKept
<1> QED BY <1>2, <1>5, <1>6, QuietMap

-----------------------------------------------------------------------------
(* The steps where calls start and take effect *)

LEMMA StartMap ==
    ASSUME ShapeInv, CallsKept, NEW t \in Threads, Start(t)
    PROVE  CallsKept' /\ MapStep
<1>0. TypeOK
  BY DEF ShapeInv
<1>1. ASSUME NEW p \in Inserts, StartInsert(t, p[1], p[2])
      PROVE  CallsKept' /\ MapStep
  <2>1. p[1] \in Keys /\ p[2] \in Value
    BY ValueAssumption
  <2>2. /\ UNCHANGED <<live, pfx, len, val>> /\ pc[t] = "idle" /\ pc'[t] = "ins"
        /\ key'[t] = p[1] /\ arg'[t] = p[2] /\ given'[t] = p[2]
        /\ res' = [res EXCEPT ![t] = NoValue]
        /\ \A u \in Threads \ {t} : SameCall(u)
    BY <1>0, <1>1 DEF StartInsert, Call, tree, TypeOK, SameCall, SameLocals
  <2>3. CallsKept'
    <3>1. CallOK(t)'
      BY <2>1, <2>2 DEF CallOK
    <3> QED BY <2>2, <3>1, CallsFrame
  <2>4. Request(t) = NoCall
    BY <2>2, RequestIs DEF Inserting
  <2>5. Request(t)' = [op |-> "ins", key |-> p[1], arg |-> p[2]]
    BY <2>2, RequestThen DEF Inserting
  <2>6. Reqs' = [Reqs EXCEPT ![t] = [op |-> "ins", key |-> p[1], arg |-> p[2]]]
    BY <2>2, <2>5, ReqsSet
  <2> QED BY <2>1, <2>2, <2>3, <2>4, <2>6, ViewQuiet, MapInvoke
<1>2. ASSUME NEW k \in Keys, StartGet(t, k)
      PROVE  CallsKept' /\ MapStep
  <2>2. /\ UNCHANGED <<live, pfx, len, val>> /\ pc[t] = "idle" /\ pc'[t] = "get"
        /\ key'[t] = k /\ res' = [res EXCEPT ![t] = NoValue]
        /\ res'[t] = NoValue
        /\ \A u \in Threads \ {t} : SameCall(u)
    BY <1>0, <1>2 DEF StartGet, Call, tree, TypeOK, SameCall, SameLocals
  <2>3. CallsKept'
    <3>1. CallOK(t)'
      BY <2>2 DEF CallOK, Inserting
    <3> QED BY <2>2, <3>1, CallsFrame
  <2>4. Request(t) = NoCall
    BY <2>2, RequestIs DEF Inserting
  <2>5. Request(t)' = [op |-> "get", key |-> k]
    BY <2>2, RequestThen DEF Inserting
  <2>6. Reqs' = [Reqs EXCEPT ![t] = [op |-> "get", key |-> k]]
    BY <2>2, <2>5, ReqsSet
  <2> QED BY <2>2, <2>3, <2>4, <2>6, ViewQuiet, MapInvoke
<1> QED BY <1>1, <1>2 DEF Start

LEMMA ReturnMap ==
    ASSUME TypeOK, CallsKept, NEW t \in Threads, Return(t),
           \A u \in Threads \ {t} : res'[u] = res[u]
    PROVE  /\ CallsKept'
           /\ Reqs' = [Reqs EXCEPT ![t] = NoCall]
<1>1. pc'[t] = "idle" /\ \A u \in Threads \ {t} : SameCall(u)
  BY DEF Return, SameCall, SameLocals, TypeOK
<1>2. Request(t)' = NoCall
  BY <1>1, RequestThen DEF Inserting
<1>3. CallOK(t)'
  BY <1>1 DEF CallOK, Inserting
<1> QED BY <1>1, <1>2, <1>3, CallsFrame, ReqsSet

\* The leaf a thread has reached is the leaf of its key.
LEMMA LeafReached ==
    ASSUME ShapeInv, NEW t \in Threads, pc[t] # "idle", IsLeaf(cur[t])
    PROVE  pfx[cur[t]] = key[t] /\ cur[t] \in Leaves
<1>1. /\ TypeOK /\ cur[t] \in live /\ cur[t] \in Addr /\ key[t] \in Key
      /\ IsPrefixOf(pfx[cur[t]], KeyLen, key[t], KeyLen)
  BY Busy DEF IsLeaf
<1>2. pfx[cur[t]] \in Key
  BY <1>1 DEF TypeOK
<1> QED BY <1>1, <1>2, FullPrefix DEF Leaves

LEMMA InsertValueMap ==
    ASSUME ShapeInv, CallsKept, NEW t \in Threads, InsertValue(t)
    PROVE  CallsKept' /\ MapStep
<1>1. /\ pc[t] # "idle" /\ Inserting(t) /\ IsLeaf(cur[t]) /\ Return(t)
      /\ val' = [val EXCEPT ![cur[t]] = Merge(val[cur[t]], arg[t])]
      /\ UNCHANGED <<live, pfx, len, res>>
  BY DEF InsertValue, Inserting
<1>2. /\ TypeOK /\ TreeOK /\ key[t] \in Keys /\ arg[t] = given[t]
  BY <1>1 DEF ShapeInv, CallsKept
<1>3. pfx[cur[t]] = key[t] /\ cur[t] \in Leaves
  BY <1>1, LeafReached
<1>4. val[cur[t]] # NoValue
  BY <1>2, <1>3, ValueAssumption DEF TypeOK
<1>5. /\ View[key[t]] = val[cur[t]]
      /\ View' = [View EXCEPT ![key[t]] = Merge(val[cur[t]], arg[t])]
  BY <1>1, <1>2, <1>3, ViewWrite
<1>6. View' = [View EXCEPT ![key[t]] = IF View[key[t]] = NoValue THEN given[t]
                                       ELSE Merge(View[key[t]], given[t])]
  BY <1>2, <1>4, <1>5
<1>7. CallsKept' /\ Reqs' = [Reqs EXCEPT ![t] = NoCall]
  BY <1>1, <1>2, ReturnMap
<1>8. Request(t) = [op |-> "ins", key |-> key[t], arg |-> given[t]]
  BY <1>1, RequestIs
<1> QED BY <1>1, <1>6, <1>7, <1>8, MapInsert

LEMMA InsertAttachMap ==
    ASSUME ShapeInv, CallsKept, NEW t \in Threads, InsertAttach(t)
    PROVE  CallsKept' /\ MapStep
<1>0. PICK a : a = LeafAddr(key[t])
  OBVIOUS
<1>1. /\ TypeOK /\ TreeOK /\ pc[t] = "ins_cas" /\ a \notin live
      /\ live' = live \cup {a} /\ NodesStay /\ \A x \in live : val'[x] = val[x]
      /\ pfx'[a] = key[t] /\ len'[a] = KeyLen /\ val'[a] = arg[t]
  BY <1>0, AttachFacts
<1>2. /\ \A u \in Threads \ {t} : SameLocals(u)
      /\ pc'[t] = "bump" /\ key' = key
  BY AttachFacts
<1>3. UNCHANGED <<given, res>> /\ \A u \in Threads \ {t} : SameCall(u)
  BY <1>2 DEF InsertAttach, SameCall
<1>4. key[t] \in Keys /\ arg[t] = given[t] /\ Inserting(t)
  BY <1>1 DEF CallsKept, Inserting
<1>5. TreeOK'
  BY InsertAttachShape DEF ShapeInv
<1>6. View[key[t]] = NoValue /\ View' = [View EXCEPT ![key[t]] = given[t]]
  BY <1>1, <1>4, <1>5, ViewAttach
<1>7. View' = [View EXCEPT ![key[t]] = IF View[key[t]] = NoValue THEN given[t]
                                       ELSE Merge(View[key[t]], given[t])]
  BY <1>6
<1>8. Request(t) = [op |-> "ins", key |-> key[t], arg |-> given[t]]
  BY <1>4, RequestIs
<1>9. Request(t)' = NoCall
  BY <1>2, RequestThen DEF Inserting
<1>10. Reqs' = [Reqs EXCEPT ![t] = NoCall]
  BY <1>3, <1>9, ReqsSet
<1>11. CallsKept'
  <2>1. CallOK(t)'
    BY <1>2, <1>4 DEF CallOK, Inserting
  <2> QED BY <1>3, <2>1, CallsFrame
<1> QED BY <1>3, <1>7, <1>8, <1>10, <1>11, MapInsert

\* get_value returns what the map holds.
LEMMA AnswerMap ==
    ASSUME TypeOK, CallsKept, NEW t \in Threads, pc[t] = "get", Return(t),
           res' = [res EXCEPT ![t] = View[key[t]]], UNCHANGED tree
    PROVE  CallsKept' /\ MapStep
<1>1. \A u \in Threads \ {t} : res'[u] = res[u]
  BY DEF TypeOK
<1>2. CallsKept' /\ Reqs' = [Reqs EXCEPT ![t] = NoCall]
  BY <1>1, ReturnMap
<1>3. View' = View
  BY ViewQuiet DEF tree
<1>4. Request(t) = [op |-> "get", key |-> key[t]]
  BY RequestIs
<1> QED BY <1>2, <1>3, <1>4, MapGet

LEMMA GetLeafMap ==
    ASSUME ShapeInv, CallsKept, NEW t \in Threads, GetLeaf(t)
    PROVE  CallsKept' /\ MapStep
<1>1. /\ pc[t] = "get" /\ pc[t] # "idle" /\ IsLeaf(cur[t]) /\ key[t] \in Keys
      /\ TypeOK /\ TreeOK
  BY DEF GetLeaf, CallsKept, ShapeInv
<1>2. pfx[cur[t]] = key[t] /\ cur[t] \in Leaves
  BY <1>1, LeafReached
<1>3. View[key[t]] = val[cur[t]]
  BY <1>1, <1>2, ViewNow DEF ValueIn, Leaves, IsLeaf
<1> QED BY <1>1, <1>3, AnswerMap DEF GetLeaf

LEMMA GetLoadMap ==
    ASSUME ShapeInv, CallsKept, NEW t \in Threads, GetLoad(t)
    PROVE  CallsKept' /\ MapStep
<1> DEFINE c == At(cur[t], key[t]).ptr
<1>1. /\ pc[t] = "get" /\ pc[t] # "idle" /\ ~IsLeaf(cur[t]) /\ key[t] \in Keys
      /\ ~Inserting(t) /\ res[t] = NoValue /\ UNCHANGED <<tree, res>>
  BY DEF GetLoad, CallsKept, Inserting
<1>2. /\ TypeOK /\ TreeOK /\ cur[t] \in live /\ key[t] \in Key
      /\ IsPrefixOf(pfx[cur[t]], len[cur[t]], key[t], KeyLen)
  BY <1>1, Busy
<1>3. CASE c # NULL /\ Covers(c, key[t])
  <2>1. /\ cur' = [cur EXCEPT ![t] = c]
        /\ UNCHANGED <<pc, key, arg, given, exp>>
    BY <1>3 DEF GetLoad
  <2>2. \A u \in Threads \ {t} : SameCall(u)
    BY <2>1, <1>1, <1>2 DEF SameCall, SameLocals, TypeOK
  <2>3. Request(t)' = Request(t)
    BY <2>1, <1>1, RequestIs, RequestThen
  <2>4. CallOK(t)'
    BY <2>1, <1>1 DEF CallOK, Inserting
  <2> QED BY <2>2, <2>3, <2>4, <1>1, QuietMap DEF tree
<1>4. CASE ~(c # NULL /\ Covers(c, key[t]))
  <2>1. ASSUME NEW x \in live, len[x] = KeyLen, pfx[x] = key[t]
        PROVE  FALSE
    <3>1. Above(cur[t], x) /\ len[cur[t]] < len[x]
      BY <2>1, <1>1, <1>2, WordFacts DEF Above
    <3>2. c # NULL /\ Above(c, x)
      BY <3>1, <2>1, <1>2 DEF TreeOK, PathsComplete
    <3>3. c \in Addr
      BY <3>2, <1>1, <1>2, WordFacts
    <3>4. Covers(c, key[t])
      BY <3>2, <3>3, <2>1, <1>2, CoversPrefix DEF Above
    <3> QED BY <3>2, <3>4, <1>4
  <2>2. View[key[t]] = NoValue
    BY <2>1, <1>1, <1>2, ViewNow DEF ValueIn
  <2>3. Return(t)
    BY <1>4 DEF GetLoad
  <2>4. res' = [res EXCEPT ![t] = View[key[t]]]
    BY <1>1, <1>2, <2>2 DEF TypeOK
  <2> QED BY <2>3, <2>4, <1>1, <1>2, AnswerMap
<1> QED BY <1>3, <1>4

-----------------------------------------------------------------------------
(* The operations that run alone, and the theorem *)

LEMMA HashMap ==
    ASSUME CallsKept, HashStart \/ HashStep \/ UNCHANGED vars
    PROVE  CallsKept' /\ MapStep
<1>1. UNCHANGED <<live, pfx, len, val, pc, key, arg, given, cur, res>>
  BY DEF HashStart, HashStep, HashNode, HashSerial, vars, tree, threads
<1>2. CallsKept'
  BY <1>1 DEF CallsKept, Inserting
<1>3. Reqs' = Reqs
  BY <1>1 DEF Reqs, Request, Inserting
<1> QED BY <1>1, <1>2, <1>3, ViewQuiet, MapStutter

LEMMA EmptyView ==
    ASSUME \A n \in live : len[n] # KeyLen
    PROVE  View = [k \in Keys |-> NoValue]
BY DEF View, Leaves, IsLeaf

LEMMA ClearMap ==
    ASSUME CallsKept, Clear
    PROVE  CallsKept' /\ MapStep
<1>1. AllIdle /\ UNCHANGED <<pc, key, arg, given, cur, exp, res>>
  BY DEF Clear, threads
<1>2. CallsKept'
  BY <1>1 DEF CallsKept, Inserting
<1>3. Reqs' = Reqs
  BY <1>1 DEF Reqs, Request, Inserting
<1>4. \A n \in live' : len'[n] # KeyLen
  BY AddrAssumption, KeyLenAssumption DEF Clear
<1>5. View' = [k \in Keys |-> NoValue]
  <2>1. ASSUME NEW k \in Keys
        PROVE  View'[k] = NoValue
    BY <1>4, ViewThen DEF ValueIn
  <2>2. View' = [k \in Keys |-> View'[k]]
    BY DEF View
  <2> HIDE DEF View
  <2> QED BY <2>1, <2>2
<1> QED BY <1>1, <1>2, <1>3, <1>5, MapClear

LEMMA InitMap == Init => CallsKept /\ KV!Init
<1> SUFFICES ASSUME Init PROVE CallsKept /\ KV!Init
  OBVIOUS
<1>1. \A t \in Threads : pc[t] = "idle" /\ ~Inserting(t)
  BY DEF Init, Inserting
<1>2. CallsKept
  BY <1>1 DEF CallsKept
<1>3. \A n \in live : len[n] # KeyLen
  BY AddrAssumption, KeyLenAssumption DEF Init
<1>4. View = [k \in Keys |-> NoValue]
  BY <1>3, EmptyView
<1>5. [t \in Threads |-> Request(t)] = [t \in Threads |-> NoCall]
  BY <1>1, RequestIs
<1>6. res = [t \in Threads |-> NoValue]
  BY DEF Init
<1> QED BY <1>2, <1>4, <1>5, <1>6 DEF KV!Init, KV!NoCall, NoCall

LEMMA NextMap ==
    ASSUME ShapeInv, CallsKept, \A v \in Value : MovedFrom(v) = v, [Next]_vars
    PROVE  CallsKept' /\ MapStep
<1>1. ASSUME NEW t \in Threads, Start(t) \/ Proceed(t)
      PROVE  CallsKept' /\ MapStep
  BY <1>1, StartMap, InsertValueMap, InsertLoadMap, InsertAttachMap,
     InsertSplitMap, BumpMap, GetLeafMap, GetLoadMap DEF Proceed
<1>2. CASE HashStart \/ HashStep \/ UNCHANGED vars
  BY <1>2, HashMap
<1>3. CASE Clear
  BY <1>3, ClearMap
<1> QED BY <1>1, <1>2, <1>3 DEF Next

\* The trie is an atomic map, whatever the interleaving: insert takes effect
\* in the compare_exchange that publishes its leaf or in value_insert at the
\* leaf it finds, get_value in the load that answers, and nothing that
\* bump_size or a split does can be seen.  Insertions read the value again
\* after a compare_exchange that failed, so this is proved for values that
\* std::move leaves as they were, as it does plain structs.
THEOREM EphemeralLinearizable ==
    ASSUME \A v \in Value : MovedFrom(v) = v
    PROVE  Spec => Linearizable
<1>1. Init => CallsKept /\ KV!Init
  BY InitMap
<1>2. ShapeInv /\ CallsKept /\ [Next]_vars
        => CallsKept' /\ [KV!Next]_<<View, [t \in Threads |-> Request(t)], res>>
  BY NextMap DEF MapStep, Reqs
<1> QED BY <1>1, <1>2, ShapeInductive, PTL DEF Spec, Linearizable, KV!Spec

-----------------------------------------------------------------------------
(* Proofs of what the trie holds *)

\* make_proof goes on from a node to a child.
LEMMA ProofDescends ==
    ASSUME ShapeInv, NEW q \in Key, NEW l \in PrefixLen, NEW n \in live, ~EndsAt(n, q, l)
    PROVE  /\ ~IsLeaf(n) /\ len[n] < KeyLen /\ Slot(n, q) \in Kids(n)
           /\ At(n, q).ptr # NULL /\ At(n, q).ptr \in live
           /\ len[n] < len[At(n, q).ptr]
<1>1. TypeOK /\ TreeOK /\ len[n] \in PrefixLen
  BY DEF ShapeInv, TypeOK
<1>2. len[n] < KeyLen
  BY <1>1, KeyLenAssumption DEF EndsAt, min, PrefixLen
<1>3. ~IsLeaf(n)
  BY <1>1, <1>2, KeyLenAssumption DEF IsLeaf, PrefixLen
<1>4. Slot(n, q) \in Kids(n) /\ Slot(n, q) \in Branch
  BY DEF EndsAt, Kids
<1>5. At(n, q).ptr # NULL
  BY <1>4 DEF Kids, At
<1>6. At(n, q).ptr \in live /\ len[n] < len[At(n, q).ptr]
  BY <1>1, <1>3, <1>4, <1>5 DEF TreeOK, EdgesDescend, At
<1> QED BY <1>2, <1>3, <1>4, <1>5, <1>6

LEMMA LayersSame ==
    ASSUME NEW q, NEW l, NEW n, NEW f, NEW g,
           ~EndsAt(n, q, l) => f[At(n, q).ptr] = g[At(n, q).ptr]
    PROVE  LayersFrom(q, l, n, f) = LayersFrom(q, l, n, g)
BY DEF LayersFrom

\* The recursion of make_proof is well-founded: it ends because every child is
\* longer than its parent.
LEMMA StackFact ==
    ASSUME ShapeInv, NEW q \in Key, NEW l \in PrefixLen
    PROVE  \A n \in live : ProofStack(q, l)[n] = LayersFrom(q, l, n, ProofStack(q, l))
<1> DEFINE R(f) == f = [n \in live |-> LayersFrom(q, l, n, f)]
           Due(n, h) == len[n] >= KeyLen - h
           H(g, h) == \A n \in live : Due(n, h) => g[n] = LayersFrom(q, l, n, g)
           G == {h \in 0 .. KeyLen : \E g : H(g, h)}
<1>1. KeyLen \in Nat /\ 0 \in Nat /\ 0 \in 0 .. KeyLen /\ KeyLen \in 0 .. KeyLen
  BY KeyLenAssumption
<1>2. \A n \in live : len[n] \in 0 .. KeyLen
  BY DEF ShapeInv, TypeOK, PrefixLen
<1>3. \A n \in live : ~EndsAt(n, q, l) =>
         At(n, q).ptr \in live /\ len[n] < len[At(n, q).ptr] /\ len[n] < KeyLen
  BY ProofDescends
<1>4. 0 \in G
  <2> DEFINE g == [n \in live |-> LayersFrom(q, l, n, <<>>)]
  <2>1. ASSUME NEW n \in live, Due(n, 0) PROVE g[n] = LayersFrom(q, l, n, g)
    <3>1. g[n] = LayersFrom(q, l, n, <<>>)
      OBVIOUS
    <3> HIDE DEF g
    <3>2. len[n] = KeyLen
      BY <1>1, <1>2, <2>1
    <3>3. EndsAt(n, q, l)
      BY <1>1, <1>3, <3>2
    <3> QED BY <3>1, <3>3, LayersSame
  <2>2. H(g, 0)
    BY <2>1
  <2> HIDE DEF g, H
  <2> QED BY <2>2, <1>1
<1>5. ASSUME NEW h \in 0 .. KeyLen, h + 1 <= KeyLen, h \in G
      PROVE  h + 1 \in G
  <2>1. PICK g : H(g, h)
    BY <1>5
  <2> DEFINE g2 == [n \in live |-> IF Due(n, h) THEN g[n] ELSE LayersFrom(q, l, n, g)]
  <2>2. \A n \in live : g2[n] = IF Due(n, h) THEN g[n] ELSE LayersFrom(q, l, n, g)
    OBVIOUS
  <2> HIDE DEF g2
  <2>3. ASSUME NEW n \in live, Due(n, h + 1)
        PROVE  g2[n] = LayersFrom(q, l, n, g2)
    <3>1. g2[n] = LayersFrom(q, l, n, g)
      BY <2>1, <2>2
    <3>2. ASSUME ~EndsAt(n, q, l) PROVE g[At(n, q).ptr] = g2[At(n, q).ptr]
      <4>1. PICK c : c = At(n, q).ptr
        OBVIOUS
      <4>2. c \in live /\ len[n] < len[c]
        BY <4>1, <3>2, <1>3
      <4>3. len[n] \in 0 .. KeyLen /\ len[c] \in 0 .. KeyLen /\ len[n] >= KeyLen - (h + 1)
        BY <1>2, <2>3, <4>2
      <4>4. Due(c, h)
        BY <4>2, <4>3, <1>1
      <4> QED BY <4>1, <4>2, <4>4, <2>2
    <3>3. LayersFrom(q, l, n, g) = LayersFrom(q, l, n, g2)
      BY <3>2, LayersSame
    <3> QED BY <3>1, <3>3
  <2>4. H(g2, h + 1)
    BY <2>3
  <2>5. h + 1 \in 0 .. KeyLen
    BY <1>1, <1>5
  <2> HIDE DEF H
  <2> QED BY <2>4, <2>5
<1>6. KeyLen \in G
  <2> HIDE DEF G
  <2> QED BY <1>1, <1>4, <1>5, RangeInduction
<1>7. PICK g : \A n \in live : g[n] = LayersFrom(q, l, n, g)
  <2>1. PICK g : H(g, KeyLen)
    BY <1>6
  <2>2. ASSUME NEW n \in live PROVE Due(n, KeyLen)
    BY <1>1, <1>2
  <2> QED BY <2>1, <2>2
<1>8. \E f : R(f)
  <2> DEFINE f == [n \in live |-> g[n]]
  <2>1. \A n \in live : f[n] = g[n]
    OBVIOUS
  <2>2. ASSUME NEW n \in live PROVE g[n] = LayersFrom(q, l, n, f)
    <3> HIDE DEF f
    <3>1. ASSUME ~EndsAt(n, q, l) PROVE g[At(n, q).ptr] = f[At(n, q).ptr]
      BY <3>1, <2>1, <1>3
    <3>2. LayersFrom(q, l, n, g) = LayersFrom(q, l, n, f)
      BY <3>1, LayersSame
    <3> QED BY <3>2, <1>7
  <2>3. f = [n \in live |-> LayersFrom(q, l, n, f)]
    <3>1. f = [n \in live |-> g[n]]
      OBVIOUS
    <3> HIDE DEF f
    <3> QED BY <3>1, <2>2
  <2> QED BY <2>3
<1>9. PICK f : f = (CHOOSE h : R(h)) /\ R(f)
  BY <1>8
<1>10. ProofStack(q, l) = f
  BY <1>9 DEF ProofStack
<1>11. f = [n \in live |-> LayersFrom(q, l, n, f)]
  BY <1>9
<1>12. \A n \in live : f[n] = LayersFrom(q, l, n, f)
  BY <1>11
<1> QED BY <1>10, <1>12

\* What verify_proof carries after each layer.
LEMMA CarriesFact ==
    ASSUME NEW q, NEW s, Len(s) \in Nat
    PROVE  /\ Carries(q, s)[0] = NoneYet
           /\ \A i \in 1 .. Len(s) : Carries(q, s)[i] = VerifyLayer(q, Carries(q, s)[i - 1], s[i])
<1>0. PICK z \in Nat : z = Len(s)
  OBVIOUS
<1> DEFINE D == 0 .. z
           From(f, i) == IF i = 0 THEN NoneYet ELSE VerifyLayer(q, f[i - 1], s[i])
           R(f) == f = [i \in D |-> From(f, i)]
           H(g, h) == \A i \in D : i <= h => g[i] = From(g, i)
           G == {h \in D : \E g : H(g, h)}
<1>1. 0 \in G
  <2> DEFINE g == [i \in D |-> NoneYet]
  <2>1. \A i \in D : i <= 0 => i = 0 /\ g[i] = NoneYet
    OBVIOUS
  <2>2. H(g, 0)
    BY <2>1
  <2> HIDE DEF g, H
  <2> QED BY <2>2, <1>0
<1>2. ASSUME NEW h \in D, h + 1 <= z, h \in G
      PROVE  h + 1 \in G
  <2>1. PICK g : H(g, h)
    BY <1>2
  <2> DEFINE g2 == [i \in D |-> IF i <= h THEN g[i] ELSE From(g, i)]
  <2>2. \A i \in D : g2[i] = IF i <= h THEN g[i] ELSE From(g, i)
    OBVIOUS
  <2> HIDE DEF g2
  <2>3. ASSUME NEW i \in D, i <= h + 1 PROVE g2[i] = From(g2, i)
    <3>1. g2[i] = From(g, i)
      BY <2>1, <2>2
    <3>2. i # 0 => i - 1 \in D /\ i - 1 <= h
      BY <1>0, <1>2, <2>3
    <3>3. i # 0 => g2[i - 1] = g[i - 1]
      BY <2>2, <3>2
    <3> QED BY <3>1, <3>3
  <2>4. H(g2, h + 1)
    BY <2>3
  <2>5. h + 1 \in D
    BY <1>0, <1>2
  <2> HIDE DEF H
  <2> QED BY <2>4, <2>5
<1>3. z \in G
  <2> HIDE DEF G
  <2>1. 0 \in Nat /\ z \in D /\ \A i \in 0 .. z : i + 1 <= z /\ i \in G => i + 1 \in G
    BY <1>0, <1>2
  <2> QED BY <2>1, <1>0, <1>1, RangeInduction
<1>4. PICK g : \A i \in D : g[i] = From(g, i)
  <2>1. PICK g : H(g, z)
    BY <1>3
  <2> QED BY <2>1, <1>0
<1>5. \E f : R(f)
  <2> DEFINE f == [i \in D |-> g[i]]
  <2>1. \A i \in D : f[i] = g[i]
    OBVIOUS
  <2>2. ASSUME NEW i \in D PROVE g[i] = From(f, i)
    <3> HIDE DEF f
    <3>1. i # 0 => i - 1 \in D
      BY <1>0
    <3>2. i # 0 => f[i - 1] = g[i - 1]
      BY <2>1, <3>1
    <3> QED BY <3>2, <1>4
  <2>3. f = [i \in D |-> From(f, i)]
    <3>1. f = [i \in D |-> g[i]]
      OBVIOUS
    <3> HIDE DEF f
    <3> QED BY <3>1, <2>2
  <2> QED BY <2>3
<1>6. PICK f : f = (CHOOSE h : R(h)) /\ R(f)
  BY <1>5
<1>7. Carries(q, s) = f
  BY <1>0, <1>6 DEF Carries
<1>8. f = [i \in D |-> From(f, i)]
  BY <1>6
<1>9. \A i \in D : f[i] = From(f, i)
  BY <1>8
<1>10. 0 \in D /\ \A i \in 1 .. Len(s) : i \in D /\ i # 0
  BY <1>0
<1> QED BY <1>7, <1>9, <1>10

\* The digests of the children that a layer of a map stands for.
LayerBody(q, c, layer) ==
    [b \in Branch |->
        IF b \notin layer.bv THEN NoHash
        ELSE IF b = BranchBits(q, layer.len) THEN c.meta
        ELSE layer.child_data[b]]

\* A layer that verify_proof does not reject.
LEMMA LayerAccepted ==
    ASSUME NEW q, NEW c, NEW layer, VerifyLayer(q, c, layer).ok
    PROVE  /\ c.ok
           /\ layer.len = KeyLen =>
                /\ c.meta = NoHash
                /\ VerifyLayer(q, c, layer).meta = ValueDigest(q, layer.child_data[1])
           /\ layer.len # KeyLen =>
                /\ BranchBits(q, layer.len) \in layer.bv <=> c.meta # NoHash
                /\ VerifyLayer(q, c, layer).meta
                     = MapDigest(q, layer.len, LayerBody(q, c, layer))
<1>1. c.ok
  BY DEF VerifyLayer
<1>2. ~Rejected.ok
  BY DEF Rejected
<1>3. ASSUME layer.len = KeyLen
      PROVE  /\ c.meta = NoHash
             /\ VerifyLayer(q, c, layer).meta = ValueDigest(q, layer.child_data[1])
  <2>1. VerifyLayer(q, c, layer) = LeafLayer(q, c, layer)
    BY <1>1, <1>3 DEF VerifyLayer
  <2>2. /\ c.meta = NoHash
        /\ LeafLayer(q, c, layer) = Carry(ValueDigest(q, layer.child_data[1]), layer.len)
    BY <1>2, <2>1 DEF LeafLayer
  <2>3. Carry(ValueDigest(q, layer.child_data[1]), layer.len).meta
          = ValueDigest(q, layer.child_data[1])
    BY DEF Carry
  <2> QED BY <2>1, <2>2, <2>3
<1>4. ASSUME layer.len # KeyLen
      PROVE  /\ BranchBits(q, layer.len) \in layer.bv <=> c.meta # NoHash
             /\ VerifyLayer(q, c, layer).meta
                  = MapDigest(q, layer.len, LayerBody(q, c, layer))
  <2>1. VerifyLayer(q, c, layer) = MapLayer(q, c, layer)
    BY <1>1, <1>4 DEF VerifyLayer
  <2>2. /\ BranchBits(q, layer.len) \in layer.bv <=> c.meta # NoHash
        /\ MapLayer(q, c, layer)
             = Carry(MapDigest(q, layer.len, LayerBody(q, c, layer)), layer.len)
    BY <1>2, <2>1 DEF MapLayer, LayerBody
  <2>3. Carry(MapDigest(q, layer.len, LayerBody(q, c, layer)), layer.len).meta
          = MapDigest(q, layer.len, LayerBody(q, c, layer))
    BY DEF Carry
  <2> QED BY <2>1, <2>2, <2>3
<1> QED BY <1>1, <1>3, <1>4

LEMMA DigestDistinct ==
    /\ \A q, v : ValueDigest(q, v) # NoHash
    /\ \A q, l, kids : MapDigest(q, l, kids) # NoHash
BY HashOfDistinct DEF Distinct, ValueDigest, MapDigest

\* A key whose slot in a node on its path is empty is not in the trie.
LEMMA NotThere ==
    ASSUME ShapeInv, NEW q \in Keys, NEW n \in live, ~IsLeaf(n),
           IsPrefixOf(pfx[n], len[n], q, KeyLen), Slot(n, q) \notin Kids(n)
    PROVE  View[q] = NoValue
<1>1. TypeOK /\ TreeOK /\ q \in Key
  BY KeysAssumption DEF ShapeInv
<1>2. Slot(n, q) \in Branch /\ len[n] < KeyLen
  BY <1>1, WordFacts
<1>3. At(n, q).ptr = NULL
  BY <1>2 DEF Kids, At
<1>4. ASSUME NEW x \in Leaves, pfx[x] = q PROVE FALSE
  <2>1. x \in live /\ len[x] = KeyLen /\ Above(n, x) /\ len[n] < len[x]
    BY <1>2, <1>4 DEF Leaves, IsLeaf, Above
  <2>2. At(n, pfx[x]).ptr # NULL
    BY <1>1, <2>1 DEF TreeOK, PathsComplete
  <2> QED BY <1>3, <1>4, <2>2
<1> QED BY <1>4 DEF View

\* What the digests of the nodes tell about the digest that verify_proof
\* carries: a layer whose digest is that of a node is a layer of that node.
LEMMA LayerOfNode ==
    ASSUME ShapeInv, DigestInv, hashed, NEW q \in Keys, NEW c, NEW layer, NEW n \in live,
           VerifyLayer(q, c, layer).ok, VerifyLayer(q, c, layer).meta = hash[n]
    PROVE  /\ c.ok
           /\ c.meta = NoHash =>
                (IF layer.len = KeyLen THEN layer.child_data[1] ELSE NoValue) = View[q]
           /\ c.meta # NoHash => \E m \in live : c.meta = hash[m]
<1>1. /\ TypeOK /\ TreeOK /\ NodesNamed /\ n \in Addr /\ q \in Key
      /\ len[n] \in PrefixLen /\ pfx[n] \in Key
  BY KeysAssumption DEF ShapeInv, DigestInv, TypeOK
<1>2. \A x \in live : hash[x] # NoHash /\ hash[x] = HashOf(x)
  BY AllHashed
<1>3. CASE layer.len = KeyLen
  <2>1. c.ok /\ c.meta = NoHash /\ hash[n] = ValueDigest(q, layer.child_data[1])
    BY <1>3, LayerAccepted
  <2>2. PICK body : hash[n] = [pfx |-> pfx[n], len |-> len[n], body |-> body]
                    /\ (IsLeaf(n) => body = <<val[n]>>)
    BY <1>2 DEF HashOf, Digest
  <2>3. pfx[n] = q /\ len[n] = KeyLen /\ body = <<layer.child_data[1]>>
    BY <2>1, <2>2, SameDigest DEF ValueDigest
  <2>4. IsLeaf(n) /\ <<val[n]>> = <<layer.child_data[1]>>
    BY <2>2, <2>3 DEF IsLeaf
  <2>5. View[q] = val[n]
    BY <1>1, <2>3, <2>4, LeafView
  <2> QED BY <1>3, <2>1, <2>4, <2>5
<1>4. CASE layer.len # KeyLen
  <2>1. PICK B, bb : B = LayerBody(q, c, layer) /\ bb = BranchBits(q, layer.len)
    OBVIOUS
  <2>2. c.ok /\ (bb \in layer.bv <=> c.meta # NoHash) /\ hash[n] = MapDigest(q, layer.len, B)
    BY <1>4, <2>1, LayerAccepted
  <2>3. PICK body : hash[n] = [pfx |-> pfx[n], len |-> len[n], body |-> body]
                    /\ (~IsLeaf(n) => body = [b \in Branch |-> IF b \in Kids(n) THEN hash[word[n][b].ptr]
                                                               ELSE NoHash])
    BY <1>2 DEF HashOf, Digest
  <2>4. pfx[n] = Truncate(q, layer.len) /\ len[n] = layer.len /\ body = B
    BY <2>2, <2>3, SameDigest DEF MapDigest
  <2>5. ~IsLeaf(n) /\ bb = Slot(n, q)
    BY <1>4, <2>1, <2>4 DEF IsLeaf, Slot
  <2>6. bb \in Branch /\ len[n] < KeyLen
    BY <1>1, <2>5, WordFacts
  <2>7. B[bb] = IF bb \in Kids(n) THEN hash[word[n][bb].ptr] ELSE NoHash
    BY <2>3, <2>4, <2>5, <2>6
  <2>8. B[bb] = IF bb \notin layer.bv THEN NoHash ELSE c.meta
    BY <2>1, <2>6 DEF LayerBody
  <2>9. bb \in Kids(n) => word[n][bb].ptr \in live
    BY <1>1, <2>5, <2>6 DEF Kids, TreeOK, EdgesDescend
  <2>10. ASSUME c.meta = NoHash PROVE View[q] = NoValue
    <3>1. bb \notin Kids(n)
      BY <1>2, <2>2, <2>7, <2>8, <2>9, <2>10
    <3>2. IsPrefixOf(pfx[n], len[n], q, KeyLen)
      <4>1. KeyLen \in PrefixLen /\ len[n] <= KeyLen
        BY <1>1, <2>6, KeyLenAssumption DEF PrefixLen
      <4> QED BY <1>1, <2>4, <4>1, TruncateFact
    <3> QED BY <2>5, <3>1, <3>2, NotThere
  <2>11. ASSUME c.meta # NoHash PROVE \E m \in live : c.meta = hash[m]
    BY <2>2, <2>7, <2>8, <2>9, <2>11
  <2> QED BY <1>4, <2>2, <2>10, <2>11
<1> QED BY <1>3, <1>4

\* Whatever layers are presented: if verify_proof accepts them for a key, they
\* say what the trie holds.
LEMMA AcceptedIsTrue ==
    ASSUME ShapeInv, DigestInv, hashed, NEW q \in Keys, NEW s, Len(s) \in Nat,
           verify_proof([proved_prefix |-> q, proof_stack |-> s], hash[Root])
    PROVE  /\ Len(s) # 0
           /\ (IF s[1].len = KeyLen THEN s[1].child_data[1] ELSE NoValue) = View[q]
<1>1. PICK C, z : C = Carries(q, s) /\ z = Len(s) /\ z \in Nat
  OBVIOUS
<1>2. C[0] = NoneYet /\ \A i \in 1 .. z : C[i] = VerifyLayer(q, C[i - 1], s[i])
  BY <1>1, CarriesFact
<1>3. C[z].ok /\ C[z].meta = hash[Root]
  BY <1>1 DEF verify_proof
<1>4. Root \in live /\ hash[Root] # NoHash
  BY AllHashed DEF ShapeInv, RootStays
<1>5. z # 0
  BY <1>2, <1>3, <1>4 DEF NoneYet
<1>6. ASSUME NEW i \in 1 .. z, C[i].ok PROVE C[i].meta # NoHash
  <2>1. C[i] = VerifyLayer(q, C[i - 1], s[i])
    BY <1>2
  <2> QED BY <1>6, <2>1, LayerAccepted, DigestDistinct
<1> DEFINE Node(i) == C[i].ok /\ \E n \in live : C[i].meta = hash[n]
           S == {j \in 0 .. z - 1 : Node(z - j)}
<1>7. 0 \in S
  BY <1>1, <1>3, <1>4, <1>5
<1>8. ASSUME NEW j \in 0 .. z - 1, j + 1 <= z - 1, j \in S PROVE j + 1 \in S
  <2>1. PICK i : i = z - j /\ i \in 1 .. z /\ i - 1 \in 1 .. z /\ i - 1 = z - (j + 1)
    BY <1>1, <1>8
  <2>2. PICK n \in live : C[i].ok /\ C[i].meta = hash[n]
    BY <1>8, <2>1
  <2>3. PICK c, y : c = C[i - 1] /\ y = s[i]
    OBVIOUS
  <2>4. /\ C[i - 1].ok
        /\ C[i - 1].meta # NoHash => \E m \in live : C[i - 1].meta = hash[m]
    <3>1. VerifyLayer(q, c, y).ok /\ VerifyLayer(q, c, y).meta = hash[n]
      BY <1>2, <2>1, <2>2, <2>3
    <3>2. c.ok /\ (c.meta # NoHash => \E m \in live : c.meta = hash[m])
      BY <3>1, LayerOfNode
    <3> QED BY <2>3, <3>2
  <2>5. Node(i - 1)
    BY <1>6, <2>1, <2>4
  <2>6. j + 1 \in 0 .. z - 1
    BY <1>1, <1>8
  <2> HIDE DEF Node
  <2> QED BY <2>1, <2>5, <2>6
<1>9. Node(1)
  <2>1. z - 1 \in S
    <3> HIDE DEF S
    <3>1. 0 \in Nat /\ z - 1 \in Nat /\ z - 1 \in 0 .. z - 1
      BY <1>1, <1>5
    <3> QED BY <1>7, <1>8, <3>1, RangeInduction
  <2>2. z - (z - 1) = 1
    BY <1>1
  <2> HIDE DEF Node
  <2> QED BY <2>1, <2>2
<1>10. PICK n \in live : C[1].ok /\ C[1].meta = hash[n]
  BY <1>9
<1>11. C[1] = VerifyLayer(q, C[0], s[1])
  <2>1. 1 \in 1 .. z /\ 1 - 1 = 0
    BY <1>1, <1>5
  <2> QED BY <1>2, <2>1
<1>12. C[0].meta = NoHash
  BY <1>2 DEF NoneYet
<1> QED BY <1>1, <1>5, <1>10, <1>11, <1>12, LayerOfNode

\* One more layer above leaves what was carried before it.
LEMMA CarriesAppend ==
    ASSUME NEW q, NEW T, NEW s \in Seq(T), NEW x
    PROVE  /\ Len(Append(s, x)) = Len(s) + 1
           /\ Carries(q, Append(s, x))[Len(s) + 1] = VerifyLayer(q, Carries(q, s)[Len(s)], x)
<1>0. Len(s) \in Nat
  OBVIOUS
<1>1. PICK u, z : u = Append(s, x) /\ z = Len(s) /\ z \in Nat
  BY <1>0
<1>2. Len(u) = z + 1 /\ u[z + 1] = x /\ \A i \in 1 .. z : u[i] = s[i]
  BY <1>1
<1>3. PICK C, D : C = Carries(q, s) /\ D = Carries(q, u)
  OBVIOUS
<1>4. C[0] = NoneYet /\ \A i \in 1 .. z : C[i] = VerifyLayer(q, C[i - 1], s[i])
  BY <1>1, <1>3, CarriesFact
<1>5. D[0] = NoneYet /\ \A i \in 1 .. z + 1 : D[i] = VerifyLayer(q, D[i - 1], u[i])
  <2>1. Len(u) \in Nat
    BY <1>1, <1>2
  <2> QED BY <1>2, <1>3, <2>1, CarriesFact
<1> DEFINE S == {i \in 0 .. z : D[i] = C[i]}
<1>6. 0 \in S
  BY <1>1, <1>4, <1>5
<1>7. ASSUME NEW i \in 0 .. z, i + 1 <= z, i \in S PROVE i + 1 \in S
  <2>1. i + 1 \in 1 .. z /\ i + 1 \in 1 .. z + 1 /\ i + 1 \in 0 .. z /\ (i + 1) - 1 = i
    BY <1>1, <1>7
  <2>2. D[i + 1] = VerifyLayer(q, D[i], u[i + 1]) /\ C[i + 1] = VerifyLayer(q, C[i], s[i + 1])
    BY <1>4, <1>5, <2>1
  <2> QED BY <1>2, <1>7, <2>1, <2>2
<1>8. z \in S
  <2> HIDE DEF S
  <2>1. 0 \in Nat /\ z \in 0 .. z
    BY <1>1
  <2> QED BY <1>1, <1>6, <1>7, <2>1, RangeInduction
<1>9. D[z + 1] = VerifyLayer(q, D[z], u[z + 1])
  <2>1. z + 1 \in 1 .. z + 1 /\ (z + 1) - 1 = z
    BY <1>1
  <2> QED BY <1>5, <2>1
<1> QED BY <1>1, <1>2, <1>3, <1>8, <1>9

LEMMA CarriesOne ==
    ASSUME NEW q, NEW x
    PROVE  Len(<<x>>) = 1 /\ Carries(q, <<x>>)[1] = VerifyLayer(q, NoneYet, x)
<1>1. PICK s : s = <<x>>
  OBVIOUS
<1>2. Len(s) = 1 /\ s[1] = x
  BY <1>1
<1>3. Carries(q, s)[0] = NoneYet /\ Carries(q, s)[1] = VerifyLayer(q, Carries(q, s)[1 - 1], s[1])
  BY <1>2, CarriesFact
<1> QED BY <1>1, <1>2, <1>3

\* The layers that make_proof can push.
MadeLayers == {BaseLayer(n) : n \in live} \cup {PathLayer(n, b) : n \in live, b \in Branch}

LEMMA AppendMade ==
    ASSUME NEW T, NEW s \in Seq(T), NEW x \in T
    PROVE  Append(s, x) \in Seq(T) /\ Append(s, x) # <<>>
<1>1. Append(s, x) \in Seq(T) /\ Len(Append(s, x)) = Len(s) + 1 /\ Len(s) \in Nat
  OBVIOUS
<1> QED BY <1>1

LEMMA StackType ==
    ASSUME ShapeInv, NEW q \in Key, NEW l \in PrefixLen
    PROVE  \A n \in live : ProofStack(q, l)[n] \in Seq(MadeLayers) /\ ProofStack(q, l)[n] # <<>>
<1>1. PICK st : st = ProofStack(q, l)
  OBVIOUS
<1>2. \A n \in live : st[n] = LayersFrom(q, l, n, st)
  BY <1>1, StackFact
<1>3. \A n \in live : len[n] \in 0 .. KeyLen
  BY DEF ShapeInv, TypeOK, PrefixLen
<1> DEFINE Ok(n) == st[n] \in Seq(MadeLayers) /\ st[n] # <<>>
           G == {h \in 0 .. KeyLen : \A n \in live : len[n] >= KeyLen - h => Ok(n)}
<1>4. ASSUME NEW n \in live, ~EndsAt(n, q, l) => Ok(At(n, q).ptr) PROVE Ok(n)
  <2>1. CASE EndsAt(n, q, l)
    <3>1. PICK x : x = BaseLayer(n)
      OBVIOUS
    <3>2. x \in MadeLayers
      BY <3>1 DEF MadeLayers
    <3>3. st[n] = <<x>>
      BY <1>2, <2>1, <3>1 DEF LayersFrom
    <3> QED BY <3>2, <3>3
  <2>2. CASE ~EndsAt(n, q, l)
    <3>1. PICK x : x = PathLayer(n, Slot(n, q))
      OBVIOUS
    <3>2. Slot(n, q) \in Branch
      BY <2>2, ProofDescends DEF Kids
    <3>3. x \in MadeLayers
      BY <3>1, <3>2 DEF MadeLayers
    <3>4. st[n] = Append(st[At(n, q).ptr], x) /\ st[At(n, q).ptr] \in Seq(MadeLayers)
      BY <1>2, <1>4, <2>2, <3>1 DEF LayersFrom
    <3> QED BY <3>3, <3>4, AppendMade
  <2> QED BY <2>1, <2>2
<1> HIDE DEF Ok
<1>5. \A n \in live : ~EndsAt(n, q, l) =>
         At(n, q).ptr \in live /\ len[n] < len[At(n, q).ptr] /\ len[n] < KeyLen
  BY ProofDescends
<1>6. 0 \in G
  <2>1. ASSUME NEW n \in live, len[n] >= KeyLen - 0 PROVE Ok(n)
    BY <1>3, <1>4, <1>5, <2>1, KeyLenAssumption
  <2> QED BY <2>1, KeyLenAssumption
<1>7. ASSUME NEW h \in 0 .. KeyLen, h + 1 <= KeyLen, h \in G PROVE h + 1 \in G
  <2>1. ASSUME NEW n \in live, len[n] >= KeyLen - (h + 1) PROVE Ok(n)
    <3>1. ASSUME ~EndsAt(n, q, l) PROVE Ok(At(n, q).ptr)
      <4>1. PICK c : c = At(n, q).ptr
        OBVIOUS
      <4>2. c \in live /\ len[n] < len[c] /\ len[c] \in 0 .. KeyLen /\ len[n] \in 0 .. KeyLen
        BY <1>3, <1>5, <3>1, <4>1
      <4>3. len[c] >= KeyLen - h
        BY <1>7, <2>1, <4>2, KeyLenAssumption
      <4> QED BY <1>7, <4>1, <4>2, <4>3
    <3> QED BY <1>4, <3>1
  <2> QED BY <1>7, <2>1, KeyLenAssumption
<1>8. KeyLen \in G
  <2> HIDE DEF G
  <2>1. 0 \in Nat /\ KeyLen \in Nat /\ KeyLen \in 0 .. KeyLen
    BY KeyLenAssumption
  <2> QED BY <1>6, <1>7, <2>1, RangeInduction
<1>9. \A n \in live : Ok(n)
  <2> SUFFICES ASSUME NEW n \in live PROVE Ok(n)
    OBVIOUS
  <2>1. len[n] >= KeyLen - KeyLen
    BY <1>3, KeyLenAssumption
  <2> QED BY <1>8, <2>1
<1> QED BY <1>1, <1>9 DEF Ok

\* make_proof follows the key: the trie holds it, or has an empty slot for it
\* in a node on its path.
OnPath(k) == (\E x \in Leaves : pfx[x] = k) \/ SlotEmpty(k)

LEMMA PathGoesOn ==
    ASSUME ShapeInv, NEW k \in Keys, OnPath(k), NEW n \in live, Covers(n, k),
           ~EndsAt(n, k, KeyLen)
    PROVE  Covers(At(n, k).ptr, k)
<1>1. /\ TypeOK /\ TreeOK /\ k \in Key /\ live \subseteq Addr /\ KeyLen \in PrefixLen
      /\ \A x \in live : len[x] \in PrefixLen /\ pfx[x] \in Key
  BY KeysAssumption, KeyLenAssumption DEF ShapeInv, TypeOK, PrefixLen
<1>2. PICK c : c = At(n, k).ptr
  OBVIOUS
<1>3. c \in live /\ c # NULL /\ len[n] < len[c] /\ len[n] < KeyLen /\ Slot(n, k) \in Kids(n) /\ ~IsLeaf(n)
  BY <1>1, <1>2, ProofDescends
<1>4. IsPrefixOf(pfx[n], len[n], k, KeyLen)
  BY <1>1, CoversPrefix
<1>5. ASSUME NEW x \in live, Above(n, x), len[n] < len[x], IsPrefixOf(pfx[x], len[x], k, KeyLen)
      PROVE  Covers(c, k)
  <2>1. BranchBits(pfx[x], len[n]) = BranchBits(k, len[n])
    BY <1>1, <1>5, PrefixDigit
  <2>2. At(n, pfx[x]) = At(n, k)
    BY <2>1 DEF At, Slot
  <2>3. Above(c, x)
    BY <1>1, <1>2, <1>5, <2>2 DEF TreeOK, PathsComplete
  <2>4. IsPrefixOf(pfx[c], len[c], k, KeyLen)
    BY <1>1, <1>3, <1>5, <2>3, PrefixTrans DEF Above
  <2> QED BY <1>1, <1>3, <2>4, CoversPrefix
<1>6. CASE \E x \in Leaves : pfx[x] = k
  <2>1. PICK x \in live : pfx[x] = k /\ len[x] = KeyLen
    BY <1>6 DEF Leaves, IsLeaf
  <2>2. IsPrefixOf(pfx[x], len[x], k, KeyLen)
    BY <1>1, <2>1, PrefixRefl
  <2>3. Above(n, x) /\ len[n] < len[x]
    BY <1>3, <1>4, <2>1 DEF Above
  <2> QED BY <1>2, <1>5, <2>2, <2>3
<1>7. CASE SlotEmpty(k)
  <2>1. PICK m \in live : ~IsLeaf(m) /\ Covers(m, k) /\ Slot(m, k) \notin Kids(m)
    BY <1>7 DEF SlotEmpty
  <2>2. IsPrefixOf(pfx[m], len[m], k, KeyLen)
    BY <1>1, <2>1, CoversPrefix
  <2>3. At(m, k).ptr = NULL
    <3>1. Slot(m, k) \in Branch
      BY <1>1, <2>1, WordFacts
    <3> QED BY <2>1, <3>1 DEF Kids, At
  <2>4. CASE len[n] < len[m]
    <3>1. Above(n, m)
      BY <1>1, <1>4, <2>2, <2>4, PrefixCompare DEF Above, PrefixLen
    <3> QED BY <1>2, <1>5, <2>2, <2>4, <3>1
  <2>5. CASE len[m] < len[n]
    <3>1. Above(m, n)
      BY <1>1, <1>4, <2>2, <2>5, PrefixCompare DEF Above, PrefixLen
    <3>2. BranchBits(pfx[n], len[m]) = BranchBits(k, len[m])
      BY <1>1, <1>4, <2>5, PrefixDigit
    <3>3. At(m, pfx[n]) = At(m, k)
      BY <3>2 DEF At, Slot
    <3> QED BY <1>1, <2>3, <2>5, <3>1, <3>3 DEF TreeOK, PathsComplete
  <2>6. CASE len[m] = len[n]
    <3>1. Above(n, m)
      BY <1>1, <1>4, <2>2, <2>6, PrefixCompare DEF Above, PrefixLen
    <3>2. n = m
      BY <1>1, <2>6, <3>1 DEF TreeOK, NoDuplicates
    <3> QED BY <1>3, <2>1, <3>2
  <2> QED BY <1>1, <2>4, <2>5, <2>6, KeyLenAssumption DEF PrefixLen
<1> QED BY <1>6, <1>7 DEF OnPath

\* The header of a node on the path of a key is recomputed from the key.
LEMMA HeaderFromKey ==
    ASSUME ShapeInv, NodesNamed, NEW k \in Key, NEW n \in live, Covers(n, k)
    PROVE  Truncate(k, len[n]) = pfx[n]
<1>1. TypeOK /\ n \in Addr /\ len[n] \in PrefixLen /\ pfx[n] = Truncate(pfx[n], len[n])
  BY DEF ShapeInv, TypeOK, NodesNamed
<1>2. IsPrefixOf(pfx[n], len[n], k, KeyLen)
  BY <1>1, CoversPrefix
<1>3. \A i \in 1 .. KeyLen : i <= len[n] => pfx[n][i] = k[i]
  BY <1>1, <1>2 DEF IsPrefixOf, PrefixLen
<1>4. Truncate(k, len[n]) = Truncate(pfx[n], len[n])
  BY <1>3 DEF Truncate
<1> QED BY <1>1, <1>4

\* The layer where the search ends gives the digest of its node.
LEMMA BaseVerified ==
    ASSUME ShapeInv, DigestInv, hashed, NEW k \in Keys, NEW n \in live,
           Covers(n, k), EndsAt(n, k, KeyLen)
    PROVE  VerifyLayer(k, NoneYet, BaseLayer(n)) = Carry(hash[n], len[n])
<1>1. /\ TypeOK /\ TreeOK /\ NodesNamed /\ k \in Key /\ n \in Addr
      /\ len[n] \in PrefixLen /\ pfx[n] \in Key
  BY KeysAssumption DEF ShapeInv, DigestInv, TypeOK
<1>2. hash[n] = HashOf(n) /\ Truncate(k, len[n]) = pfx[n]
  BY <1>1, AllHashed, HeaderFromKey
<1>3. NoneYet.ok /\ NoneYet.meta = NoHash
  BY DEF NoneYet
<1>4. PICK y : y = BaseLayer(n)
  OBVIOUS
<1>5. CASE IsLeaf(n)
  <2>1. y.len = KeyLen /\ y.bv = {} /\ y.child_data = <<val[n]>> /\ len[n] = KeyLen
    BY <1>4, <1>5 DEF BaseLayer, Layer, IsLeaf
  <2>2. Len(y.child_data) = 1 /\ y.child_data[1] = val[n]
    BY <2>1
  <2>3. VerifyLayer(k, NoneYet, y) = Carry(ValueDigest(k, val[n]), KeyLen)
    BY <1>3, <2>1, <2>2 DEF VerifyLayer, LeafLayer
  <2>4. pfx[n] = k
    BY <1>1, <1>2, <2>1, FullTruncate
  <2>5. hash[n] = ValueDigest(k, val[n])
    BY <1>2, <1>5, <2>1, <2>4 DEF HashOf, Digest, ValueDigest
  <2> QED BY <1>4, <2>1, <2>3, <2>5
<1>6. CASE ~IsLeaf(n)
  <2>1. len[n] < KeyLen /\ Slot(n, k) \in Branch
    BY <1>1, <1>6, WordFacts
  <2>2. Slot(n, k) \notin Kids(n)
    BY <1>1, <2>1, KeyLenAssumption DEF EndsAt, min, PrefixLen
  <2>3. y.len = len[n] /\ y.bv = Kids(n) /\ y.child_data = [b \in Kids(n) |-> ChildHash(n, b)]
    BY <1>4, <1>6 DEF BaseLayer, Layer
  <2>4. y.len # KeyLen /\ BranchBits(k, y.len) = Slot(n, k) /\ DOMAIN y.child_data = Kids(n)
    BY <1>6, <2>3 DEF IsLeaf, Slot
  <2>5. VerifyLayer(k, NoneYet, y) = Carry(MapDigest(k, y.len, LayerBody(k, NoneYet, y)), y.len)
    BY <1>3, <2>2, <2>3, <2>4 DEF VerifyLayer, MapLayer, LayerBody
  <2>6. LayerBody(k, NoneYet, y)
        = [b \in Branch |-> IF b \in Kids(n) THEN hash[word[n][b].ptr] ELSE NoHash]
    BY <2>2, <2>3, <2>4 DEF LayerBody, ChildHash
  <2>7. hash[n] = MapDigest(k, len[n], LayerBody(k, NoneYet, y))
    BY <1>2, <1>6, <2>6 DEF HashOf, Digest, MapDigest
  <2> QED BY <1>4, <2>3, <2>5, <2>7
<1> QED BY <1>5, <1>6

\* A layer above gives the digest of its node, from that of the child.
LEMMA PathVerified ==
    ASSUME ShapeInv, DigestInv, hashed, NEW k \in Keys, NEW n \in live,
           Covers(n, k), ~EndsAt(n, k, KeyLen), NEW c, c = At(n, k).ptr
    PROVE  VerifyLayer(k, Carry(hash[c], len[c]), PathLayer(n, Slot(n, k)))
           = Carry(hash[n], len[n])
<1>1. /\ TypeOK /\ TreeOK /\ NodesNamed /\ k \in Key /\ n \in Addr
      /\ KeyLen \in PrefixLen /\ \A x \in live : len[x] \in PrefixLen
  BY KeysAssumption, KeyLenAssumption DEF ShapeInv, DigestInv, TypeOK, PrefixLen
<1>2. ~IsLeaf(n) /\ len[n] < KeyLen /\ Slot(n, k) \in Kids(n) /\ c \in live /\ len[n] < len[c]
  BY <1>1, ProofDescends
<1>3. hash[n] = HashOf(n) /\ Truncate(k, len[n]) = pfx[n] /\ hash[c] # NoHash
  BY <1>1, <1>2, AllHashed, HeaderFromKey
<1>4. PICK y, d : y = PathLayer(n, Slot(n, k)) /\ d = Carry(hash[c], len[c])
  OBVIOUS
<1>5. d.ok /\ d.meta = hash[c] /\ d.len = len[c]
  BY <1>4 DEF Carry
<1>6. /\ y.len = len[n] /\ y.bv = Kids(n)
      /\ y.child_data = [b \in Kids(n) \ {Slot(n, k)} |-> ChildHash(n, b)]
  BY <1>4 DEF PathLayer, Layer
<1>7. y.len # KeyLen /\ BranchBits(k, y.len) = Slot(n, k) /\ DOMAIN y.child_data = Kids(n) \ {Slot(n, k)}
  BY <1>2, <1>6 DEF IsLeaf, Slot
<1>8. ~(d.len <= y.len)
  BY <1>1, <1>2, <1>5, <1>6, KeyLenAssumption DEF PrefixLen
<1>9. VerifyLayer(k, d, y) = Carry(MapDigest(k, y.len, LayerBody(k, d, y)), y.len)
  BY <1>2, <1>3, <1>5, <1>6, <1>7, <1>8 DEF VerifyLayer, MapLayer, LayerBody
<1>10. LayerBody(k, d, y)
       = [b \in Branch |-> IF b \in Kids(n) THEN hash[word[n][b].ptr] ELSE NoHash]
  <2>1. word[n][Slot(n, k)].ptr = c
    BY DEF At
  <2>2. ASSUME NEW b \in Branch
        PROVE  (IF b \notin y.bv THEN NoHash
                ELSE IF b = BranchBits(k, y.len) THEN d.meta
                ELSE y.child_data[b])
               = IF b \in Kids(n) THEN hash[word[n][b].ptr] ELSE NoHash
    BY <1>5, <1>6, <1>7, <2>1 DEF ChildHash
  <2> QED BY <2>2 DEF LayerBody
<1>11. hash[n] = MapDigest(k, len[n], LayerBody(k, d, y))
  BY <1>2, <1>3, <1>10 DEF HashOf, Digest, MapDigest
<1> QED BY <1>4, <1>6, <1>9, <1>11

\* verify_proof accepts what make_proof makes for a key on whose path it gets
\* to the key or to an empty slot.
LEMMA MadeIsAccepted ==
    ASSUME ShapeInv, DigestInv, hashed, NEW k \in Keys, OnPath(k)
    PROVE  verify_proof(make_proof(k, KeyLen), hash[Root])
<1>1. k \in Key /\ KeyLen \in PrefixLen /\ \A n \in live : len[n] \in 0 .. KeyLen
  BY KeysAssumption, KeyLenAssumption DEF ShapeInv, TypeOK, PrefixLen
<1>2. PICK st : st = ProofStack(k, KeyLen)
  OBVIOUS
<1>3. \A n \in live : st[n] = LayersFrom(k, KeyLen, n, st)
  BY <1>1, <1>2, StackFact
<1>4. \A n \in live : st[n] \in Seq(MadeLayers)
  BY <1>1, <1>2, StackType
<1> DEFINE Ok(n) == Carries(k, st[n])[Len(st[n])] = Carry(hash[n], len[n])
           G == {h \in 0 .. KeyLen : \A n \in live : Covers(n, k) /\ len[n] >= KeyLen - h => Ok(n)}
<1>5. ASSUME NEW n \in live, Covers(n, k), EndsAt(n, k, KeyLen) PROVE Ok(n)
  <2>1. PICK x : x = BaseLayer(n)
    OBVIOUS
  <2>2. st[n] = <<x>>
    BY <1>3, <1>5, <2>1 DEF LayersFrom
  <2>3. Len(st[n]) = 1 /\ Carries(k, st[n])[1] = VerifyLayer(k, NoneYet, x)
    BY <2>2, CarriesOne
  <2> QED BY <1>5, <2>1, <2>3, BaseVerified
<1>6. ASSUME NEW n \in live, Covers(n, k), ~EndsAt(n, k, KeyLen), Ok(At(n, k).ptr) PROVE Ok(n)
  <2>1. PICK x, c : x = PathLayer(n, Slot(n, k)) /\ c = At(n, k).ptr
    OBVIOUS
  <2>2. PICK s : s = st[c]
    OBVIOUS
  <2>3. c \in live /\ s \in Seq(MadeLayers)
    BY <1>1, <1>4, <1>6, <2>1, <2>2, ProofDescends
  <2>4. st[n] = Append(s, x)
    BY <1>3, <1>6, <2>1, <2>2 DEF LayersFrom
  <2>5. Len(st[n]) = Len(s) + 1 /\ Carries(k, st[n])[Len(s) + 1] = VerifyLayer(k, Carries(k, s)[Len(s)], x)
    BY <2>3, <2>4, CarriesAppend
  <2>6. Carries(k, s)[Len(s)] = Carry(hash[c], len[c])
    BY <1>6, <2>1, <2>2
  <2>7. VerifyLayer(k, Carry(hash[c], len[c]), x) = Carry(hash[n], len[n])
    BY <1>6, <2>1, PathVerified
  <2> QED BY <2>5, <2>6, <2>7
<1>7. \A n \in live : ~EndsAt(n, k, KeyLen) =>
         At(n, k).ptr \in live /\ len[n] < len[At(n, k).ptr] /\ len[n] < KeyLen
  BY <1>1, ProofDescends
<1> HIDE DEF Ok
<1>8. 0 \in G
  <2>1. ASSUME NEW n \in live, Covers(n, k), len[n] >= KeyLen - 0 PROVE Ok(n)
    BY <1>1, <1>5, <1>7, <2>1, KeyLenAssumption
  <2> QED BY <2>1, KeyLenAssumption
<1>9. ASSUME NEW h \in 0 .. KeyLen, h + 1 <= KeyLen, h \in G PROVE h + 1 \in G
  <2>1. ASSUME NEW n \in live, Covers(n, k), len[n] >= KeyLen - (h + 1) PROVE Ok(n)
    <3>1. ASSUME ~EndsAt(n, k, KeyLen) PROVE Ok(At(n, k).ptr)
      <4>1. PICK c : c = At(n, k).ptr
        OBVIOUS
      <4>2. c \in live /\ len[n] < len[c] /\ len[c] \in 0 .. KeyLen /\ len[n] \in 0 .. KeyLen
        BY <1>1, <1>7, <3>1, <4>1
      <4>3. len[c] >= KeyLen - h
        BY <1>9, <2>1, <4>2, KeyLenAssumption
      <4>4. Covers(c, k)
        BY <2>1, <3>1, <4>1, PathGoesOn
      <4> QED BY <1>9, <4>1, <4>2, <4>3, <4>4
    <3> QED BY <1>5, <1>6, <2>1, <3>1
  <2> QED BY <1>9, <2>1, KeyLenAssumption
<1>10. KeyLen \in G
  <2> HIDE DEF G
  <2>1. 0 \in Nat /\ KeyLen \in Nat /\ KeyLen \in 0 .. KeyLen
    BY KeyLenAssumption
  <2> QED BY <1>8, <1>9, <2>1, RangeInduction
<1>11. Ok(Root)
  <2>1. TypeOK /\ Root \in live /\ Root \in Addr /\ len[Root] = 0
    BY AddrAssumption DEF ShapeInv, RootStays
  <2>2. IsPrefixOf(pfx[Root], len[Root], k, KeyLen)
    BY <2>1, KeyLenAssumption DEF IsPrefixOf
  <2>3. Covers(Root, k)
    BY <1>1, <2>1, <2>2, CoversPrefix
  <2>4. len[Root] >= KeyLen - KeyLen
    BY <2>1, KeyLenAssumption
  <2> QED BY <1>10, <2>1, <2>3, <2>4
<1>12. PICK p : p = make_proof(k, KeyLen)
  OBVIOUS
<1>13. p.proved_prefix = k /\ p.proof_stack = st[Root]
  BY <1>2, <1>12 DEF make_proof
<1>14. Carry(hash[Root], len[Root]).ok /\ Carry(hash[Root], len[Root]).meta = hash[Root]
  BY DEF Carry
<1> QED BY <1>11, <1>12, <1>13, <1>14 DEF verify_proof, Ok

\* Everything that is presented for a key is a sequence of layers.
LEMMA PresentedStacks ==
    ASSUME ShapeInv, NEW k \in Keys, NEW p \in Presented(k)
    PROVE  p = [proved_prefix |-> k, proof_stack |-> p.proof_stack] /\ Len(p.proof_stack) \in Nat
<1>1. ASSUME NEW s \in Made PROVE s \in Seq(MadeLayers) /\ s # <<>>
  <2>1. PICK j \in Keys, l \in PrefixLen : s = make_proof(j, l).proof_stack
    BY DEF Made
  <2>2. s = ProofStack(j, l)[Root]
    BY <2>1 DEF make_proof
  <2>3. j \in Key /\ Root \in live
    BY KeysAssumption DEF ShapeInv, RootStays
  <2> QED BY <2>2, <2>3, StackType
<1>2. p \in [proved_prefix : {k}, proof_stack : Made \cup Altered(Made) \cup Shortened(Made)]
  BY DEF Presented
<1>3. ASSUME NEW s \in Altered(Made) PROVE Len(s) \in Nat
  <2>1. PICK x \in Made, v \in Value : s = [x EXCEPT ![1] = Layer(KeyLen, {}, <<v>>)]
    BY DEF Altered
  <2>2. PICK y : y = Layer(KeyLen, {}, <<v>>)
    OBVIOUS
  <2>3. x \in Seq(MadeLayers \cup {y}) /\ x # <<>>
    BY <1>1
  <2>4. s = [x EXCEPT ![1] = y]
    BY <2>1, <2>2
  <2>5. s \in Seq(MadeLayers \cup {y})
    BY <2>3, <2>4
  <2> QED BY <2>5
<1>4. ASSUME NEW s \in Shortened(Made) PROVE Len(s) \in Nat
  <2>1. PICK x \in Made : s = Tail(x)
    BY DEF Shortened
  <2> QED BY <1>1, <2>1
<1>5. PICK u : u = p.proof_stack
  OBVIOUS
<1>6. u \in Made \cup Altered(Made) \cup Shortened(Made) /\ p = [proved_prefix |-> k, proof_stack |-> u]
  BY <1>2, <1>5
<1>7. Len(u) \in Nat
  BY <1>1, <1>3, <1>4, <1>6
<1> QED BY <1>5, <1>6, <1>7

LEMMA ProofsStatic == ShapeInv /\ DigestInv => ProofsExact
<1> SUFFICES ASSUME ShapeInv, DigestInv, hashed PROVE ProofsSound /\ ProofsComplete
  BY DEF ProofsExact
<1>1. ASSUME NEW k \in Keys, NEW p \in Presented(k), verify_proof(p, hash[Root])
      PROVE  Says(p) = View[k]
  <2>1. PICK s : s = p.proof_stack
    OBVIOUS
  <2>2. p = [proved_prefix |-> k, proof_stack |-> s] /\ Len(s) \in Nat
    BY <2>1, PresentedStacks
  <2>3. (IF s[1].len = KeyLen THEN s[1].child_data[1] ELSE NoValue) = View[k]
    BY <1>1, <2>2, AcceptedIsTrue
  <2>4. Head(s) = s[1]
    OBVIOUS
  <2> QED BY <2>1, <2>3, <2>4 DEF Says
<1>2. ASSUME NEW k \in Keys, View[k] # NoValue \/ SlotEmpty(k)
      PROVE  verify_proof(make_proof(k, KeyLen), hash[Root])
  <2>1. View[k] # NoValue => \E x \in Leaves : pfx[x] = k
    BY DEF View
  <2> QED BY <1>2, <2>1, MadeIsAccepted DEF OnPath
<1> QED BY <1>1, <1>2 DEF ProofsSound, ProofsComplete

\* On a hashed trie verify_proof accepts what make_proof produces for a key
\* that is there or whose slot is empty, and nothing presented to it that
\* says something else than what the trie holds.
THEOREM ProofsAlwaysExact == Spec => []ProofsExact
BY ProofsStatic, ShapeInductive, DigestInductive, PTL

\* verify_proof is sound for every stack of layers, whatever their lengths, bit
\* vectors and child data, not only for those that come from make_proof: what
\* it accepts for a key against the digest that hash returned has a layer, and
\* says what the trie holds.
THEOREM NoProofLies ==
    ASSUME NEW CONSTANT k \in Keys, NEW CONSTANT L, NEW CONSTANT s \in Seq(L)
    PROVE  LET p == [proved_prefix |-> k, proof_stack |-> s]
           IN  Spec => [](hashed /\ verify_proof(p, hash[Root]) => s # <<>> /\ Says(p) = View[k])
<1> DEFINE p == [proved_prefix |-> k, proof_stack |-> s]
           Honest == hashed /\ verify_proof(p, hash[Root]) => s # <<>> /\ Says(p) = View[k]
<1>1. ShapeInv /\ DigestInv => Honest
  <2> SUFFICES ASSUME ShapeInv, DigestInv, hashed, verify_proof(p, hash[Root])
               PROVE  s # <<>> /\ Says(p) = View[k]
    OBVIOUS
  <2>1. /\ Len(s) # 0
        /\ (IF s[1].len = KeyLen THEN s[1].child_data[1] ELSE NoValue) = View[k]
    BY AcceptedIsTrue
  <2>2. s # <<>> /\ Head(s) = s[1] /\ p.proof_stack = s
    BY <2>1
  <2> QED BY <2>1, <2>2 DEF Says
<1> HIDE DEF Honest
<1>2. Spec => []Honest
  BY <1>1, ShapeInductive, DigestInductive, PTL
<1> QED BY <1>2 DEF Honest

\* What hash returns commits to the contents: it is the digest of a given map
\* exactly when the trie holds that map, whatever threads inserted it.
THEOREM HashCommits ==
    ASSUME NEW CONSTANT kv \in [Keys -> Value \cup {NoValue}]
    PROVE  Spec => [](hashed => (hash[Root] = CanonicalDigest(kv, NoValue, NoHash) <=> View = kv))
<1>1. RootHashCanonical
        => (hashed => (hash[Root] = CanonicalDigest(kv, NoValue, NoHash) <=> View = kv))
  <2> SUFFICES ASSUME hash[Root] = CanonicalDigest(View, NoValue, NoHash)
               PROVE  hash[Root] = CanonicalDigest(kv, NoValue, NoHash) <=> View = kv
    BY DEF RootHashCanonical
  <2>1. PICK w : w = View
    OBVIOUS
  <2>2. DOMAIN w = Keys /\ w = [k \in Keys |-> w[k]] /\ DOMAIN w \subseteq Key
    BY <2>1, KeysAssumption DEF View
  <2>3. ASSUME CanonicalDigest(w, NoValue, NoHash) = CanonicalDigest(kv, NoValue, NoHash)
        PROVE  w = kv
    <3>1. \A k \in DOMAIN w : w[k] = kv[k]
      BY <2>2, <2>3, HashOfDistinct, DigestCommits
    <3> QED BY <2>2, <3>1
  <2> QED BY <2>1, <2>3
<1> QED BY <1>1, RootHashExact, PTL

-----------------------------------------------------------------------------
(* The trie between calls *)

\* Every node but the root has a key below it.
LEMMA KeyBelow ==
    ASSUME ShapeInv, NEW n \in live, n # Root
    PROVE  \E x \in Leaves : Above(n, x)
<1> DEFINE Bare(m) == m # Root /\ ~\E x \in Leaves : Above(m, x)
           S == {i \in Nat : \E m \in live : Bare(m) /\ i = KeyLen - len[m]}
<1>1. /\ TypeOK /\ TreeOK /\ Root \in live /\ len[Root] = 0
      /\ \A m \in live : len[m] \in PrefixLen /\ len[m] \in Nat /\ KeyLen - len[m] \in Nat /\ pfx[m] \in Key
  BY KeyLenAssumption DEF ShapeInv, RootStays, TypeOK, PrefixLen
<1>2. SUFFICES ASSUME S # {} PROVE FALSE
  BY <1>1
<1>3. PICK i \in S : \A j \in S : i <= j
  BY <1>2, LeastNat
<1>4. PICK m \in live : Bare(m) /\ i = KeyLen - len[m]
  BY <1>3
<1>5. CASE IsLeaf(m)
  <2>1. m \in Leaves /\ Above(m, m)
    BY <1>1, <1>5, PrefixRefl DEF Leaves, Above
  <2> QED BY <1>4, <2>1
<1>6. CASE ~IsLeaf(m)
  <2>1. PICK b \in Kids(m) : TRUE
    BY <1>4, <1>6 DEF ShapeInv, BranchesPending
  <2>2. PICK c : c = word[m][b].ptr /\ c # NULL /\ b \in Branch
    BY <2>1 DEF Kids
  <2>3. c \in live /\ len[m] < len[c] /\ Above(m, c)
    BY <1>1, <1>6, <2>2 DEF TreeOK, EdgesDescend
  <2>4. c # Root /\ KeyLen - len[c] < i /\ KeyLen - len[c] \in Nat
    BY <1>1, <1>4, <2>3, KeyLenAssumption
  <2>5. ~Bare(c)
    BY <1>3, <2>3, <2>4
  <2>6. PICK x \in Leaves : Above(c, x)
    BY <2>4, <2>5
  <2>7. x \in live
    BY DEF Leaves
  <2>8. Above(m, x)
    BY <1>1, <2>3, <2>6, <2>7, PrefixTrans DEF Above
  <2> QED BY <1>4, <2>6, <2>8
<1> QED BY <1>5, <1>6

LEMMA BelowIsUnder ==
    ASSUME TypeOK, NEW n
    PROVE  KeysBelow(n) = KeysUnder({pfx[x] : x \in Leaves}, pfx[n], len[n])
<1>1. \A x \in Leaves : len[x] = KeyLen
  BY DEF Leaves, IsLeaf
<1> QED BY <1>1 DEF KeysBelow, KeysUnder, Above

\* There are as many keys as leaves.
LEMMA CountKeys ==
    ASSUME ShapeInv, IsFiniteSet(live), NEW n \in live, NEW b
    PROVE  Cardinality(Towards(KeysBelow(n), len[n], b)) = Cardinality(LeavesBelow(n, b))
<1>1. PICK X, K : X = LeavesBelow(n, b) /\ K = Towards(KeysBelow(n), len[n], b)
  OBVIOUS
<1>2. \A x \in X : x \in live /\ pfx[x] \in Key /\ len[x] = KeyLen
  BY <1>1 DEF LeavesBelow, Leaves, IsLeaf, ShapeInv, TypeOK
<1>3. K = {pfx[x] : x \in X}
  BY <1>1 DEF Towards, KeysBelow, LeavesBelow, Slot, BranchBits
<1>4. ASSUME NEW x \in X, NEW y \in X, pfx[x] = pfx[y] PROVE x = y
  <2>1. Above(x, y)
    BY <1>2, <1>4, PrefixRefl, KeyLenAssumption DEF Above, PrefixLen
  <2> QED BY <1>2, <2>1 DEF ShapeInv, TreeOK, NoDuplicates
<1>5. [x \in X |-> pfx[x]] \in Bijection(X, K)
  BY <1>3, <1>4 DEF Bijection, Injection, Surjection, IsInjective
<1>6. ExistsBijection(X, K)
  BY <1>5 DEF ExistsBijection
<1>7. IsFiniteSet(X)
  BY <1>2, FS_Subset
<1> QED BY <1>1, <1>6, <1>7, FS_Bijection

LEMMA IdleCounts ==
    ASSUME ShapeInv, SizeInv, AllIdle, NEW n \in live, ~IsLeaf(n), NEW b \in Branch
    PROVE  word[n][b].sz = Cardinality(LeavesBelow(n, b))
<1>1. {t \in Threads : Uncounted(t, n, b)} = {}
  BY DEF AllIdle, Uncounted, Bumping
<1>2. Cardinality({t \in Threads : Uncounted(t, n, b)}) = 0
  BY <1>1, FS_EmptySet
<1>3. word[n][b].sz \in Nat
  BY DEF ShapeInv, TypeOK
<1>4. word[n][b].sz + Cardinality({t \in Threads : Uncounted(t, n, b)})
        = Cardinality(LeavesBelow(n, b))
  BY DEF SizeInv, SizesAccounted
<1> QED BY <1>2, <1>3, <1>4

\* What a slot of a node leads to.
LEMMA SlotHolds ==
    ASSUME ShapeInv, NEW n \in live, ~IsLeaf(n), NEW b \in Branch
    PROVE  /\ word[n][b].ptr # NULL <=> Towards(KeysBelow(n), len[n], b) # {}
           /\ word[n][b].ptr # NULL =>
                KeysBelow(word[n][b].ptr) = Towards(KeysBelow(n), len[n], b)
<1>0. TypeOK /\ TreeOK /\ n \in Addr /\ len[n] \in PrefixLen /\ len[n] # KeyLen
  BY DEF ShapeInv, TypeOK, IsLeaf
<1>1. TypeOK /\ TreeOK /\ n \in Addr /\ len[n] < KeyLen
  BY <1>0, KeyLenAssumption DEF PrefixLen
<1>2. TrieShape(live, pfx, len, Children, NULL) /\ NodesTyped(live, pfx, len)
  BY <1>1, TreeIsShape DEF NodesTyped, TypeOK
<1>3. PICK A, c, T : /\ A = {pfx[x] : x \in Leaves} /\ c = word[n][b].ptr
                     /\ T = Towards(KeysBelow(n), len[n], b)
  OBVIOUS
<1>4. A \in SUBSET Key /\ HasLeaves(live, pfx, len, A)
  BY <1>1, <1>3 DEF HasLeaves, Leaves, IsLeaf, TypeOK
<1>5. Children[n][b] = c
  BY <1>1, <1>3 DEF Children
<1>6. /\ c = NULL => T = {}
      /\ c # NULL => T = KeysUnder(A, pfx[c], len[c])
  <2>1. PICK K : K = KeysUnder(A, pfx[n], len[n]) /\ T = Towards(K, len[n], b)
    BY <1>1, <1>3, BelowIsUnder
  <2>2. /\ Children[n][b] = NULL => Towards(K, len[n], b) = {}
        /\ Children[n][b] # NULL => Towards(K, len[n], b)
                                      = KeysUnder(A, pfx[Children[n][b]], len[Children[n][b]])
    BY <1>1, <1>2, <1>4, <2>1, ShapeTowards
  <2> QED BY <1>5, <2>1, <2>2
<1>7. c # NULL => T = KeysBelow(c)
  BY <1>1, <1>3, <1>6, BelowIsUnder
<1>8. ASSUME c # NULL PROVE T # {}
  <2>1. c \in live /\ len[n] < len[c]
    BY <1>1, <1>3, <1>8 DEF TreeOK, EdgesDescend
  <2>2. c # Root
    BY <1>1, <2>1, KeyLenAssumption DEF ShapeInv, RootStays, TypeOK, PrefixLen
  <2>3. PICK x \in Leaves : Above(c, x)
    BY <2>1, <2>2, KeyBelow
  <2> QED BY <1>7, <1>8, <2>3 DEF KeysBelow
<1> QED BY <1>3, <1>6, <1>7, <1>8

\* When no call is under way, the trie is the compressed trie of its keys with
\* exact sizes, whatever threads raced for its slots: what the ranges over it,
\* which read lengths and sizes only, take it to be.
THEOREM CompressedWhenIdle == Spec => []FinishedTrie
<1>1. ASSUME ShapeInv, SizeInv, AllIdle, NEW n \in live, n # Root
      PROVE  KeysBelow(n) # {} /\ len[n] = SharedLen(KeysBelow(n))
  <2>1. /\ TypeOK /\ TreeOK /\ n \in Addr /\ len[n] \in PrefixLen /\ pfx[n] \in Key
        /\ \A x \in Leaves : pfx[x] \in Key
    BY <1>1 DEF ShapeInv, TypeOK, Leaves
  <2>2. PICK A, K : A = {pfx[x] : x \in Leaves} /\ K = KeysBelow(n)
    OBVIOUS
  <2>3. A \in SUBSET Key /\ K = KeysUnder(A, pfx[n], len[n])
    BY <2>1, <2>2, BelowIsUnder
  <2>4. K # {} /\ K \in SUBSET Key
    BY <1>1, <2>2, <2>3, KeyBelow DEF KeysBelow, KeysUnder
  <2>5. CASE IsLeaf(n)
    <3>1. len[n] = KeyLen /\ \A j, k \in K : \A i \in 1 .. KeyLen : j[i] = k[i]
      BY <2>3, <2>5 DEF IsLeaf, KeysUnder, IsPrefixOf
    <3>2. Shares(K, len[n])
      BY <2>1, <3>1, KeyLenAssumption DEF Shares
    <3> QED BY <2>2, <2>4, <3>2, SharedLenFact, SharesUnique
  <2>6. CASE ~IsLeaf(n)
    <3>1. \A t \in Threads : ~Inserting(t)
      BY <1>1 DEF AllIdle, Inserting
    <3>2. PICK b \in Kids(n) : \E d \in Kids(n) : d # b
      BY <1>1, <2>6, <3>1 DEF ShapeInv, BranchesPending
    <3>3. PICK d \in Kids(n) : d # b
      BY <3>2
    <3>4. /\ b \in Branch /\ word[n][b].ptr # NULL /\ d \in Branch /\ word[n][d].ptr # NULL
      BY DEF Kids
    <3>5. Towards(K, len[n], b) # {} /\ Towards(K, len[n], d) # {}
      BY <1>1, <2>2, <2>6, <3>4, SlotHolds
    <3>6. len[n] < KeyLen
      BY <2>1, <2>6, KeyLenAssumption DEF IsLeaf, PrefixLen
    <3>7. PICK p, l : p = pfx[n] /\ l = len[n] /\ p \in Key /\ l \in PrefixLen
      BY <2>1
    <3>8. /\ A \in SUBSET Key /\ K = KeysUnder(A, p, l) /\ l < KeyLen /\ b # d
          /\ Towards(K, l, b) # {} /\ Towards(K, l, d) # {}
      BY <2>3, <3>3, <3>5, <3>6, <3>7
    <3>9. SharedLen(K) = l
      <4>1. PICK j \in K, k \in K : j[l + 1] = b /\ k[l + 1] = d
        BY <3>8 DEF Towards
      <4>2. \A x, y \in K : \A i \in 1 .. l : x[i] = y[i]
        BY <3>8 DEF KeysUnder, IsPrefixOf
      <4>3. Shares(K, l)
        BY <3>7, <3>8, <4>1, <4>2 DEF Shares
      <4> QED BY <2>4, <4>3, SharedLenFact, SharesUnique
    <3> QED BY <2>2, <2>4, <3>7, <3>9
  <2> QED BY <2>5, <2>6
<1>2. ASSUME ShapeInv, SizeInv, AllIdle, NEW n \in live, ~IsLeaf(n), NEW b \in Branch
      PROVE  word[n][b].sz = Cardinality(Towards(KeysBelow(n), len[n], b))
  BY <1>2, IdleCounts, CountKeys DEF SizeInv
<1>3. ShapeInv /\ SizeInv => FinishedTrie
  BY <1>1, <1>2, SlotHolds DEF FinishedTrie
<1>4. Init => SizeInv
  BY OnlyRootSizes DEF Init, OnlyRoot, AllIdle
<1> QED BY <1>3, <1>4, NextSizes, ShapeInductive, PTL DEF Spec

=============================================================================
