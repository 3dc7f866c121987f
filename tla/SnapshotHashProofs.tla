------------------------- MODULE SnapshotHashProofs -------------------------
(***************************************************************************)
(* Proofs about the digests of the snapshot trie: what is invalidated, when*)
(* a digest marked valid is one, what compute_hash_and_normalize may rely  *)
(* on, what the collector owns, and what the root hash says.               *)
(***************************************************************************)
EXTENDS SnapshotTrieProofs

\* PathInvalidated and InvalidationReached for one thread.
PathOK(t) ==
    \A n \in live :
        /\ Given(t) /\ Above(n, ref[t]) => ~valid[n]
        /\ pc[t] \in {"ins", "del"} /\ Above(n, cur[t]) /\ n # cur[t] => ~valid[n]
        /\ pc[t] \in {"ins_cas", "ins_emplace", "del_exchange"} /\ Above(n, cur[t])
              => ~valid[n]
        /\ pc[t] = "inv" /\ Above(n, ref[t]) /\ len[n] < len[cur[t]] => ~valid[n]

LEMMA PathParts ==
    PathInvalidated /\ InvalidationReached <=> \A t \in Threads : PathOK(t)
BY DEF PathInvalidated, InvalidationReached, PathOK

\* A digest is that of what the node holds now, and so are its children's.
Fresh(n) ==
    /\ hash[n] = DigestOf(n)
    /\ \A b \in Kids(n) : valid[child[n][b]]

\* A request is under way that is going to invalidate the digest of n.
Doomed(n, t) ==
    /\ pc[t] \in Requesting
    /\ IsPrefixOf(pfx[n], len[n], qk[t], ql[t])

LEMMA FreshParts ==
    HashesFresh <=>
        \A n \in live : valid[n] => Fresh(n) \/ \E t \in Threads : Doomed(n, t)
BY DEF HashesFresh, Fresh, Doomed

-----------------------------------------------------------------------------
(* What a step must leave alone for a digest to stay fresh *)

\* What the digest of x is computed from stays as it is.
SameContents(x) ==
    /\ pfx'[x] = pfx[x] /\ len'[x] = len[x]
    /\ child'[x] = child[x] /\ val'[x] = val[x]
    /\ hash'[x] = hash[x]
    /\ \A b \in Kids(x) : /\ hash'[child[x][b]] = hash[child[x][b]]
                          /\ valid[child[x][b]] => valid'[child[x][b]]

LEMMA FreshFrame ==
    ASSUME NEW x, Fresh(x), SameContents(x)
    PROVE  Fresh(x)'
<1>1. Kids(x)' = Kids(x)
  BY DEF Kids, SameContents
<1>2. IsLeaf(x)' = IsLeaf(x)
  BY DEF IsLeaf, SameContents
<1>3. [b \in Branch |-> IF child'[x][b] = NULL THEN NoHash ELSE hash'[child'[x][b]]]
      = [b \in Branch |-> IF child[x][b] = NULL THEN NoHash ELSE hash[child[x][b]]]
  BY DEF SameContents, Kids
<1>4. DigestOf(x)' = DigestOf(x)
  BY <1>2, <1>3 DEF DigestOf, Digest, SameContents
<1> QED BY <1>1, <1>4 DEF Fresh, SameContents

\* No node lies between a node and its child.
LEMMA NoneBetween ==
    ASSUME TypeOK, TreeOK, NEW n \in live, NEW b \in Branch,
           child[n][b] # NULL, NEW x \in live,
           Above(x, child[n][b]), x # child[n][b]
    PROVE  Above(x, n)
<1> DEFINE c == child[n][b]
<1>1. /\ c \in live /\ len[n] < len[c]
      /\ IsPrefixOf(pfx[n], len[n], pfx[c], len[c])
      /\ BranchBits(pfx[c], len[n]) = b
  BY DEF TreeOK, EdgesDescend, Above
<1>2. /\ len[x] \in PrefixLen /\ len[n] \in PrefixLen /\ len[c] \in PrefixLen
      /\ IsPrefixOf(pfx[x], len[x], pfx[c], len[c])
  BY <1>1 DEF TypeOK, Above
<1>3. len[x] < len[c]
  <2>1. len[x] # len[c]
    BY <1>1 DEF TreeOK, NoDuplicates
  <2> QED BY <2>1, <1>2 DEF IsPrefixOf, PrefixLen
<1> HIDE DEF c
<1>4. CASE len[n] < len[x]
  <2>1. IsPrefixOf(pfx[n], len[n], pfx[x], len[x])
    BY <1>1, <1>2, <1>4, PrefixCompare DEF PrefixLen
  <2>2. BranchBits(pfx[x], len[n]) = b
    BY <1>1, <1>2, <1>4, PrefixDigit
  <2>3. IsPrefixOf(pfx[c], len[c], pfx[x], len[x])
    BY <2>1, <2>2, <1>4 DEF TreeOK, PathsComplete, Above, Slot, c
  <2> QED BY <2>3, <1>2, <1>3 DEF IsPrefixOf, PrefixLen
<1>5. CASE len[x] <= len[n]
  BY <1>1, <1>2, <1>5, PrefixCompare DEF Above
<1> QED BY <1>2, <1>4, <1>5 DEF PrefixLen

-----------------------------------------------------------------------------
(* The steps of the threads *)

\* A step of thread t: nodes it adds are invalid; what it changes is not
\* covered by a valid digest, or is going to be invalidated by its request;
\* and when its request ends, what it covered is invalid.
LEMMA HashThreadStep ==
    ASSUME IndInv, IndInv', HashInv, NEW t \in Threads,
           phase = "batch", phase' = "batch", done' = done,
           \A u \in Threads \ {t} : SameLocals(u),
           \A x \in live' \cap live : pfx'[x] = pfx[x] /\ len'[x] = len[x],
           \A x \in live' \ live : ~valid'[x] /\ hash'[x] = NoHash,
           \A x \in live' \cap live :
              \/ (valid'[x] <=> valid[x]) /\ hash'[x] = hash[x]
              \/ ~valid'[x] /\ hash'[x] = NoHash,
           DOMAIN hash' = Addr,
           \A x \in live' \cap live : valid'[x] => SameContents(x) \/ Doomed(x, t)',
           \A x \in live' \cap live : Doomed(x, t) /\ valid'[x] => Doomed(x, t)',
           PathOK(t)', GarbageClosed'
    PROVE  HashInv'
<1>1. DigestsForgotten'
  <2> SUFFICES ASSUME NEW x \in live', ~valid'[x]
               PROVE  hash'[x] = NoHash
    BY DEF DigestsForgotten
  <2> QED BY DEF HashInv, DigestsForgotten
<1>2. ASSUME NEW u \in Threads
      PROVE  PathOK(u)'
  <2>1. CASE u = t
    BY <2>1
  <2>2. CASE u # t
    <3>1. SameLocals(u) /\ PathOK(u)
      BY <2>2, PathParts DEF HashInv
    <3>2. /\ Given(u)' = Given(u) /\ pc'[u] = pc[u]
          /\ ref'[u] = ref[u] /\ cur'[u] = cur[u]
      BY <3>1 DEF SameLocals, Given, Inside
    <3>3. Given(u) \/ pc[u] = "inv" => ref[u] \in live' \cap live
      BY <3>2 DEF IndInv, PointersStable, PointersOK
    <3>4. pc[u] \in {"ins", "del", "ins_cas", "ins_emplace", "del_exchange", "inv"}
            => cur[u] \in live' \cap live
      BY <3>2 DEF IndInv, PointersStable, PointersOK, Inside, Requesting
    <3> SUFFICES ASSUME NEW n \in live', valid'[n]
                 PROVE  /\ ~(Given(u)' /\ Above(n, ref[u])')
                        /\ ~(pc'[u] \in {"ins", "del"} /\ Above(n, cur[u])' /\ n # cur'[u])
                        /\ ~(/\ pc'[u] \in {"ins_cas", "ins_emplace", "del_exchange"}
                             /\ Above(n, cur[u])')
                        /\ ~(/\ pc'[u] = "inv" /\ Above(n, ref[u])'
                             /\ len'[n] < len'[cur'[u]])
      BY DEF PathOK
    <3>5. n \in live' \cap live /\ valid[n]
      OBVIOUS
    <3>6. \A y \in live' \cap live : Above(n, y)' <=> Above(n, y)
      BY <3>5 DEF Above
    <3>7. /\ Given(u) => (Above(n, ref[u])' <=> Above(n, ref[u]))
          /\ pc[u] = "inv" => (Above(n, ref[u])' <=> Above(n, ref[u]))
          /\ pc[u] \in {"ins", "del", "ins_cas", "ins_emplace", "del_exchange"}
                => (Above(n, cur[u])' <=> Above(n, cur[u]))
          /\ pc[u] = "inv" => (len'[n] < len'[cur'[u]] <=> len[n] < len[cur[u]])
      BY <3>2, <3>3, <3>4, <3>5, <3>6 DEF Above
    <3> QED BY <3>1, <3>2, <3>5, <3>7 DEF PathOK
  <2> QED BY <2>1, <2>2
<1>3. HashesFresh'
  <2> SUFFICES ASSUME NEW n \in live', valid'[n]
               PROVE  Fresh(n)' \/ \E u \in Threads : Doomed(n, u)'
    BY DEF HashesFresh, Fresh, Doomed
  <2>1. n \in live' \cap live /\ valid[n]
    OBVIOUS
  <2>2. Fresh(n) \/ \E u \in Threads : Doomed(n, u)
    BY <2>1, FreshParts DEF HashInv
  <2>3. CASE Fresh(n)
    BY <2>1, <2>3, FreshFrame
  <2>4. ASSUME NEW u \in Threads, Doomed(n, u)
        PROVE  Doomed(n, u)'
    <3>1. CASE u = t
      BY <3>1, <2>1, <2>4
    <3>2. CASE u # t
      BY <3>2, <2>1, <2>4 DEF Doomed, SameLocals
    <3> QED BY <3>1, <3>2
  <2> QED BY <2>2, <2>3, <2>4
<1>4. ReturnsPending'
  BY DEF HashInv, ReturnsPending
<1>5. PathInvalidated' /\ InvalidationReached'
  BY <1>2 DEF PathInvalidated, InvalidationReached, PathOK
<1> QED BY <1>1, <1>3, <1>4, <1>5 DEF HashInv

\* A step of a thread that leaves the shape of the tree alone, and may
\* invalidate the node where it is.
LEMMA QuietHash ==
    ASSUME IndInv, IndInv', HashInv, NEW t \in Threads, phase = "batch",
           UNCHANGED <<live, gc, pfx, len, child, phase, done>>,
           \A u \in Threads \ {t} : SameLocals(u),
           \/ UNCHANGED <<valid, hash>>
           \/ /\ cur[t] \in live
              /\ InvalidateHash(cur[t])
              /\ \A x \in live :
                    Above(x, cur[t]) /\ x # cur[t] /\ valid[x] => Doomed(x, t)',
           \A x \in live : valid'[x] => val'[x] = val[x],
           \A x \in live : Doomed(x, t) /\ valid'[x] => Doomed(x, t)',
           PathOK(t)'
    PROVE  HashInv'
<1>1. /\ live \subseteq Addr /\ valid \in [Addr -> BOOLEAN] /\ DOMAIN hash = Addr
  BY DEF IndInv, TypeOK, HashInv, DigestsForgotten
<1>2. GarbageClosed'
  BY DEF HashInv, GarbageClosed
<1>3. ASSUME NEW x \in live
      PROVE  \/ (valid'[x] <=> valid[x]) /\ hash'[x] = hash[x]
             \/ ~valid'[x] /\ hash'[x] = NoHash
  BY <1>1 DEF InvalidateHash
<1>4. DOMAIN hash' = Addr
  BY <1>1 DEF InvalidateHash
<1>5. ASSUME NEW x \in live, valid'[x]
      PROVE  SameContents(x) \/ Doomed(x, t)'
  <2>1. CASE UNCHANGED <<valid, hash>>
    BY <2>1, <1>5 DEF SameContents
  <2>2. CASE /\ cur[t] \in live
             /\ InvalidateHash(cur[t])
             /\ \A y \in live :
                    Above(y, cur[t]) /\ y # cur[t] /\ valid[y] => Doomed(y, t)'
    <3>1. x # cur[t] /\ valid[x]
      BY <1>1, <1>5, <2>2 DEF InvalidateHash
    <3>2. CASE \E b \in Kids(x) : child[x][b] = cur[t]
      <4>1. Above(x, cur[t])
        BY <3>2 DEF Kids, IndInv, TreeOK, EdgesDescend
      <4> QED BY <4>1, <3>1, <2>2
    <3>3. CASE \A b \in Kids(x) : child[x][b] # cur[t]
      <4>1. \A y \in Addr : y # cur[t] =>
                hash'[y] = hash[y] /\ (valid[y] => valid'[y])
        BY <1>1, <2>2 DEF InvalidateHash
      <4>2. \A b \in Kids(x) : child[x][b] \in Addr
        BY <1>1 DEF Kids, IndInv, TreeOK, EdgesDescend
      <4> QED BY <4>1, <4>2, <3>1, <3>3, <1>1, <1>5 DEF SameContents
    <3> QED BY <3>2, <3>3
  <2> QED BY <2>1, <2>2
<1> QED BY <1>2, <1>3, <1>4, <1>5, HashThreadStep

\* A thread inside a call on its subnode has no request under way, and no
\* valid digest above the node where it is.
LEMMA InsideFacts ==
    ASSUME IndInv, NEW t \in Threads, Inside(t)
    PROVE  /\ Given(t) /\ pc[t] # "idle" /\ phase = "batch"
           /\ \A x : ~Doomed(x, t)
           /\ cur[t] \in live /\ ref[t] \in live
<1>1. Given(t) /\ pc[t] # "idle" /\ pc[t] \notin Requesting
  BY DEF Given, Inside, Requesting
<1>2. phase = "batch"
  BY <1>1, Busy
<1>3. cur[t] \in live /\ ref[t] \in live
  BY <1>1 DEF IndInv, PointersStable, PointersOK
<1> QED BY <1>1, <1>2, <1>3 DEF Doomed

LEMMA GetSubnodeHash ==
    ASSUME IndInv, IndInv', HashInv, NEW t \in Threads,
           NEW k \in Keys, NEW l \in SubnodeLens, GetSubnode(t, k, l)
    PROVE  HashInv'
<1>1. /\ phase = "batch" /\ pc[t] = "idle"
      /\ UNCHANGED <<live, gc, pfx, len, child, val, valid, hash, phase, done>>
  BY DEF GetSubnode, tree, hashes
<1>2. pc'[t] = "sub" /\ \A u \in Threads \ {t} : SameLocals(u)
  BY DEF GetSubnode, SameLocals, IndInv, TypeOK
<1>3. \A x : ~Doomed(x, t)
  BY <1>1 DEF Doomed, Requesting
<1>4. PathOK(t)'
  BY <1>2 DEF PathOK, Given, Inside
<1> QED BY <1>1, <1>2, <1>3, <1>4, QuietHash

LEMMA SubReturnHash ==
    ASSUME IndInv, IndInv', HashInv, NEW t \in Threads, SubReturn(t)
    PROVE  HashInv'
<1>1. /\ phase = "batch" /\ pc[t] = "sub"
      /\ UNCHANGED <<live, gc, root, pfx, len, child, val, valid, hash, phase, done>>
      /\ UNCHANGED <<qk, ql>>
  BY Busy DEF SubReturn, GotSubnode, tree, hashes
<1>2. /\ pc'[t] = "inv" /\ cur'[t] = root
      /\ \A u \in Threads \ {t} : SameLocals(u)
  BY DEF SubReturn, GotSubnode, SameLocals, IndInv, TypeOK
<1>3. \A x \in live : Doomed(x, t) => Doomed(x, t)'
  BY <1>1, <1>2 DEF Doomed, Requesting
<1>4. PathOK(t)'
  <2>1. len'[cur'[t]] = 0 /\ \A n \in live : len[n] \in PrefixLen
    BY <1>1, <1>2 DEF IndInv, MemoryOK, TypeOK
  <2> QED BY <2>1, <1>1, <1>2 DEF PathOK, Given, Inside, PrefixLen
<1> QED BY <1>1, <1>2, <1>3, <1>4, QuietHash

LEMMA SubLoadHash ==
    ASSUME IndInv, IndInv', HashInv, NEW t \in Threads, SubLoad(t) \/ SubRetry(t)
    PROVE  HashInv'
<1>1. /\ pc[t] \in {"sub", "sub_cas"}
      /\ UNCHANGED <<live, gc, root, pfx, len, child, val, valid, hash, phase, done>>
      /\ UNCHANGED <<qk, ql>>
  BY DEF SubLoad, SubRetry, tree, hashes
<1>2. phase = "batch"
  BY <1>1, Busy
<1>3. /\ pc'[t] \in {"sub", "sub_cas"}
      /\ \A u \in Threads \ {t} : SameLocals(u)
  BY DEF SubLoad, SubRetry, Observe, SameLocals, IndInv, TypeOK
<1>4. \A x \in live : Doomed(x, t) => Doomed(x, t)'
  BY <1>1, <1>3 DEF Doomed, Requesting
<1>5. PathOK(t)'
  BY <1>3 DEF PathOK, Given, Inside
<1> QED BY <1>1, <1>2, <1>3, <1>4, <1>5, QuietHash

\* While invalidate_hash_to_node runs, the node it has reached is on the way
\* to the subnode.
LEMMA InvFacts ==
    ASSUME IndInv, NEW t \in Threads, pc[t] = "inv"
    PROVE  /\ cur[t] \in live /\ ref[t] \in live
           /\ Above(cur[t], ref[t])
           /\ len[ref[t]] = ql[t] /\ ql[t] \in PrefixLen
           /\ \A x \in live : IsPrefixOf(pfx[x], len[x], qk[t], ql[t])
                                <=> Above(x, ref[t])
           /\ cur[t] # ref[t] => len[cur[t]] < len[ref[t]]
<1>1. /\ TypeOK /\ PointersOK(t) /\ pc[t] \in Requesting
      /\ Goal(t) = qk[t] /\ GoalLen(t) = ql[t]
  BY RequestGoal DEF IndInv, PointersStable, Requesting
<1>2. /\ cur[t] \in live /\ ref[t] \in live /\ len[ref[t]] = ql[t]
      /\ IsPrefixOf(pfx[cur[t]], len[cur[t]], qk[t], ql[t])
      /\ IsPrefixOf(pfx[ref[t]], ql[t], qk[t], ql[t])
  BY <1>1 DEF PointersOK
<1>3. ql[t] \in PrefixLen /\ \A x \in live : len[x] \in PrefixLen
  BY <1>1 DEF TypeOK
<1>4. \A i \in 1 .. ql[t] : pfx[ref[t]][i] = qk[t][i]
  BY <1>2 DEF IsPrefixOf
<1>5. ASSUME NEW x \in live
      PROVE  IsPrefixOf(pfx[x], len[x], qk[t], ql[t]) <=> Above(x, ref[t])
  BY <1>2, <1>3, <1>4 DEF Above, IsPrefixOf, PrefixLen
<1>6. Above(cur[t], ref[t])
  BY <1>2, <1>5
<1>7. cur[t] # ref[t] => len[cur[t]] < len[ref[t]]
  <2>1. cur[t] # ref[t] => len[cur[t]] # len[ref[t]]
    BY <1>2, <1>6 DEF IndInv, TreeOK, NoDuplicates
  <2>2. len[cur[t]] <= len[ref[t]]
    BY <1>6 DEF Above, IsPrefixOf
  <2> QED BY <2>1, <2>2, <1>2, <1>3 DEF PrefixLen
<1> QED BY <1>2, <1>3, <1>5, <1>6, <1>7

LEMMA InvalidateStepHash ==
    ASSUME IndInv, IndInv', HashInv, NEW t \in Threads, InvalidateStep(t)
    PROVE  HashInv'
<1>1. /\ phase = "batch" /\ pc[t] = "inv" /\ InvalidateHash(cur[t])
      /\ UNCHANGED <<live, gc, root, pfx, len, child, val, phase, done>>
      /\ UNCHANGED <<qk, ql, ref>>
      /\ TypeOK /\ TreeOK /\ PathOK(t)
  BY Busy, PathParts DEF InvalidateStep, tree, IndInv, HashInv
<1>2. /\ \A u \in Threads \ {t} : SameLocals(u)
      /\ valid \in [Addr -> BOOLEAN] /\ live \subseteq Addr
      /\ \A x \in live : len[x] \in PrefixLen
  BY DEF InvalidateStep, SameLocals, IndInv, TypeOK
<1>3. /\ cur[t] \in live /\ ref[t] \in live /\ Above(cur[t], ref[t])
      /\ \A x \in live : IsPrefixOf(pfx[x], len[x], qk[t], ql[t])
                            <=> Above(x, ref[t])
      /\ cur[t] # ref[t] => len[cur[t]] < len[ref[t]]
  BY <1>1, InvFacts
<1>4. \A x \in live : valid'[x] => valid[x] /\ x # cur[t]
  BY <1>1, <1>2, <1>3 DEF InvalidateHash
\* What is on the way to the subnode up to this node is now invalid.
<1>5. ASSUME NEW x \in live, Above(x, ref[t]), len[x] <= len[cur[t]]
      PROVE  ~valid'[x]
  <2>1. CASE len[x] = len[cur[t]]
    <3>1. Above(x, cur[t])
      BY <2>1, <1>2, <1>3, <1>5, PrefixCompare DEF Above
    <3>2. x = cur[t]
      BY <3>1, <2>1, <1>1, <1>3 DEF TreeOK, NoDuplicates
    <3> QED BY <3>2, <1>4
  <2>2. CASE len[x] < len[cur[t]]
    BY <2>2, <1>1, <1>4, <1>5 DEF PathOK
  <2> QED BY <2>1, <2>2, <1>2, <1>3, <1>5 DEF PrefixLen
<1>6. CASE cur[t] = ref[t]
  <2>1. pc'[t] = "ready"
    BY <1>6, <1>1 DEF InvalidateStep, TypeOK
  <2>2. \A x \in live : Above(x, ref[t]) => ~valid'[x]
    BY <1>2, <1>3, <1>5, <1>6 DEF Above, IsPrefixOf
  <2>3. PathOK(t)'
    BY <2>1, <2>2, <1>1 DEF PathOK, Above
  <2>4. \A x \in live : Above(x, cur[t]) /\ x # cur[t] /\ valid[x] => FALSE
    <3> SUFFICES ASSUME NEW x \in live, Above(x, cur[t]), x # cur[t], valid[x]
                 PROVE  FALSE
      OBVIOUS
    <3>1. valid'[x]
      BY <1>1, <1>2 DEF InvalidateHash
    <3> QED BY <3>1, <2>2, <1>6
  <2>5. \A x \in live : Doomed(x, t) /\ valid'[x] => FALSE
    BY <2>2, <1>3 DEF Doomed
  <2> QED BY <2>3, <2>4, <2>5, <1>1, <1>2, <1>3, QuietHash
<1>7. CASE cur[t] # ref[t]
  <2> DEFINE c == child[cur[t]][Slot(cur[t], pfx[ref[t]])]
  <2>1. pc'[t] = "inv" /\ cur'[t] = c
    BY <1>7, <1>1 DEF InvalidateStep, TypeOK
  <2>2. pfx[ref[t]] \in Key /\ len[ref[t]] \in PrefixLen /\ KeyLen \in PrefixLen
    BY <1>1, <1>3, ZeroKeyType DEF TypeOK
  <2>3. c # NULL
    BY <1>1, <1>3, <1>7 DEF TreeOK, PathsComplete
  <2>4. Slot(cur[t], pfx[ref[t]]) \in Branch
    BY <2>2, <1>1, <1>3, <1>7, ChildFacts
  <2>5. c \in live /\ Above(c, ref[t])
    BY <2>3, <2>4, <1>1, <1>3, <1>7 DEF TreeOK, EdgesDescend, PathsComplete
  <2>6. ASSUME NEW x \in live, Above(x, ref[t]), len[x] < len[c]
        PROVE  ~valid'[x]
    <3>1. Above(x, c)
      BY <2>2, <2>5, <2>6, <1>2, <1>3, PrefixCompare DEF Above, PrefixLen
    <3>2. x # c
      BY <2>5, <2>6, <1>2 DEF PrefixLen
    <3>3. Above(x, cur[t])
      BY <3>1, <3>2, <2>3, <2>4, <1>1, <1>3, NoneBetween
    <3> QED BY <3>3, <2>6, <1>5 DEF Above, IsPrefixOf
  <2>7. PathOK(t)'
    BY <2>1, <2>6, <1>1 DEF PathOK, Above, Given, Inside
  <2>8. \A x \in live : Doomed(x, t) => Doomed(x, t)'
    BY <2>1, <1>1 DEF Doomed
  <2>9. ASSUME NEW x \in live, Above(x, cur[t])
        PROVE  Doomed(x, t)'
    <3>1. Above(x, ref[t])
      BY <2>9, <1>2, <1>3, PrefixTrans DEF Above
    <3> QED BY <3>1, <2>1, <1>1, <1>3 DEF Doomed, Requesting
  <2> QED BY <2>7, <2>8, <2>9, <1>1, <1>2, <1>3, QuietHash
<1> QED BY <1>6, <1>7

LEMMA FinishHash ==
    ASSUME IndInv, IndInv', HashInv, NEW t \in Threads, Finish(t)
    PROVE  HashInv'
<1>1. /\ phase = "batch" /\ pc[t] = "ready"
      /\ UNCHANGED <<live, gc, root, pfx, len, child, val, valid, hash, phase, done>>
  BY Busy DEF Finish, tree, hashes
<1>2. /\ pc'[t] = "idle" /\ \A u \in Threads \ {t} : SameLocals(u)
  BY DEF Finish, SameLocals, IndInv, TypeOK
<1>3. \A x : ~Doomed(x, t)
  BY <1>1 DEF Doomed, Requesting
<1>4. PathOK(t)'
  BY <1>2 DEF PathOK, Given, Inside
<1> QED BY <1>1, <1>2, <1>3, <1>4, QuietHash

-----------------------------------------------------------------------------
(* insert, delete_value and get_value *)

LEMMA CallHash ==
    ASSUME IndInv, IndInv', HashInv, NEW t \in Threads, NEW k,
           NEW op \in {"ins", "del", "get"}, Call(t, op, k),
           \A u \in Threads \ {t} : arg'[u] = arg[u],
           UNCHANGED <<tree, hashes, qk, ql, ref, exp>>
    PROVE  HashInv'
<1>1. /\ phase = "batch" /\ pc[t] = "ready" /\ PathOK(t)
      /\ UNCHANGED <<live, gc, root, pfx, len, child, val, valid, hash, phase, done>>
      /\ UNCHANGED <<qk, ql, ref, exp>>
  BY Busy, PathParts DEF Call, tree, hashes, HashInv
<1>2. /\ pc'[t] = op /\ cur'[t] = ref[t]
      /\ \A u \in Threads \ {t} : SameLocals(u)
  BY <1>1 DEF Call, SameLocals, IndInv, TypeOK
<1>3. \A x : ~Doomed(x, t)
  BY <1>1 DEF Doomed, Requesting
<1>4. PathOK(t)'
  <2>1. Given(t)
    BY <1>1 DEF Given
  <2>2. \A n \in live : Above(n, ref[t]) => ~valid[n]
    BY <2>1, <1>1 DEF PathOK
  <2> QED BY <2>2, <1>1, <1>2 DEF PathOK, Above
<1> QED BY <1>1, <1>2, <1>3, <1>4, QuietHash

LEMMA StartHash ==
    ASSUME IndInv, IndInv', HashInv, NEW t \in Threads, NEW k \in Keys,
           \/ \E v \in Value : StartInsert(t, k, v)
           \/ StartDelete(t, k)
           \/ StartGet(t, k)
    PROVE  HashInv'
<1>1. CASE \E v \in Value : StartInsert(t, k, v)
  <2>1. /\ Call(t, "ins", k) /\ UNCHANGED <<tree, hashes, qk, ql, ref, exp>>
        /\ \A u \in Threads \ {t} : arg'[u] = arg[u]
    BY <1>1 DEF StartInsert, IndInv, TypeOK
  <2> QED BY <2>1, CallHash
<1>2. CASE StartDelete(t, k)
  <2>1. /\ Call(t, "del", k) /\ UNCHANGED <<tree, hashes, qk, ql, ref, exp>>
        /\ \A u \in Threads \ {t} : arg'[u] = arg[u]
    BY <1>2 DEF StartDelete
  <2> QED BY <2>1, CallHash
<1>3. CASE StartGet(t, k)
  <2>1. /\ Call(t, "get", k) /\ UNCHANGED <<tree, hashes, qk, ql, ref, exp>>
        /\ \A u \in Threads \ {t} : arg'[u] = arg[u]
    BY <1>3 DEF StartGet
  <2> QED BY <2>1, CallHash
<1> QED BY <1>1, <1>2, <1>3

\* A call that returns leaves the tree as it is, up to the leaf's value.
LEMMA ReturnHash ==
    ASSUME IndInv, IndInv', HashInv, NEW t \in Threads, Inside(t), Return(t),
           UNCHANGED <<live, gc, pfx, len, child, phase, done, qk, ql, ref>>,
           \/ UNCHANGED <<valid, hash>>
           \/ InvalidateHash(cur[t]) /\ pc[t] \in {"ins", "del"},
           \A x \in live : valid'[x] => val'[x] = val[x]
    PROVE  HashInv'
<1>1. /\ phase = "batch" /\ Given(t) /\ cur[t] \in live /\ ref[t] \in live
      /\ \A x : ~Doomed(x, t)
  BY InsideFacts
<1>2. pc'[t] = "ready" /\ \A u \in Threads \ {t} : SameLocals(u)
  BY DEF Return, SameLocals, IndInv, TypeOK
<1>3. PathOK(t) /\ \A x \in live : valid'[x] => valid[x]
  BY <1>1, PathParts DEF HashInv, InvalidateHash, IndInv, TypeOK
<1>4. PathOK(t)'
  <2>1. \A n \in live : Above(n, ref[t]) => ~valid[n]
    BY <1>1, <1>3 DEF PathOK
  <2> QED BY <2>1, <1>2, <1>3 DEF PathOK, Above
<1>5. pc[t] \in {"ins", "del"} =>
        \A x \in live : Above(x, cur[t]) /\ x # cur[t] => ~valid[x]
  BY <1>3 DEF PathOK
<1> QED BY <1>1, <1>2, <1>4, <1>5, QuietHash

LEMMA InsertMergeHash ==
    ASSUME IndInv, IndInv', HashInv, NEW t \in Threads,
           InsertMerge(t) \/ DeleteReset(t)
    PROVE  HashInv'
<1>1. /\ Inside(t) /\ Return(t) /\ InvalidateHash(cur[t]) /\ pc[t] \in {"ins", "del"}
      /\ UNCHANGED <<live, gc, pfx, len, child, phase, done, qk, ql, ref>>
  BY DEF InsertMerge, DeleteReset, Inside
<1>2. cur[t] \in live
  BY <1>1, InsideFacts
<1>3. \A x \in live : valid'[x] => val'[x] = val[x]
  <2> SUFFICES ASSUME NEW x \in live, valid'[x]
               PROVE  val'[x] = val[x]
    OBVIOUS
  <2>1. x # cur[t]
    BY <1>1, <1>2 DEF InvalidateHash, IndInv, TypeOK
  <2> QED BY <2>1 DEF InsertMerge, DeleteReset, IndInv, TypeOK
<1> QED BY <1>1, <1>3, ReturnHash

LEMMA InsertEmplaceHash ==
    ASSUME IndInv, IndInv', HashInv, NEW t \in Threads, InsertEmplace(t)
    PROVE  HashInv'
<1>1. /\ Inside(t) /\ Return(t) /\ pc[t] = "ins_emplace"
      /\ UNCHANGED <<live, gc, pfx, len, child, valid, hash, phase, done, qk, ql, ref>>
  BY DEF InsertEmplace, Inside, hashes
<1>2. cur[t] \in live /\ TypeOK /\ PathOK(t)
  BY <1>1, InsideFacts, PathParts DEF IndInv, HashInv
<1>3. Above(cur[t], cur[t])
  BY <1>2, PrefixRefl DEF Above, TypeOK
<1>4. ~valid'[cur[t]]
  BY <1>1, <1>2, <1>3 DEF PathOK
<1>5. \A x \in live : valid'[x] => val'[x] = val[x]
  BY <1>2, <1>4 DEF InsertEmplace, TypeOK
<1> QED BY <1>1, <1>5, ReturnHash

LEMMA InsertFoundEmptyHash ==
    ASSUME IndInv, IndInv', HashInv, NEW t \in Threads, InsertFoundEmpty(t)
    PROVE  HashInv'
<1>1. /\ Inside(t) /\ pc[t] = "ins" /\ InvalidateHash(cur[t])
      /\ UNCHANGED <<live, gc, pfx, len, child, val, phase, done>>
      /\ UNCHANGED <<qk, ql, ref, key, arg, cur, exp>>
  BY DEF InsertFoundEmpty, Inside, tree
<1>2. /\ phase = "batch" /\ Given(t) /\ cur[t] \in live /\ ref[t] \in live
      /\ \A x : ~Doomed(x, t)
      /\ PathOK(t) /\ TypeOK
  BY <1>1, InsideFacts, PathParts DEF HashInv, IndInv
<1>3. pc'[t] = "ins_emplace" /\ \A u \in Threads \ {t} : SameLocals(u)
  BY <1>1, <1>2 DEF InsertFoundEmpty, SameLocals, TypeOK
<1>4. \A x \in live : valid'[x] => valid[x] /\ x # cur[t]
  BY <1>1, <1>2 DEF InvalidateHash, TypeOK
<1>5. \A x \in live : /\ Above(x, cur[t]) /\ x # cur[t] => ~valid[x]
                      /\ Above(x, ref[t]) => ~valid[x]
  BY <1>1, <1>2 DEF PathOK
<1>6. PathOK(t)'
  BY <1>1, <1>3, <1>4, <1>5 DEF PathOK, Above
<1> QED BY <1>1, <1>2, <1>3, <1>5, <1>6, QuietHash

\* insert goes down, or finds the slot it wants to fill.
LEMMA InsertLoadHash ==
    ASSUME IndInv, IndInv', HashInv, NEW t \in Threads,
           InsertLoad(t) \/ InsertRetry(t)
    PROVE  HashInv'
<1> DEFINE c == child[cur[t]][Slot(cur[t], key[t])]
<1>1. /\ Inside(t) /\ pc[t] \in {"ins", "ins_cas"} /\ TypeOK /\ TreeOK
      /\ UNCHANGED <<live, gc, pfx, len, child, val, phase, done>>
      /\ UNCHANGED <<qk, ql, ref, key, arg>>
      /\ Observe(t, c, key[t], KeyLen, "ins", "ins_cas")
  BY DEF InsertLoad, InsertRetry, Inside, IndInv, tree, hashes
<1>2. /\ phase = "batch" /\ Given(t) /\ cur[t] \in live /\ ref[t] \in live
      /\ \A x : ~Doomed(x, t)
      /\ PathOK(t)
  BY <1>1, InsideFacts, PathParts DEF HashInv
<1>3. \A u \in Threads \ {t} : SameLocals(u)
  BY <1>1 DEF Observe, SameLocals, TypeOK
<1>4. \A x \in live : /\ Above(x, cur[t]) /\ x # cur[t] => ~valid[x]
                      /\ Above(x, ref[t]) => ~valid[x]
  BY <1>1, <1>2 DEF PathOK
<1>5. \/ UNCHANGED <<valid, hash>>
      \/ InvalidateHash(cur[t])
  BY DEF InsertLoad, InsertRetry, hashes
<1>6. \A x \in live : valid'[x] => valid[x] /\ x # cur[t]
  <2>1. CASE InsertLoad(t)
    BY <2>1, <1>1, <1>2 DEF InsertLoad, InvalidateHash, TypeOK
  <2>2. CASE InsertRetry(t)
    <3>1. Above(cur[t], cur[t])
      BY <1>1, <1>2, PrefixRefl DEF Above, TypeOK
    <3>2. ~valid[cur[t]] /\ valid' = valid
      BY <3>1, <2>2, <1>2 DEF InsertRetry, PathOK, hashes
    <3> QED BY <3>2
  <2> QED BY <2>1, <2>2
<1>7. PathOK(t)'
  <2>1. CASE c # NULL /\ Covers(c, key[t], KeyLen)
    <3>1. pc'[t] = "ins" /\ cur'[t] = c
      BY <2>1, <1>1 DEF Observe, TypeOK
    <3>2. Slot(cur[t], key[t]) \in Branch
      <4>1. len[cur[t]] < KeyLen
        <5>1. CASE InsertLoad(t)
          BY <5>1, <1>1, <1>2, NotLeaf DEF InsertLoad, TypeOK
        <5>2. CASE InsertRetry(t)
          BY <5>2, <1>1, CallGoal
             DEF InsertRetry, IndInv, PointersStable, PointersOK, CasPending
        <5> QED BY <5>1, <5>2
      <4> QED BY <4>1, <1>1, <1>2, ChildFacts, ZeroKeyType DEF TypeOK
    <3>3. ASSUME NEW x \in live, Above(x, c), x # c
          PROVE  ~valid'[x]
      <4>1. Above(x, cur[t])
        BY <3>2, <3>3, <2>1, <1>1, <1>2, NoneBetween
      <4> QED BY <4>1, <1>4, <1>6
    <3> QED BY <3>1, <3>3, <1>1, <1>4, <1>6 DEF PathOK, Above
  <2>2. CASE ~(c # NULL /\ Covers(c, key[t], KeyLen))
    <3>1. pc'[t] = "ins_cas" /\ cur' = cur
      BY <2>2, <1>1 DEF Observe, TypeOK
    <3> QED BY <3>1, <1>1, <1>4, <1>6 DEF PathOK, Above
  <2> QED BY <2>1, <2>2
<1> QED BY <1>1, <1>2, <1>3, <1>4, <1>5, <1>7, QuietHash

LEMMA DeleteLoadHash ==
    ASSUME IndInv, IndInv', HashInv, NEW t \in Threads, DeleteLoad(t)
    PROVE  HashInv'
<1> DEFINE c == child[cur[t]][Slot(cur[t], key[t])]
<1>1. /\ Inside(t) /\ pc[t] = "del" /\ TypeOK /\ TreeOK /\ c # NULL
      /\ ~IsLeaf(cur[t]) /\ InvalidateHash(cur[t])
      /\ UNCHANGED <<live, gc, pfx, len, child, val, phase, done>>
      /\ UNCHANGED <<qk, ql, ref, key, arg, exp>>
  BY DEF DeleteLoad, Inside, IndInv, tree
<1>2. /\ phase = "batch" /\ Given(t) /\ cur[t] \in live /\ ref[t] \in live
      /\ \A x : ~Doomed(x, t)
      /\ PathOK(t)
  BY <1>1, InsideFacts, PathParts DEF HashInv
<1>3. \A u \in Threads \ {t} : SameLocals(u)
  BY <1>1 DEF DeleteLoad, SameLocals, TypeOK
<1>4. \A x \in live : /\ Above(x, cur[t]) /\ x # cur[t] => ~valid[x]
                      /\ Above(x, ref[t]) => ~valid[x]
  BY <1>1, <1>2 DEF PathOK
<1>5. \A x \in live : valid'[x] => valid[x] /\ x # cur[t]
  BY <1>1, <1>2 DEF InvalidateHash, TypeOK
<1>6. PathOK(t)'
  <2>1. CASE IsLeaf(c) /\ pfx[c] = key[t]
    <3>1. pc'[t] = "del_exchange" /\ cur' = cur
      BY <2>1, <1>1 DEF DeleteLoad, TypeOK
    <3> QED BY <3>1, <1>1, <1>4, <1>5 DEF PathOK, Above
  <2>2. CASE ~(IsLeaf(c) /\ pfx[c] = key[t])
    <3>1. pc'[t] = "del" /\ cur'[t] = c
      BY <2>2, <1>1 DEF DeleteLoad, TypeOK
    <3>2. Slot(cur[t], key[t]) \in Branch
      <4>1. len[cur[t]] < KeyLen
        BY <1>1, <1>2, NotLeaf DEF TypeOK
      <4> QED BY <4>1, <1>1, <1>2, ChildFacts, ZeroKeyType DEF TypeOK
    <3>3. ASSUME NEW x \in live, Above(x, c), x # c
          PROVE  ~valid'[x]
      <4>1. Above(x, cur[t])
        BY <3>2, <3>3, <1>1, <1>2, NoneBetween
      <4> QED BY <4>1, <1>4, <1>5
    <3> QED BY <3>1, <3>3, <1>1, <1>4, <1>5 DEF PathOK, Above
  <2> QED BY <2>1, <2>2
<1> QED BY <1>1, <1>2, <1>3, <1>4, <1>6, QuietHash

LEMMA GetHash ==
    ASSUME IndInv, IndInv', HashInv, NEW t \in Threads, GetLeaf(t) \/ GetLoad(t)
    PROVE  HashInv'
<1>1. /\ Inside(t) /\ pc[t] = "get" /\ TypeOK
      /\ UNCHANGED <<live, gc, pfx, len, child, val, valid, hash, phase, done>>
      /\ UNCHANGED <<qk, ql, ref>>
  BY DEF GetLeaf, GetLoad, Inside, IndInv, tree, hashes
<1>2. CASE Return(t)
  BY <1>1, <1>2, ReturnHash
<1>3. CASE ~Return(t)
  <2>1. /\ GetLoad(t) /\ pc' = pc /\ exp' = exp /\ key' = key /\ arg' = arg
    BY <1>3 DEF GetLeaf, GetLoad
  <2>2. \A u \in Threads \ {t} : SameLocals(u)
    BY <2>1, <1>1, <1>3 DEF GetLoad, SameLocals, TypeOK
  <2>3. /\ phase = "batch" /\ Given(t) /\ PathOK(t)
        /\ \A x : ~Doomed(x, t)
    BY <1>1, InsideFacts, PathParts DEF HashInv
  <2>4. \A n \in live : Above(n, ref[t]) => ~valid[n]
    BY <2>3 DEF PathOK
  <2>5. PathOK(t)'
    BY <2>1, <2>4, <1>1 DEF PathOK, Above
  <2> QED BY <2>2, <2>3, <2>5, <1>1, QuietHash
<1> QED BY <1>2, <1>3

\* A step that publishes a node below a node whose digest is not valid, or
\* is going to be invalidated.
LEMMA PublishHash ==
    ASSUME IndInv, IndInv', HashInv, NEW t \in Threads, phase = "batch",
           NEW n \in live, NEW b \in Branch, NEW a \in Free, NEW p, NEW l,
           NEW kids, NEW v, Publish(n, b, a, p, l, kids, v),
           \A u \in Threads \ {t} : SameLocals(u),
           valid[n] => Doomed(n, t)',
           \A x \in live : Doomed(x, t) => Doomed(x, t)',
           PathOK(t)'
    PROVE  HashInv'
<1>1. /\ TypeOK /\ TreeOK /\ DOMAIN hash = Addr /\ gc \cap live = {}
      /\ live \subseteq Addr /\ gc \subseteq Addr
  BY DEF IndInv, TypeOK, MemoryOK, HashInv, DigestsForgotten
<1>2. a \in Addr /\ a \notin live /\ a \notin gc /\ n \in Addr /\ a # n
  BY <1>1 DEF Free
<1>3. /\ live' = live \cup {a} /\ gc' = gc /\ phase' = phase /\ done' = done
      /\ DOMAIN hash' = Addr
      /\ ~valid'[a] /\ hash'[a] = NoHash
      /\ \A x \in Addr : x # a =>
            /\ pfx'[x] = pfx[x] /\ len'[x] = len[x] /\ val'[x] = val[x]
            /\ hash'[x] = hash[x] /\ (valid'[x] <=> valid[x])
            /\ x # n => child'[x] = child[x]
  BY <1>1, <1>2 DEF Publish, TypeOK
<1>4. GarbageClosed'
  BY <1>1, <1>2, <1>3 DEF HashInv, GarbageClosed
<1>5. ASSUME NEW x \in live, valid'[x]
      PROVE  SameContents(x) \/ Doomed(x, t)'
  <2>1. CASE x = n
    BY <2>1, <1>2, <1>3, <1>5
  <2>2. CASE x # n
    <3>1. \A e \in Kids(x) : child[x][e] \in Addr /\ child[x][e] # a
      BY <1>1, <1>2 DEF TreeOK, EdgesDescend, Kids
    <3> QED BY <3>1, <2>2, <1>1, <1>2, <1>3 DEF SameContents
  <2> QED BY <2>1, <2>2
<1>6. \A x \in live' \cap live :
        /\ pfx'[x] = pfx[x] /\ len'[x] = len[x]
        /\ (valid'[x] <=> valid[x]) /\ hash'[x] = hash[x]
  BY <1>1, <1>2, <1>3
<1> QED BY <1>3, <1>4, <1>5, <1>6, HashThreadStep

LEMMA SubAttachHash ==
    ASSUME IndInv, IndInv', HashInv, NEW t \in Threads, SubAttach(t)
    PROVE  HashInv'
<1> DEFINE a == Malloc(Free, qk[t], ql[t])
<1>1. /\ pc[t] = "sub_cas" /\ Free # {} /\ GotSubnode(t, a)
      /\ Publish(cur[t], Slot(cur[t], qk[t]), a, qk[t], ql[t], NoChildren, NoValue)
      /\ TypeOK /\ TreeOK
  BY DEF SubAttach, IndInv
<1>2. /\ phase = "batch" /\ pc[t] \in Requesting /\ CasPending(t)
  BY <1>1, Busy DEF Requesting, CasPending
<1>3. /\ cur[t] \in live /\ qk[t] \in Key /\ ql[t] \in PrefixLen
      /\ IsPrefixOf(pfx[cur[t]], len[cur[t]], qk[t], ql[t])
      /\ len[cur[t]] < ql[t]
  BY <1>2, CurFacts, RequestGoal DEF IndInv, PointersStable, PointersOK
<1>4. a \in Free /\ Slot(cur[t], qk[t]) \in Branch
  BY <1>1, <1>3, MallocFree, ChildFacts
<1> HIDE DEF a
<1>5. /\ pc'[t] = "inv" /\ cur'[t] = root /\ qk' = qk /\ ql' = ql
      /\ \A u \in Threads \ {t} : SameLocals(u)
  BY <1>1 DEF GotSubnode, SameLocals, TypeOK
<1>6. /\ root' = root
      /\ \A x \in live : pfx'[x] = pfx[x] /\ len'[x] = len[x]
  BY <1>1, <1>4 DEF Publish, Free, TypeOK
<1>7. PathOK(t)'
  <2>1. len'[cur'[t]] = 0 /\ \A n \in live' : len'[n] \in PrefixLen
    BY <1>5, <1>6 DEF IndInv, MemoryOK, TypeOK
  <2> QED BY <2>1, <1>5 DEF PathOK, Given, Inside, PrefixLen
<1>8. \A x \in live : Doomed(x, t) => Doomed(x, t)'
  BY <1>5, <1>6 DEF Doomed, Requesting
<1>9. Doomed(cur[t], t)
  BY <1>2, <1>3 DEF Doomed
<1> QED BY <1>1, <1>2, <1>3, <1>4, <1>5, <1>7, <1>8, <1>9, PublishHash

\* Where a split puts the new node.
LEMMA SplitPlace ==
    ASSUME IndInv, NEW t \in Threads, CasPending(t), exp[t] # NULL, Free # {},
           child[cur[t]][Slot(cur[t], Goal(t))] = exp[t],
           PublishSplit(cur[t], exp[t], Goal(t), GoalLen(t))
    PROVE  LET a == SplitAddr(exp[t], Goal(t), GoalLen(t))
           IN  /\ cur[t] \in live /\ Slot(cur[t], Goal(t)) \in Branch
               /\ a \in Free
               /\ \E p, l, kids, v : Publish(cur[t], Slot(cur[t], Goal(t)), a,
                                             p, l, kids, v)
               /\ \A x \in live : /\ pfx'[x] = pfx[x] /\ len'[x] = len[x]
                                  /\ valid'[x] <=> valid[x]
               /\ ~valid'[a]
               /\ live' = live \cup {a}
               /\ root' = root
               /\ \A x \in live : IsPrefixOf(pfx'[x], len'[x], pfx'[a], len'[a])
                                    => Above(x, cur[t])
<1> DEFINE k == Goal(t)
           m == GoalLen(t)
           n == cur[t]
           c == exp[t]
           a == SplitAddr(exp[t], Goal(t), GoalLen(t))
<1>0. Inside(t) \/ pc[t] \in Requesting
  BY DEF CasPending, Inside, Requesting
<1>1. /\ TypeOK /\ TreeOK /\ TreeType
      /\ n \in live /\ k \in Key /\ m \in PrefixLen
      /\ IsPrefixOf(pfx[n], len[n], k, m)
      /\ len[n] < m
      /\ ~Covers(c, k, m)
  BY <1>0, CurFacts, TypeGivesTree DEF IndInv, PointersStable, PointersOK
<1>2. Slot(n, k) \in Branch /\ c \in live /\ c \in Addr
  BY <1>1, ChildFacts
<1>3. a \in Free
  BY <1>1, <1>2, SplitFacts
<1>4. Publish(n, Slot(n, k), a, Truncate(k, JoinLen(c, k, m)), JoinLen(c, k, m),
              [NoChildren EXCEPT ![BranchBits(pfx[c], JoinLen(c, k, m))] = c],
              NoValue)
  BY DEF PublishSplit
<1>5. /\ len'[a] \in PrefixLen /\ len[n] < len'[a] /\ len'[a] <= m
      /\ IsPrefixOf(pfx'[a], len'[a], k, m) /\ TreeOK'
  BY <1>1, <1>2, <1>3, SplitTree
<1>6. /\ live' = live \cup {a} /\ root' = root /\ ~valid'[a]
      /\ \A x \in live : /\ pfx'[x] = pfx[x] /\ len'[x] = len[x]
                         /\ valid'[x] <=> valid[x]
  <2> HIDE DEF a, c, n, k, m
  <2> QED BY <1>1, <1>3, <1>4 DEF Publish, Free, TypeOK
<1>7. ASSUME NEW x \in live, IsPrefixOf(pfx'[x], len'[x], pfx'[a], len'[a])
      PROVE  Above(x, n)
  <2>1. IsPrefixOf(pfx[x], len[x], pfx'[a], len'[a]) /\ len[x] \in PrefixLen
    BY <1>1, <1>6, <1>7 DEF TypeOK
  <2>2. IsPrefixOf(pfx[x], len[x], k, m)
    BY <2>1, <1>1, <1>5, PrefixTrans
  <2>3. len[n] \in PrefixLen
    BY <1>1 DEF TypeOK
  <2>4. CASE len[x] <= len[n]
    BY <2>1, <2>2, <2>3, <2>4, <1>1, PrefixCompare DEF Above
  <2>5. CASE len[n] < len[x]
    <3>1. IsPrefixOf(pfx[n], len[n], pfx[x], len[x])
      BY <2>1, <2>2, <2>3, <2>5, <1>1, PrefixCompare DEF PrefixLen
    <3>2. BranchBits(pfx[x], len[n]) = BranchBits(k, len[n])
      BY <2>1, <2>2, <2>3, <2>5, <1>1, PrefixDigit
    <3>3. IsPrefixOf(pfx[c], len[c], pfx[x], len[x])
      BY <3>1, <3>2, <2>5, <1>1 DEF TreeOK, PathsComplete, Above, Slot
    <3>4. IsPrefixOf(pfx[c], len[c], k, m)
      BY <3>3, <2>1, <2>2, <1>1, <1>2, PrefixTrans DEF TypeOK
    <3> QED BY <3>4, <1>1, <1>2, CoversPrefix
  <2> QED BY <2>1, <2>3, <2>4, <2>5 DEF PrefixLen
<1> QED BY <1>1, <1>2, <1>3, <1>4, <1>6, <1>7

LEMMA SubSplitHash ==
    ASSUME IndInv, IndInv', HashInv, NEW t \in Threads, SubSplit(t)
    PROVE  HashInv'
<1> DEFINE a == SplitAddr(exp[t], Goal(t), GoalLen(t))
<1>1. /\ pc[t] \in Requesting /\ CasPending(t) /\ pc[t] # "idle"
      /\ Goal(t) = qk[t] /\ GoalLen(t) = ql[t] /\ phase = "batch"
  BY RequestGoal, Busy DEF SubSplit, Requesting, CasPending
<1>2. /\ cur[t] \in live /\ Slot(cur[t], Goal(t)) \in Branch
      /\ a \in Free
      /\ \E p, l, kids, v : Publish(cur[t], Slot(cur[t], Goal(t)), a, p, l, kids, v)
      /\ \A x \in live : /\ pfx'[x] = pfx[x] /\ len'[x] = len[x]
  BY <1>1, SplitPlace DEF SubSplit
<1>3. /\ pc'[t] = "sub" /\ qk' = qk /\ ql' = ql
      /\ \A u \in Threads \ {t} : SameLocals(u)
  BY DEF SubSplit, SameLocals, IndInv, TypeOK
<1> HIDE DEF a
<1>4. PathOK(t)'
  BY <1>3 DEF PathOK, Given, Inside
<1>5. \A x \in live : Doomed(x, t) => Doomed(x, t)'
  BY <1>2, <1>3 DEF Doomed, Requesting
<1>6. Doomed(cur[t], t)
  BY <1>1, CurFacts DEF Doomed
<1> QED BY <1>1, <1>2, <1>3, <1>4, <1>5, <1>6, PublishHash

LEMMA InsertAttachHash ==
    ASSUME IndInv, IndInv', HashInv, NEW t \in Threads, InsertAttach(t)
    PROVE  HashInv'
<1> DEFINE a == Malloc(Free, key[t], KeyLen)
<1>1. /\ Inside(t) /\ pc[t] = "ins_cas" /\ CasPending(t) /\ Free # {} /\ Return(t)
      /\ Publish(cur[t], Slot(cur[t], key[t]), a, key[t], KeyLen, NoChildren, arg[t])
      /\ UNCHANGED <<qk, ql, ref>>
      /\ TypeOK /\ TreeOK
  BY DEF InsertAttach, IndInv, Inside, CasPending
<1>2. /\ phase = "batch" /\ Given(t) /\ cur[t] \in live /\ ref[t] \in live
      /\ \A x : ~Doomed(x, t)
      /\ PathOK(t)
  BY <1>1, InsideFacts, PathParts DEF HashInv
<1>3. a \in Free /\ Slot(cur[t], key[t]) \in Branch
  <2>1. key[t] \in Key /\ KeyLen \in PrefixLen /\ len[cur[t]] < KeyLen
    BY <1>1, CallGoal, ZeroKeyType
       DEF TypeOK, IndInv, PointersStable, PointersOK
  <2> QED BY <2>1, <1>1, <1>2, MallocFree, ChildFacts
<1> HIDE DEF a
<1>4. pc'[t] = "ready" /\ \A u \in Threads \ {t} : SameLocals(u)
  BY <1>1 DEF Return, SameLocals, TypeOK
<1>5. /\ live' = live \cup {a} /\ ~valid'[a]
      /\ \A x \in live : /\ pfx'[x] = pfx[x] /\ len'[x] = len[x]
                         /\ valid'[x] <=> valid[x]
  BY <1>1, <1>3 DEF Publish, Free, TypeOK
<1>6. PathOK(t)'
  <2>1. \A n \in live : Above(n, ref[t]) => ~valid[n]
    BY <1>2 DEF PathOK
  <2>2. \A n \in live : Above(n, ref[t])' <=> Above(n, ref[t])
    BY <1>1, <1>2, <1>5 DEF Above
  <2> QED BY <2>1, <2>2, <1>4, <1>5 DEF PathOK
<1>7. ~valid[cur[t]]
  <2>1. Above(cur[t], cur[t])
    BY <1>1, <1>2, PrefixRefl DEF Above, TypeOK
  <2> QED BY <2>1, <1>1, <1>2 DEF PathOK
<1> QED BY <1>1, <1>2, <1>3, <1>4, <1>6, <1>7, PublishHash

LEMMA InsertSplitHash ==
    ASSUME IndInv, IndInv', HashInv, NEW t \in Threads, InsertSplit(t)
    PROVE  HashInv'
<1> DEFINE a == SplitAddr(exp[t], Goal(t), GoalLen(t))
<1>1. /\ Inside(t) /\ CasPending(t) /\ pc[t] = "ins_cas" /\ TypeOK
      /\ Goal(t) = key[t] /\ GoalLen(t) = KeyLen
  BY CallGoal DEF InsertSplit, Inside, CasPending, IndInv
<1>2. /\ phase = "batch" /\ Given(t) /\ cur[t] \in live /\ ref[t] \in live
      /\ \A x : ~Doomed(x, t)
      /\ PathOK(t)
  BY <1>1, InsideFacts, PathParts DEF HashInv
<1>3. /\ Slot(cur[t], Goal(t)) \in Branch
      /\ a \in Free
      /\ \E p, l, kids, v : Publish(cur[t], Slot(cur[t], Goal(t)), a, p, l, kids, v)
      /\ live' = live \cup {a} /\ ~valid'[a]
      /\ \A x \in live : /\ pfx'[x] = pfx[x] /\ len'[x] = len[x]
                         /\ valid'[x] <=> valid[x]
                         /\ IsPrefixOf(pfx'[x], len'[x], pfx'[a], len'[a])
                               => Above(x, cur[t])
  BY <1>1, SplitPlace DEF InsertSplit
<1>4. /\ pc'[t] = "ins" /\ cur'[t] = a /\ ref' = ref
      /\ \A u \in Threads \ {t} : SameLocals(u)
  BY <1>1 DEF InsertSplit, SameLocals, TypeOK
<1> HIDE DEF a
<1>5. \A n \in live : /\ Above(n, ref[t]) => ~valid[n]
                      /\ Above(n, cur[t]) => ~valid[n]
  BY <1>1, <1>2 DEF PathOK
<1>6. PathOK(t)'
  <2>1. \A n \in live : Above(n, ref[t])' <=> Above(n, ref[t])
    BY <1>2, <1>3, <1>4 DEF Above
  <2>2. \A n \in live : Above(n, cur[t])' => Above(n, cur[t])
    BY <1>3, <1>4 DEF Above
  <2> QED BY <2>1, <2>2, <1>3, <1>4, <1>5 DEF PathOK
<1>7. ~valid[cur[t]]
  <2>1. Above(cur[t], cur[t])
    BY <1>1, <1>2, PrefixRefl DEF Above, TypeOK
  <2> QED BY <2>1, <1>2, <1>5
<1> QED BY <1>2, <1>3, <1>4, <1>6, <1>7, PublishHash

LEMMA DeleteExchangeHash ==
    ASSUME IndInv, IndInv', HashInv, NEW t \in Threads, DeleteExchange(t)
    PROVE  HashInv'
<1> DEFINE b == Slot(cur[t], key[t])
           c == child[cur[t]][b]
<1>1. /\ Inside(t) /\ pc[t] = "del_exchange" /\ Return(t)
      /\ TypeOK /\ TreeOK /\ gc \cap live = {} /\ gc \subseteq Addr
      /\ live \subseteq Addr
      /\ UNCHANGED <<pfx, len, val, valid, hash, phase, done, qk, ql, ref>>
  BY DEF DeleteExchange, Inside, IndInv, MemoryOK, hashes, TypeOK
<1>2. /\ phase = "batch" /\ Given(t) /\ cur[t] \in live /\ ref[t] \in live
      /\ \A x : ~Doomed(x, t)
      /\ PathOK(t)
  BY <1>1, InsideFacts, PathParts DEF HashInv
<1>3. pc'[t] = "ready" /\ \A u \in Threads \ {t} : SameLocals(u)
  BY <1>1 DEF Return, SameLocals, TypeOK
<1>4. b \in Branch
  <2>1. len[cur[t]] < KeyLen
    BY <1>1, <1>2, NotLeaf DEF IndInv, LocalsOK
  <2> QED BY <2>1, <1>1, <1>2, ChildFacts, ZeroKeyType DEF TypeOK
<1>5. /\ \A x \in Addr : x # cur[t] => child'[x] = child[x]
      /\ live' \subseteq live
      /\ c = NULL => gc' = gc
      /\ c # NULL => gc' = gc \cup Below(c) /\ live' = live \ Below(c)
  BY <1>1, <1>2 DEF DeleteExchange, TypeOK
<1>6. GarbageClosed'
  <2> SUFFICES ASSUME NEW g \in gc', NEW e \in Branch
               PROVE  child'[g][e] \in gc' \cup {NULL}
    BY DEF GarbageClosed
  <2>1. CASE g \in gc
    <3>1. child'[g] = child[g]
      BY <2>1, <1>1, <1>2, <1>5
    <3> QED BY <3>1, <2>1, <1>5 DEF HashInv, GarbageClosed
  <2>2. CASE c # NULL /\ g \in Below(c)
    <3>1. /\ c \in live /\ len[cur[t]] < len[c] /\ Above(c, g) /\ g \in live
      BY <2>2, <1>1, <1>2, <1>4 DEF TreeOK, EdgesDescend, Below, Above
    <3>2. g # cur[t]
      BY <3>1, <1>1, <1>2 DEF Above, IsPrefixOf, TypeOK, PrefixLen
    <3>3. child'[g] = child[g]
      BY <3>1, <3>2, <1>1, <1>5
    <3>4. ASSUME child[g][e] # NULL
          PROVE  child[g][e] \in Below(c)
      <4>1. child[g][e] \in live /\ Above(g, child[g][e])
        BY <3>1, <3>4, <1>1 DEF TreeOK, EdgesDescend
      <4>2. Above(c, child[g][e])
        BY <3>1, <4>1, <1>1, PrefixTrans DEF Above, TypeOK
      <4> QED BY <4>1, <4>2 DEF Below, Above
    <3> QED BY <3>3, <3>4, <2>2, <1>5
  <2> QED BY <2>1, <2>2, <1>5
<1>7. ~valid[cur[t]]
  <2>1. Above(cur[t], cur[t])
    BY <1>1, <1>2, PrefixRefl DEF Above, TypeOK
  <2> QED BY <2>1, <1>1, <1>2 DEF PathOK
<1>8. \A x \in live : valid'[x] => SameContents(x)
  BY <1>1, <1>5, <1>7 DEF SameContents
<1>9. PathOK(t)'
  <2>1. \A n \in live : Above(n, ref[t]) => ~valid[n]
    BY <1>2 DEF PathOK
  <2> QED BY <2>1, <1>1, <1>3, <1>5 DEF PathOK, Above
<1>10. DOMAIN hash' = Addr
  BY <1>1 DEF HashInv, DigestsForgotten
<1>11. \A x \in live' : x \in live
  BY <1>5
<1> HIDE DEF b, c
<1> QED BY <1>1, <1>2, <1>3, <1>6, <1>8, <1>9, <1>10, <1>11, HashThreadStep

-----------------------------------------------------------------------------
(* hash_and_normalize *)

\* While no thread works on the trie every valid digest is fresh, and there
\* is no path to invalidate.
LEMMA AloneFresh ==
    ASSUME HashInv, AllIdle
    PROVE  \A n \in live : valid[n] => Fresh(n)
<1>1. \A t \in Threads : pc[t] \notin Requesting
  BY DEF AllIdle, Requesting
<1> QED BY <1>1, FreshParts DEF HashInv, Doomed

LEMMA AlonePaths ==
    ASSUME AllIdle
    PROVE  PathInvalidated /\ InvalidationReached
BY DEF AllIdle, PathInvalidated, InvalidationReached, Given, Inside

LEMMA AloneHash ==
    ASSUME AllIdle, UNCHANGED threads,
           \A n \in live' : valid'[n] => Fresh(n)'
    PROVE  HashesFresh' /\ PathInvalidated' /\ InvalidationReached'
<1>1. AllIdle'
  BY DEF AllIdle, threads
<1>2. PathInvalidated' /\ InvalidationReached'
  BY <1>1 DEF AllIdle, PathInvalidated, InvalidationReached, Given, Inside
<1> QED BY <1>2 DEF HashesFresh, Fresh

LEMMA HashStartHash ==
    ASSUME IndInv, HashInv, HashStart
    PROVE  HashInv'
<1>1. /\ AllIdle /\ UNCHANGED threads /\ done = {}
      /\ UNCHANGED <<live, gc, pfx, len, child, val, valid, hash, done>>
  BY DEF HashStart, tree, HashInv, ReturnsPending
<1>2. ASSUME NEW n \in live', valid'[n]
      PROVE  Fresh(n)'
  <2>1. Fresh(n)
    BY <1>1, <1>2, AloneFresh
  <2>2. SameContents(n)
    BY <1>1 DEF SameContents
  <2> QED BY <2>1, <2>2, FreshFrame
<1>3. HashesFresh' /\ PathInvalidated' /\ InvalidationReached'
  BY <1>1, <1>2, AloneHash
<1>4. GarbageClosed' /\ DigestsForgotten'
  BY <1>1 DEF HashInv, GarbageClosed, DigestsForgotten
<1>5. ReturnsPending'
  BY <1>1 DEF ReturnsPending
<1> QED BY <1>3, <1>4, <1>5 DEF HashInv

LEMMA HashLeafHash ==
    ASSUME IndInv, HashInv, NEW n \in Addr, HashLeaf(n)
    PROVE  HashInv'
<1>1. /\ AllIdle /\ UNCHANGED threads /\ phase = "hash" /\ n \in live
      /\ ~valid[n] /\ n \notin done /\ IsLeaf(n)
      /\ UNCHANGED <<live, gc, pfx, len, child, val, phase, done>>
      /\ TypeOK /\ TreeOK /\ DOMAIN hash = Addr
      /\ live \subseteq Addr
  BY DEF HashLeaf, Running, Returned, tree, IndInv, MemoryOK, TypeOK, HashInv,
         DigestsForgotten
<1>2. /\ valid'[n]
      /\ \A x \in Addr : x # n => (valid'[x] <=> valid[x]) /\ hash'[x] = hash[x]
      /\ DOMAIN hash' = Addr
      /\ hash'[n] = IF val[n] \in Logical THEN Digest(n, <<val[n]>>) ELSE hash[n]
  BY <1>1 DEF HashLeaf, TypeOK
<1>3. ASSUME NEW x \in live', valid'[x]
      PROVE  Fresh(x)'
  <2>1. CASE x # n
    <3>1. Fresh(x)
      BY <2>1, <1>1, <1>2, <1>3, AloneFresh
    <3>2. \A b \in Kids(x) : child[x][b] \in Addr /\ child[x][b] # n
      BY <3>1, <1>1, <1>3 DEF Fresh, TreeOK, EdgesDescend, Kids
    <3>3. SameContents(x)
      BY <3>2, <2>1, <1>1, <1>2, <1>3 DEF SameContents
    <3> QED BY <3>1, <3>3, FreshFrame
  <2>2. CASE x = n
    <3>1. hash[n] = NoHash
      BY <1>1 DEF HashInv, DigestsForgotten
    <3>2. Kids(n) = {}
      <4> SUFFICES ASSUME NEW b \in Branch, child[n][b] # NULL
                   PROVE  FALSE
        BY DEF Kids
      <4>1. child[n][b] \in live /\ len[n] < len[child[n][b]]
        BY <1>1 DEF TreeOK, EdgesDescend
      <4> QED BY <4>1, <1>1, KeyLenAssumption DEF IsLeaf, TypeOK, PrefixLen
    <3>3. DigestOf(n)' = IF val[n] \in Logical THEN Digest(n, <<val[n]>>) ELSE NoHash
      BY <1>1 DEF DigestOf, Digest, IsLeaf
    <3>4. hash'[n] = DigestOf(n)'
      BY <3>1, <3>3, <1>2
    <3>5. Kids(n)' = {}
      BY <3>2, <1>1 DEF Kids
    <3> QED BY <3>4, <3>5, <2>2 DEF Fresh
  <2> QED BY <2>1, <2>2
<1>4. HashesFresh' /\ PathInvalidated' /\ InvalidationReached'
  BY <1>1, <1>3, AloneHash
<1>5. GarbageClosed'
  BY <1>1 DEF HashInv, GarbageClosed
<1>6. DigestsForgotten'
  BY <1>1, <1>2 DEF HashInv, DigestsForgotten
<1>7. ReturnsPending'
  <2> SUFFICES ASSUME NEW m \in done
               PROVE  /\ m \in live /\ ~valid'[m] /\ ~IsLeaf(m)' /\ len'[m] # 0
                      /\ \A a, b \in Kids(m)' : a = b
                      /\ \A b \in Kids(m)' : valid'[child'[m][b]]
                      /\ \A x \in live' : Above(x, m)' /\ x # m => ~Returned(x)'
    BY <1>1 DEF ReturnsPending
  <2>1. /\ m \in live /\ ~valid[m] /\ ~IsLeaf(m) /\ len[m] # 0
        /\ \A a, b \in Kids(m) : a = b
        /\ \A b \in Kids(m) : valid[child[m][b]]
        /\ \A x \in live : Above(x, m) /\ x # m => ~Returned(x)
    BY DEF HashInv, ReturnsPending
  <2>2. Kids(m)' = Kids(m) /\ IsLeaf(m)' = IsLeaf(m)
    BY <1>1 DEF Kids, IsLeaf
  <2>3. \A b \in Kids(m) : child[m][b] \in Addr
    BY <2>1, <1>1 DEF Kids, TreeOK, EdgesDescend
  <2>4. ASSUME NEW x \in live', Above(x, m)', x # m
        PROVE  ~Returned(x)'
    <3>1. Above(x, m) /\ ~Returned(x)
      BY <2>1, <2>4, <1>1 DEF Above
    <3>2. x # n
      <4>1. len[m] \in PrefixLen /\ len[n] \in PrefixLen
        BY <2>1, <1>1 DEF TypeOK
      <4>2. Above(n, m) => len[m] = KeyLen
        BY <4>1, <1>1, KeyLenAssumption DEF Above, IsPrefixOf, IsLeaf, PrefixLen
      <4> QED BY <4>2, <3>1, <2>1 DEF IsLeaf
    <3> QED BY <3>1, <3>2, <1>1, <1>2 DEF Returned
  <2> QED BY <2>1, <2>2, <2>3, <2>4, <1>1, <1>2
<1> QED BY <1>4, <1>5, <1>6, <1>7 DEF HashInv

\* What the loop over the children leaves in a slot has its digest: a child
\* that stays is not one that returned without, and the only child of a node
\* that is removed had its digest when the call on that node returned.
LEMMA SettledValid ==
    ASSUME IndInv, HashInv, AllIdle, NEW n, Running(n), NEW b \in Branch,
           Settled(n, b) # NULL
    PROVE  valid[Settled(n, b)]
<1> DEFINE c == child[n][b]
<1>0. n \in live /\ TypeOK /\ TreeOK
  BY DEF Running, IndInv
<1>1. c # NULL /\ ~Empty(c)
  <2>1. Empty(c) => ~Single(c)
    BY DEF Empty, Single
  <2> QED BY <2>1 DEF Settled
<1>2. c \in live /\ Returned(c)
  BY <1>0, <1>1 DEF Running, Kids, TreeOK, EdgesDescend
<1>3. CASE Single(c)
  <2>1. PICK e \in Branch : Kids(c) = {e} /\ OnlyChild(c) = child[c][e]
    BY <1>3 DEF Single, OnlyChild
  <2>2. Settled(n, b) = child[c][e]
    BY <2>1, <1>1, <1>3 DEF Settled
  <2>3. valid[child[c][e]]
    <3>1. CASE valid[c]
      BY <3>1, <2>1, <1>2, AloneFresh DEF Fresh
    <3>2. CASE c \in done
      BY <3>2, <2>1 DEF HashInv, ReturnsPending
    <3> QED BY <3>1, <3>2, <1>2 DEF Returned
  <2> QED BY <2>2, <2>3
<1>4. CASE ~Single(c)
  <2>1. Settled(n, b) = c
    BY <1>1, <1>4 DEF Settled
  <2>2. c \notin done
    <3> SUFFICES ASSUME c \in done
                 PROVE  FALSE
      OBVIOUS
    <3>1. ~IsLeaf(c) /\ \A a, e \in Kids(c) : a = e
      BY DEF HashInv, ReturnsPending
    <3>2. PICK e \in Kids(c) : TRUE
      BY <3>1, <1>1 DEF Empty
    <3>3. Kids(c) = {e} /\ e \in Branch
      BY <3>1, <3>2 DEF Kids
    <3> QED BY <3>1, <3>3, <1>4 DEF Single
  <2> QED BY <2>1, <2>2, <1>2 DEF Returned
<1> QED BY <1>3, <1>4

\* The nodes that returned without a digest below a node whose children have
\* all returned are children of it, and it removes them.
LEMMA PendingDropped ==
    ASSUME IndInv, HashInv, NEW n, Running(n), NEW m \in done, Above(n, m)
    PROVE  m \in Dropped(n)
<1>0. n \in live /\ ~Returned(n) /\ TypeOK /\ TreeOK
  BY DEF Running, IndInv
<1>1. /\ m \in live /\ ~IsLeaf(m) /\ m # n
      /\ \A a, b \in Kids(m) : a = b
      /\ \A x \in live : Above(x, m) /\ x # m => ~Returned(x)
  BY <1>0 DEF HashInv, ReturnsPending, Returned
<1>2. len[n] < len[m] /\ len[m] \in PrefixLen
  <2>1. len[n] # len[m]
    BY <1>0, <1>1 DEF TreeOK, NoDuplicates
  <2>2. len[n] <= len[m] /\ len[n] \in PrefixLen /\ len[m] \in PrefixLen
    BY <1>0, <1>1 DEF Above, IsPrefixOf, TypeOK
  <2> QED BY <2>1, <2>2 DEF PrefixLen
<1> DEFINE b == Slot(n, pfx[m])
           c == child[n][b]
<1>3. c # NULL /\ Above(c, m)
  BY <1>0, <1>1, <1>2 DEF TreeOK, PathsComplete
<1>4. b \in Branch /\ c \in live
  <2>1. pfx[m] \in Key
    BY <1>0, <1>1 DEF TypeOK
  <2> QED BY <2>1, <1>0, <1>1, <1>2, <1>3, ChildFacts
<1>5. c = m
  <2>1. Returned(c)
    BY <1>3, <1>4 DEF Running, Kids
  <2> QED BY <2>1, <1>1, <1>3, <1>4
<1>6. Empty(m) \/ Single(m)
  <2>1. CASE Kids(m) = {}
    BY <2>1, <1>1 DEF Empty
  <2>2. CASE Kids(m) # {}
    <3>1. PICK e \in Kids(m) : TRUE
      BY <2>2
    <3>2. Kids(m) = {e} /\ e \in Branch
      BY <3>1, <1>1 DEF Kids
    <3> QED BY <3>2, <1>1 DEF Single
  <2> QED BY <2>1, <2>2
<1> QED BY <1>4, <1>5, <1>6 DEF Dropped

LEMMA HashMapHash ==
    ASSUME IndInv, IndInv', HashInv, NEW n \in Addr, HashMap(n)
    PROVE  HashInv'
<1> DEFINE kids == [b \in Branch |-> Settled(n, b)]
           keep == \/ len[n] = 0
                   \/ \E a, b \in Branch :
                        a # b /\ kids[a] # NULL /\ kids[b] # NULL
           body == [b \in Branch |-> IF kids[b] = NULL THEN NoHash
                                     ELSE hash[kids[b]]]
<1>1. /\ AllIdle /\ UNCHANGED threads /\ phase = "hash" /\ n \in live
      /\ Running(n) /\ ~valid[n] /\ n \notin done /\ ~IsLeaf(n)
      /\ UNCHANGED <<root, pfx, len, val>>
      /\ child' = ChildrenAfter(n)
      /\ live' = live \ Dropped(n) /\ gc' = gc \cup Dropped(n)
      /\ phase' = IF n = root THEN "batch" ELSE "hash"
      /\ TypeOK /\ TreeOK /\ TreeOK' /\ DOMAIN hash = Addr
      /\ live \subseteq Addr /\ gc \subseteq Addr /\ gc \cap live = {}
      /\ root \in live /\ len[root] = 0
  BY DEF HashMap, Running, Returned, IndInv, MemoryOK, TypeOK, HashInv,
         DigestsForgotten
<1>2. /\ keep  => /\ valid' = [valid EXCEPT ![n] = TRUE]
                  /\ hash'  = [hash EXCEPT ![n] = Digest(n, body)]
                  /\ done'  = done \ Dropped(n)
      /\ ~keep => /\ done'  = (done \ Dropped(n)) \cup {n}
                  /\ UNCHANGED <<valid, hash>>
  BY DEF HashMap
<1>3. Dropped(n) \subseteq live /\ n \notin Dropped(n) /\ n \in live'
  <2>1. Dropped(n) \subseteq live
    BY DEF Dropped
  <2>2. n \notin Dropped(n)
    <3> SUFFICES ASSUME NEW b \in Branch, child[n][b] = n
                 PROVE  FALSE
      BY DEF Dropped
    <3>1. n # NULL
      BY <1>1, AddrAssumption
    <3>2. len[n] < len[n]
      BY <3>1, <1>1 DEF TreeOK, EdgesDescend
    <3> QED BY <3>2, <1>1 DEF TypeOK, PrefixLen
  <2> QED BY <2>1, <2>2, <1>1
<1>4. /\ \A b \in Branch : child'[n][b] = Settled(n, b)
      /\ \A x \in Addr : x # n /\ x \notin Dropped(n) => child'[x] = child[x]
      /\ \A x \in Dropped(n), b \in Branch : child'[x][b] = NULL
  BY <1>1, <1>3 DEF ChildrenAfter, NoChildren
<1>5. /\ \A x \in Addr : x # n => (valid'[x] <=> valid[x]) /\ hash'[x] = hash[x]
      /\ DOMAIN hash' = Addr
      /\ \A x \in Addr : valid[x] => valid'[x]
  <2> HIDE DEF keep, body
  <2>1. CASE keep
    BY <2>1, <1>1, <1>2 DEF TypeOK
  <2>2. CASE ~keep
    BY <2>2, <1>1, <1>2
  <2> QED BY <2>1, <2>2
<1>6. \A b \in Branch : child'[n][b] # NULL =>
        /\ child'[n][b] \in live /\ child'[n][b] # n
        /\ valid[child'[n][b]] /\ valid'[child'[n][b]]
  <2> SUFFICES ASSUME NEW b \in Branch, child'[n][b] # NULL
               PROVE  /\ child'[n][b] \in live /\ child'[n][b] # n
                      /\ valid[child'[n][b]] /\ valid'[child'[n][b]]
    OBVIOUS
  <2>1. child'[n][b] \in live' /\ len'[n] < len'[child'[n][b]]
    BY <1>1, <1>3 DEF TreeOK, EdgesDescend
  <2>2. child'[n][b] # n
    BY <2>1, <1>1 DEF TypeOK, PrefixLen
  <2>3. valid[child'[n][b]]
    BY <1>1, <1>4, SettledValid
  <2> QED BY <2>1, <2>2, <2>3, <1>1, <1>5
<1>7. GarbageClosed'
  <2> SUFFICES ASSUME NEW g \in gc', NEW b \in Branch
               PROVE  child'[g][b] \in gc' \cup {NULL}
    BY DEF GarbageClosed
  <2>1. CASE g \in Dropped(n)
    BY <2>1, <1>4
  <2>2. CASE g \in gc
    <3>1. child'[g] = child[g]
      BY <2>2, <1>1, <1>3, <1>4
    <3> QED BY <3>1, <2>2, <1>1 DEF HashInv, GarbageClosed
  <2> QED BY <2>1, <2>2, <1>1
<1>8. DigestsForgotten'
  <2> SUFFICES ASSUME NEW x \in live', ~valid'[x]
               PROVE  hash'[x] = NoHash
    BY <1>5 DEF DigestsForgotten
  <2>1. x \in live /\ ~valid[x] /\ hash[x] = NoHash
    BY <1>1, <1>5 DEF HashInv, DigestsForgotten
  <2>2. CASE x # n
    BY <2>1, <2>2, <1>1, <1>5
  <2>3. CASE x = n
    <3> HIDE DEF keep, body
    <3>1. ~keep
      BY <2>3, <1>1, <1>2 DEF TypeOK
    <3> QED BY <3>1, <2>1, <1>2
  <2> QED BY <2>2, <2>3
<1>9. ASSUME NEW x \in live', valid'[x]
      PROVE  Fresh(x)'
  <2>1. CASE x # n
    <3>1. Fresh(x) /\ x \in live
      BY <2>1, <1>1, <1>5, <1>9, AloneFresh
    <3>2. \A b \in Kids(x) : child[x][b] \in Addr /\ child[x][b] # n
      BY <3>1, <1>1 DEF Fresh, TreeOK, EdgesDescend, Kids
    <3>3. SameContents(x)
      BY <3>1, <3>2, <2>1, <1>1, <1>4, <1>5, <1>9 DEF SameContents
    <3> QED BY <3>1, <3>3, FreshFrame
  <2>2. CASE x = n
    <3>1. keep
      <4> HIDE DEF keep, body
      <4> QED BY <2>2, <1>1, <1>2, <1>9
    <3>2. hash'[n] = Digest(n, body)
      <4> HIDE DEF keep, body
      <4> QED BY <3>1, <1>1, <1>2
    <3>3. \A b \in Branch : kids[b] = child'[n][b]
      BY <1>4
    <3>4. body = [b \in Branch |-> IF child'[n][b] = NULL THEN NoHash
                                   ELSE hash'[child'[n][b]]]
      <4> HIDE DEF kids
      <4> QED BY <3>3, <1>1, <1>5, <1>6
    <3>5. DigestOf(n)' = Digest(n, body)
      <4> HIDE DEF body
      <4> QED BY <3>4, <1>1 DEF DigestOf, Digest, IsLeaf
    <3>6. \A b \in Kids(n)' : valid'[child'[n][b]]
      BY <1>6 DEF Kids
    <3> QED BY <3>2, <3>5, <3>6, <2>2 DEF Fresh
  <2> QED BY <2>1, <2>2
<1>10. HashesFresh' /\ PathInvalidated' /\ InvalidationReached'
  BY <1>1, <1>9, AloneHash
<1>11. ReturnsPending'
  <2>1. phase' = "batch" => done' = {}
    <3> SUFFICES ASSUME phase' = "batch"
                 PROVE  done' = {}
      OBVIOUS
    <3>1. n = root /\ keep
      BY <1>1
    <3>2. \A m \in done : Above(n, m)
      BY <3>1, <1>1 DEF HashInv, ReturnsPending, Above, IsPrefixOf, TypeOK, PrefixLen
    <3>3. done \subseteq Dropped(n)
      BY <3>2, <1>1, PendingDropped
    <3> HIDE DEF keep, body
    <3> QED BY <3>1, <3>3, <1>2
  <2>2. done' \subseteq (done \ Dropped(n)) \cup {n}
    <3> HIDE DEF keep, body
    <3> QED BY <1>2
  <2>3. ASSUME NEW m \in done \ Dropped(n)
        PROVE  /\ m \in live' /\ ~valid'[m] /\ ~IsLeaf(m)' /\ len'[m] # 0
               /\ \A a, b \in Kids(m)' : a = b
               /\ \A b \in Kids(m)' : valid'[child'[m][b]]
               /\ \A x \in live' : Above(x, m)' /\ x # m => ~Returned(x)'
    <3>1. /\ m \in live /\ ~valid[m] /\ ~IsLeaf(m) /\ len[m] # 0
          /\ \A a, b \in Kids(m) : a = b
          /\ \A b \in Kids(m) : valid[child[m][b]]
          /\ \A x \in live : Above(x, m) /\ x # m => ~Returned(x)
      BY DEF HashInv, ReturnsPending
    <3>2. m # n /\ m \in Addr /\ child'[m] = child[m]
      BY <3>1, <1>1, <1>4
    <3>3. Kids(m)' = Kids(m) /\ IsLeaf(m)' = IsLeaf(m)
      BY <3>2, <1>1 DEF Kids, IsLeaf
    <3>4. \A b \in Kids(m) : child[m][b] \in Addr
      BY <3>1, <1>1 DEF Kids, TreeOK, EdgesDescend
    <3>5. ASSUME NEW x \in live', Above(x, m)', x # m
          PROVE  ~Returned(x)'
      <4>1. Above(x, m) /\ x \in live /\ ~Returned(x)
        BY <3>1, <3>5, <1>1 DEF Above
      <4>2. x # n
        BY <4>1, <1>1, PendingDropped
      <4> QED BY <4>1, <4>2, <2>2, <1>1, <1>5 DEF Returned
    <3> QED BY <3>1, <3>2, <3>3, <3>4, <3>5, <1>1, <1>5
  <2>4. ASSUME n \in done'
        PROVE  /\ n \in live' /\ ~valid'[n] /\ ~IsLeaf(n)' /\ len'[n] # 0
               /\ \A a, b \in Kids(n)' : a = b
               /\ \A b \in Kids(n)' : valid'[child'[n][b]]
               /\ \A x \in live' : Above(x, n)' /\ x # n => ~Returned(x)'
    <3>1. ~keep
      <4> HIDE DEF keep, body
      <4> QED BY <2>4, <1>1, <1>2
    <3>2. ~valid'[n]
      <4> HIDE DEF keep, body
      <4> QED BY <3>1, <1>1, <1>2
    <3>3. len'[n] # 0 /\ \A a, b \in Kids(n)' : a = b
      BY <3>1, <1>1, <1>4 DEF Kids
    <3>4. \A b \in Kids(n)' : valid'[child'[n][b]]
      BY <1>6 DEF Kids
    <3>5. ASSUME NEW x \in live', Above(x, n)', x # n
          PROVE  ~Returned(x)'
      <4>1. Above(x, n) /\ x \in live /\ ~valid[x]
        BY <3>5, <1>1 DEF Above, Running
      <4>2. x \notin done
        <5> SUFFICES ASSUME x \in done
                     PROVE  FALSE
          OBVIOUS
        <5> DEFINE b == Slot(x, pfx[n])
                   c == child[x][b]
        <5>1. len[x] < len[n]
          <6>1. len[x] # len[n]
            BY <4>1, <3>5, <1>1 DEF TreeOK, NoDuplicates
          <6>2. len[x] <= len[n] /\ len[x] \in PrefixLen /\ len[n] \in PrefixLen
            BY <4>1, <1>1 DEF Above, IsPrefixOf, TypeOK
          <6> QED BY <6>1, <6>2 DEF PrefixLen
        <5>2. c # NULL /\ Above(c, n)
          BY <5>1, <4>1, <1>1 DEF TreeOK, PathsComplete
        <5>3. b \in Branch /\ c \in live
          <6>1. pfx[n] \in Key /\ len[n] \in PrefixLen
            BY <1>1 DEF TypeOK
          <6> QED BY <6>1, <5>1, <5>2, <4>1, <1>1, ChildFacts
        <5>4. valid[c]
          BY <5>2, <5>3 DEF HashInv, ReturnsPending, Kids
        <5> QED BY <5>2, <5>3, <5>4, <1>1 DEF Running, Above
      <4> QED BY <4>1, <4>2, <3>5, <2>2, <1>1, <1>5 DEF Returned
    <3> QED BY <3>2, <3>3, <3>4, <3>5, <1>1, <1>3 DEF IsLeaf
  <2> QED BY <2>1, <2>2, <2>3, <2>4 DEF ReturnsPending
<1> QED BY <1>7, <1>8, <1>10, <1>11 DEF HashInv

-----------------------------------------------------------------------------
(* do_gc, clear and the constructor *)

LEMMA DoGCHash ==
    ASSUME IndInv, HashInv, DoGC
    PROVE  HashInv'
<1>1. /\ AllIdle /\ UNCHANGED threads /\ gc' = {} /\ done = {} /\ Release(gc)
      /\ UNCHANGED <<live, phase, done>>
      /\ TypeOK /\ TreeOK /\ gc \cap live = {} /\ live \subseteq Addr
  BY DEF DoGC, IndInv, MemoryOK, TypeOK, HashInv, ReturnsPending
<1>2. /\ DOMAIN hash' = Addr
      /\ \A x \in live : /\ pfx'[x] = pfx[x] /\ len'[x] = len[x]
                         /\ child'[x] = child[x] /\ val'[x] = val[x]
                         /\ hash'[x] = hash[x] /\ (valid'[x] <=> valid[x])
  BY <1>1 DEF Release
<1>3. ASSUME NEW x \in live', valid'[x]
      PROVE  Fresh(x)'
  <2>1. Fresh(x) /\ x \in live
    BY <1>1, <1>2, <1>3, AloneFresh
  <2>2. \A b \in Kids(x) : child[x][b] \in live
    BY <2>1, <1>1 DEF TreeOK, EdgesDescend, Kids
  <2>3. SameContents(x)
    BY <2>1, <2>2, <1>2 DEF SameContents
  <2> QED BY <2>1, <2>3, FreshFrame
<1>4. HashesFresh' /\ PathInvalidated' /\ InvalidationReached'
  BY <1>1, <1>3, AloneHash
<1>5. GarbageClosed' /\ ReturnsPending'
  BY <1>1 DEF GarbageClosed, ReturnsPending
<1>6. DigestsForgotten'
  BY <1>1, <1>2 DEF HashInv, DigestsForgotten
<1> QED BY <1>4, <1>5, <1>6 DEF HashInv

LEMMA ClearHash ==
    ASSUME IndInv, HashInv, Clear
    PROVE  HashInv'
<1>1. /\ AllIdle /\ UNCHANGED threads /\ gc' = {} /\ done' = {} /\ Release(Addr)
      /\ live' = {root'} /\ root' \in Addr
  BY FirstRoot DEF Clear, HashInv, ReturnsPending
<1>2. /\ hash' = [a \in Addr |-> NoHash]
      /\ valid' = [a \in Addr |-> FALSE]
  BY <1>1 DEF Release
<1>3. HashesFresh' /\ PathInvalidated' /\ InvalidationReached'
  BY <1>1, <1>2, AloneHash
<1>4. GarbageClosed' /\ ReturnsPending'
  BY <1>1 DEF GarbageClosed, ReturnsPending
<1>5. DigestsForgotten'
  BY <1>1, <1>2 DEF DigestsForgotten
<1> QED BY <1>3, <1>4, <1>5 DEF HashInv

LEMMA InitHash == Init => HashInv
<1> SUFFICES ASSUME Init
             PROVE  HashInv
  OBVIOUS
<1>1. AllIdle /\ root \in Addr
  BY FirstRoot DEF Init, AllIdle
<1>2. PathInvalidated /\ InvalidationReached
  BY <1>1, AlonePaths
<1>3. \A n \in live : ~valid[n] /\ hash[n] = NoHash
  BY <1>1 DEF Init
<1>4. HashesFresh
  BY <1>3 DEF HashesFresh
<1>5. GarbageClosed /\ ReturnsPending /\ DigestsForgotten
  BY <1>3 DEF Init, GarbageClosed, ReturnsPending, DigestsForgotten
<1> QED BY <1>2, <1>4, <1>5 DEF HashInv

LEMMA ProceedHash ==
    ASSUME IndInv, IndInv', HashInv, NEW t \in Threads, Proceed(t)
    PROVE  HashInv'
<1>1. CASE SubReturn(t)
  BY <1>1, SubReturnHash
<1>2. CASE SubLoad(t) \/ SubRetry(t)
  BY <1>2, SubLoadHash
<1>3. CASE SubAttach(t)
  BY <1>3, SubAttachHash
<1>4. CASE SubSplit(t)
  BY <1>4, SubSplitHash
<1>5. CASE InvalidateStep(t)
  BY <1>5, InvalidateStepHash
<1>6. CASE InsertMerge(t) \/ DeleteReset(t)
  BY <1>6, InsertMergeHash
<1>7. CASE InsertFoundEmpty(t)
  BY <1>7, InsertFoundEmptyHash
<1>8. CASE InsertEmplace(t)
  BY <1>8, InsertEmplaceHash
<1>9. CASE InsertLoad(t) \/ InsertRetry(t)
  BY <1>9, InsertLoadHash
<1>10. CASE InsertAttach(t)
  BY <1>10, InsertAttachHash
<1>11. CASE InsertSplit(t)
  BY <1>11, InsertSplitHash
<1>12. CASE DeleteLoad(t)
  BY <1>12, DeleteLoadHash
<1>13. CASE DeleteExchange(t)
  BY <1>13, DeleteExchangeHash
<1>14. CASE GetLeaf(t) \/ GetLoad(t)
  BY <1>14, GetHash
<1> QED BY <1>1, <1>2, <1>3, <1>4, <1>5, <1>6, <1>7, <1>8, <1>9, <1>10, <1>11,
           <1>12, <1>13, <1>14 DEF Proceed

LEMMA NextHash ==
    ASSUME IndInv, IndInv', HashInv, Next
    PROVE  HashInv'
<1>1. ASSUME NEW t \in Threads, Start(t)
      PROVE  HashInv'
  <2>1. CASE \E k \in Keys, l \in SubnodeLens : GetSubnode(t, k, l)
    BY <2>1, GetSubnodeHash
  <2>2. CASE \E k \in Keys : \/ \E v \in Value : StartInsert(t, k, v)
                             \/ StartDelete(t, k)
                             \/ StartGet(t, k)
    BY <2>2, StartHash
  <2>3. CASE Finish(t)
    BY <2>3, FinishHash
  <2> QED BY <1>1, <2>1, <2>2, <2>3 DEF Start
<1>2. ASSUME NEW t \in Threads, Proceed(t)
      PROVE  HashInv'
  BY <1>2, ProceedHash
<1>3. CASE HashStep
  BY <1>3, HashLeafHash, HashMapHash DEF HashStep
<1>4. CASE HashStart
  BY <1>4, HashStartHash
<1>5. CASE DoGC
  BY <1>5, DoGCHash
<1>6. CASE Clear
  BY <1>6, ClearHash
<1> QED BY <1>1, <1>2, <1>3, <1>4, <1>5, <1>6 DEF Next

LEMMA StutterHash == HashInv /\ UNCHANGED vars => HashInv'
<1> SUFFICES ASSUME HashInv, UNCHANGED vars
             PROVE  HashInv'
  OBVIOUS
<1>1. UNCHANGED <<live, gc, root, pfx, len, child, val, valid, hash, phase, done,
                  pc, qk, ql, ref, key, arg, cur, exp, res>>
  BY DEF vars, tree, hashes, threads
<1>2. \A n : /\ IsLeaf(n)' = IsLeaf(n) /\ Kids(n)' = Kids(n)
             /\ Returned(n)' = Returned(n) /\ DigestOf(n)' = DigestOf(n)
  BY <1>1 DEF IsLeaf, Kids, Returned, DigestOf, Digest
<1>3. \A t : Given(t)' = Given(t)
  BY <1>1 DEF Given, Inside
<1>4. HashesFresh'
  BY <1>1, <1>2 DEF HashInv, HashesFresh
<1>5. PathInvalidated' /\ InvalidationReached'
  BY <1>1, <1>3 DEF HashInv, PathInvalidated, InvalidationReached, Above
<1>6. ReturnsPending'
  BY <1>1, <1>2 DEF HashInv, ReturnsPending, Above
<1> QED BY <1>1, <1>4, <1>5, <1>6 DEF HashInv, GarbageClosed, DigestsForgotten

-----------------------------------------------------------------------------
(* The theorems *)

\* HashInv holds in every state: get_subnode_ref_and_invalidate_hash, insert
\* and delete_value invalidate every digest they make stale before anybody can
\* rely on it, and compute_hash_and_normalize meets what it needs.
THEOREM HashInductive ==
    ASSUME "del" \in Ops => Disjoint
    PROVE  Spec => []HashInv
<1>1. Init => HashInv
  BY InitHash
<1>2. IndInv /\ IndInv' /\ HashInv /\ [Next]_vars => HashInv'
  BY NextHash, StutterHash
<1> QED BY <1>1, <1>2, Inductive, PTL DEF Spec

\* hash_valid never lies: outside a subnode request that is about to
\* invalidate it, a digest marked valid is the digest of what the node and
\* its children hold now, whatever the threads insert, delete or split.
THEOREM DigestsFresh ==
    ASSUME "del" \in Ops => Disjoint
    PROVE  Spec => []HashesFresh
<1>1. HashInv => HashesFresh
  BY DEF HashInv
<1> QED BY <1>1, HashInductive, PTL

\* From the moment a thread is given its subnode until it drops it, no digest
\* on the way from the root to the node where it works is valid.
THEOREM PathsInvalidated ==
    ASSUME "del" \in Ops => Disjoint
    PROVE  Spec => []PathInvalidated
<1>1. HashInv => PathInvalidated
  BY DEF HashInv
<1> QED BY <1>1, HashInductive, PTL

\* Neither a removed leaf nor a spliced-out node takes a node of the tree to
\* the collector with it.
THEOREM CollectorOwnsOnlyGarbage ==
    ASSUME "del" \in Ops => Disjoint
    PROVE  Spec => []CollectorSafe
<1>1. IndInv /\ HashInv => CollectorSafe
  <2> SUFFICES ASSUME IndInv, HashInv
               PROVE  CollectorSafe
    OBVIOUS
  <2>1. gc \cap live = {} /\ NULL \notin live
    BY AddrAssumption DEF IndInv, MemoryOK, TypeOK
  <2> QED BY <2>1 DEF HashInv, GarbageClosed, CollectorSafe
<1> QED BY <1>1, Inductive, HashInductive, PTL

\* What the assertions of the calls test, and of the hash computation.
LEMMA AssertsFollow == IndInv /\ HashInv => TrieAssertsHold
<1> SUFFICES ASSUME IndInv, HashInv
             PROVE  TrieAssertsHold
  OBVIOUS
<1>0. TypeOK /\ TreeOK
  BY DEF IndInv
<1>1. ASSUME NEW t \in Threads
      PROVE  /\ pc[t] = "ins" => Covers(cur[t], key[t], KeyLen)
             /\ pc[t] = "sub" => Covers(cur[t], qk[t], ql[t])
  <2>1. ASSUME pc[t] = "ins"
        PROVE  Covers(cur[t], key[t], KeyLen)
    <3>1. Inside(t)
      BY <2>1 DEF Inside
    <3> QED BY <3>1, <1>0, CallGoal, CurFacts, CoversPrefix
  <2>2. ASSUME pc[t] = "sub"
        PROVE  Covers(cur[t], qk[t], ql[t])
    <3>1. pc[t] \in Requesting
      BY <2>2 DEF Requesting
    <3> QED BY <3>1, <1>0, RequestGoal, CurFacts, CoversPrefix
  <2> QED BY <2>1, <2>2
<1>2. ASSUME NEW t \in Threads, pc[t] = "inv", cur[t] # ref[t]
      PROVE  /\ Covers(cur[t], pfx[ref[t]], len[ref[t]])
             /\ child[cur[t]][Slot(cur[t], pfx[ref[t]])] # NULL
  <2>1. /\ cur[t] \in live /\ ref[t] \in live /\ Above(cur[t], ref[t])
        /\ len[cur[t]] < len[ref[t]]
    BY <1>2, InvFacts
  <2>2. cur[t] \in Addr /\ pfx[ref[t]] \in Key /\ len[ref[t]] \in PrefixLen
    BY <2>1, <1>0 DEF TypeOK
  <2>3. Covers(cur[t], pfx[ref[t]], len[ref[t]])
    BY <2>1, <2>2, <1>0, CoversPrefix DEF Above
  <2> QED BY <2>1, <2>3, <1>0 DEF TreeOK, PathsComplete
<1>3. ASSUME NEW t \in Threads, pc[t] = "del"
      PROVE  IF IsLeaf(cur[t]) THEN pfx[cur[t]] = key[t]
             ELSE child[cur[t]][Slot(cur[t], key[t])] # NULL
  <2>1. Inside(t)
    BY <1>3 DEF Inside
  <2>2. /\ cur[t] \in live /\ cur[t] \in Addr /\ key[t] \in Key /\ pfx[cur[t]] \in Key
        /\ IsPrefixOf(pfx[cur[t]], len[cur[t]], key[t], KeyLen)
        /\ len[cur[t]] \in PrefixLen
    BY <2>1, CallGoal, CurFacts
  <2>3. CASE IsLeaf(cur[t])
    <3>1. IsPrefixOf(pfx[cur[t]], KeyLen, key[t], KeyLen)
      BY <2>2, <2>3 DEF IsLeaf
    <3> QED BY <3>1, <2>2, <2>3, FullPrefix
  <2>4. CASE ~IsLeaf(cur[t])
    <3>1. PICK x \in live : len[x] = KeyLen /\ pfx[x] = key[t]
      BY <1>3 DEF IndInv, LocalsOK, HasLeaf, IsLeaf
    <3>2. Above(cur[t], x) /\ len[cur[t]] < len[x]
      BY <3>1, <2>2, <2>4, <1>0, NotLeaf DEF Above
    <3> QED BY <3>1, <3>2, <2>2, <2>4, <1>0 DEF TreeOK, PathsComplete
  <2> QED BY <2>3, <2>4
<1>4. ASSUME NEW t \in Threads, CasPending(t), exp[t] # NULL
      PROVE  MatchLen(pfx[exp[t]], len[exp[t]], Goal(t), GoalLen(t)) < KeyLen
  <2>1. exp[t] \in Addr /\ ~Covers(exp[t], Goal(t), GoalLen(t))
    BY <1>4, <1>0 DEF IndInv, PointersStable, PointersOK, TypeOK
  <2>2. Goal(t) \in Key /\ GoalLen(t) \in PrefixLen
    <3>1. Inside(t) \/ pc[t] \in Requesting
      BY <1>4 DEF CasPending, Inside, Requesting
    <3> QED BY <3>1, CurFacts
  <2>3. pfx[exp[t]] \in Key /\ len[exp[t]] \in PrefixLen
    BY <2>1, <1>0 DEF TypeOK
  <2>4. /\ MatchLen(pfx[exp[t]], len[exp[t]], Goal(t), GoalLen(t)) \in PrefixLen
        /\ MatchLen(pfx[exp[t]], len[exp[t]], Goal(t), GoalLen(t)) <= len[exp[t]]
    BY <2>2, <2>3, MatchLenFact
  <2> QED BY <2>1, <2>3, <2>4, KeyLenAssumption DEF Covers, PrefixLen
<1>5. ASSUME NEW n \in Addr, phase = "hash", Running(n), ~IsLeaf(n)
      PROVE  \A b \in Branch : Settled(n, b) # NULL => valid[Settled(n, b)]
  <2>1. AllIdle
    BY <1>5 DEF IndInv, MemoryOK
  <2> QED BY <2>1, <1>5, SettledValid
<1> QED BY <1>1, <1>2, <1>3, <1>4, <1>5 DEF TrieAssertsHold

\* No trie_assert of insert, get_or_make_subnode_ref, invalidate_hash_to_node,
\* delete_value or of the hash computation ever fails.
THEOREM AssertsNeverFail ==
    ASSUME "del" \in Ops => Disjoint
    PROVE  Spec => []TrieAssertsHold
BY AssertsFollow, Inductive, HashInductive, PTL

-----------------------------------------------------------------------------
(* The normal form that compute_hash_and_normalize leaves behind *)

\* What NormalForm says of a node.
Normal(n) ==
    /\ Returned(n) => \A b \in Kids(n) : ~Empty(child[n][b]) /\ ~Single(child[n][b])
    /\ valid[n] /\ len[n] # 0 /\ ~IsLeaf(n) => ~Empty(n) /\ ~Single(n)

LEMMA NormalParts ==
    NormalForm <=> \A n \in live : (\A t \in Threads : ~Doomed(n, t)) => Normal(n)
BY DEF NormalForm, Normal, Doomed

\* Whether a node is to be removed depends on what it holds only.
Untouched(x) ==
    child'[x] = child[x] /\ val'[x] = val[x] /\ len'[x] = len[x]

LEMMA UntouchedFact ==
    ASSUME NEW x, Untouched(x)
    PROVE  /\ Empty(x)' <=> Empty(x)
           /\ Single(x)' <=> Single(x)
           /\ Kids(x)' = Kids(x)
           /\ IsLeaf(x)' <=> IsLeaf(x)
<1>1. Kids(x)' = Kids(x)
  BY DEF Kids, Untouched
<1>2. IsLeaf(x)' <=> IsLeaf(x)
  BY DEF IsLeaf, Untouched
<1> QED BY <1>1, <1>2 DEF Empty, Single, Untouched

\* A step of thread t in a batch that touches the nodes D: above them there is
\* no valid digest, or the request of t is going to invalidate it.
LEMMA NormalThreadStep ==
    ASSUME IndInv, IndInv', NormalForm, NEW t \in Threads,
           done = {}, done' = {},
           \A u \in Threads \ {t} : SameLocals(u),
           NEW D,
           \A x \in live' \cap live : /\ pfx'[x] = pfx[x] /\ len'[x] = len[x]
                                      /\ valid'[x] => valid[x]
                                      /\ x \notin D => Untouched(x),
           \A x \in live' \ live : ~valid'[x],
           \A x \in live, d \in D : Above(x, d) /\ valid'[x] => Doomed(x, t)',
           \A x \in live : Doomed(x, t) /\ valid'[x] => Doomed(x, t)',
           D \subseteq live
    PROVE  NormalForm'
<1> SUFFICES ASSUME NEW n \in live', \A u \in Threads : ~Doomed(n, u)'
             PROVE  Normal(n)'
  BY DEF NormalForm, Normal, Doomed
<1>0. TypeOK /\ TreeOK /\ TreeOK'
  BY DEF IndInv
<1>1. CASE ~valid'[n]
  BY <1>1 DEF Normal, Returned
<1>2. CASE valid'[n]
  <2>1. n \in live /\ valid[n]
    BY <1>2
  <2>2. ASSUME NEW u \in Threads PROVE ~Doomed(n, u)
    <3>1. CASE u = t
      BY <1>2, <2>1, <3>1
    <3>2. CASE u # t
      BY <2>1, <3>2 DEF Doomed, SameLocals
    <3> QED BY <3>1, <3>2
  <2>3. Normal(n)
    BY <2>1, <2>2, NormalParts
  <2>4. \A d \in D : ~Above(n, d)
    BY <1>2, <2>1
  <2>5. n \notin D
    <3>1. Above(n, n)
      BY <1>0, <2>1, PrefixRefl DEF Above, TypeOK
    <3> QED BY <2>4, <3>1
  <2>6. Untouched(n) /\ child'[n] = child[n]
    BY <2>1, <2>5 DEF Untouched
  <2>7. ASSUME NEW b \in Kids(n)
        PROVE  (Empty(child[n][b])' <=> Empty(child[n][b])) /\ (Single(child[n][b])' <=> Single(child[n][b]))
    <3>1. PICK c : c = child[n][b] /\ c # NULL /\ b \in Branch
      BY DEF Kids
    <3>2. c \in live /\ c \in live' /\ Above(n, c)
      BY <1>0, <2>1, <2>6, <3>1 DEF TreeOK, EdgesDescend
    <3>3. Untouched(c)
      BY <2>4, <3>2
    <3>4. (Empty(c)' <=> Empty(c)) /\ (Single(c)' <=> Single(c))
      BY <3>3, UntouchedFact
    <3> QED BY <2>6, <3>1, <3>4 DEF Empty, Single, Kids, IsLeaf
  <2>8. Kids(n)' = Kids(n) /\ (Empty(n)' <=> Empty(n)) /\ (Single(n)' <=> Single(n)) /\ (IsLeaf(n)' <=> IsLeaf(n))
    BY <2>6, UntouchedFact
  <2>9. Returned(n) /\ \A b \in Kids(n) : ~Empty(child[n][b])' /\ ~Single(child[n][b])'
    BY <2>1, <2>3, <2>7 DEF Normal, Returned
  <2> QED BY <2>1, <2>3, <2>8, <2>9 DEF Normal
<1> QED BY <1>1, <1>2

\* A step of a thread that leaves the nodes alone, except for digests that it
\* invalidates.
LEMMA QuietNormal ==
    ASSUME IndInv, IndInv', NormalForm, NEW t \in Threads,
           done = {}, UNCHANGED <<live, pfx, len, child, val, done>>,
           \A u \in Threads \ {t} : SameLocals(u),
           valid' = valid \/ valid' = [valid EXCEPT ![cur[t]] = FALSE],
           \A x \in live : Doomed(x, t) /\ valid'[x] => Doomed(x, t)'
    PROVE  NormalForm'
<1>1. live \subseteq Addr /\ valid \in [Addr -> BOOLEAN]
  BY DEF IndInv, TypeOK
<1>2. ASSUME NEW x \in live' \cap live
      PROVE  /\ pfx'[x] = pfx[x] /\ len'[x] = len[x]
             /\ valid'[x] => valid[x]
             /\ Untouched(x)
  BY <1>1 DEF Untouched
<1>3. \A x \in live' \ live : ~valid'[x]
  OBVIOUS
<1> QED BY <1>2, <1>3, NormalThreadStep

\* The steps of a request that add nothing.
LEMMA RequestNormal ==
    ASSUME IndInv, IndInv', HashInv, HashInv', NormalForm, NEW t \in Threads,
           SubReturn(t) \/ SubLoad(t) \/ SubRetry(t) \/ InvalidateStep(t)
    PROVE  NormalForm'
<1>1. /\ TypeOK /\ pc[t] \in Requesting /\ pc[t] # "idle" /\ phase = "batch" /\ done = {}
      /\ UNCHANGED <<live, pfx, len, child, val, done, qk, ql>>
  <2>1. pc[t] \in Requesting /\ pc[t] # "idle"
    BY DEF SubReturn, SubLoad, SubRetry, InvalidateStep, Requesting
  <2>2. UNCHANGED <<live, pfx, len, child, val, done, qk, ql>>
    BY DEF SubReturn, SubLoad, SubRetry, InvalidateStep, GotSubnode, tree, hashes
  <2> QED BY <2>1, <2>2, Busy DEF IndInv, HashInv, ReturnsPending
<1>2. \A u \in Threads \ {t} : SameLocals(u)
  BY <1>1 DEF SubReturn, SubLoad, SubRetry, InvalidateStep, GotSubnode, Observe, SameLocals, TypeOK
<1>3. valid' = valid \/ valid' = [valid EXCEPT ![cur[t]] = FALSE]
  BY DEF SubReturn, SubLoad, SubRetry, InvalidateStep, InvalidateHash, hashes
<1>4. ASSUME NEW x \in live, Doomed(x, t), valid'[x] PROVE Doomed(x, t)'
  <2>1. CASE pc'[t] \in Requesting
    BY <1>1, <1>4, <2>1 DEF Doomed
  <2>2. CASE pc'[t] \notin Requesting
    <3>1. InvalidateStep(t) /\ pc'[t] = "ready" /\ pc[t] = "inv" /\ ref' = ref
      BY <1>1, <2>2 DEF SubReturn, SubLoad, SubRetry, InvalidateStep, GotSubnode, Observe, TypeOK, Requesting
    <3>2. Above(x, ref[t])
      BY <1>4, <3>1, InvFacts DEF Doomed
    <3>3. Given(t)' /\ Above(x, ref[t])'
      BY <1>1, <3>1, <3>2 DEF Given, Above
    <3> QED BY <1>1, <1>4, <3>1, <3>3 DEF HashInv, PathInvalidated
  <2> QED BY <2>1, <2>2
<1> QED BY <1>1, <1>2, <1>3, <1>4, QuietNormal

\* The steps of the other calls that leave the tree alone.
LEMMA CallNormal ==
    ASSUME IndInv, IndInv', HashInv, NormalForm, NEW t \in Threads,
           \/ InsertFoundEmpty(t) \/ InsertLoad(t) \/ InsertRetry(t)
           \/ DeleteLoad(t) \/ GetLeaf(t) \/ GetLoad(t)
    PROVE  NormalForm'
<1>1. /\ TypeOK /\ Inside(t)
      /\ UNCHANGED <<live, pfx, len, child, val, done>>
  BY DEF InsertFoundEmpty, InsertLoad, InsertRetry, DeleteLoad, GetLeaf, GetLoad,
         Inside, tree, hashes, IndInv
<1>2. done = {} /\ \A x : ~Doomed(x, t)
  BY <1>1, InsideFacts DEF HashInv, ReturnsPending
<1>3. \A u \in Threads \ {t} : SameLocals(u)
  <2>1. CASE InsertFoundEmpty(t) \/ InsertLoad(t) \/ InsertRetry(t) \/ DeleteLoad(t)
    BY <1>1, <2>1 DEF InsertFoundEmpty, InsertLoad, InsertRetry, DeleteLoad, Observe, SameLocals, TypeOK
  <2>2. CASE GetLeaf(t) \/ GetLoad(t)
    BY <1>1, <2>2 DEF GetLeaf, GetLoad, Return, SameLocals, TypeOK
  <2> QED BY <2>1, <2>2
<1>4. valid' = valid \/ valid' = [valid EXCEPT ![cur[t]] = FALSE]
  BY DEF InsertFoundEmpty, InsertLoad, InsertRetry, DeleteLoad, GetLeaf, GetLoad, InvalidateHash, hashes
<1> QED BY <1>1, <1>2, <1>3, <1>4, QuietNormal

LEMMA StartNormal ==
    ASSUME IndInv, IndInv', HashInv, NormalForm, NEW t \in Threads, Start(t)
    PROVE  NormalForm'
<1>1. /\ TypeOK /\ pc[t] \in {"idle", "ready"}
      /\ UNCHANGED <<live, pfx, len, child, val, valid, done>>
  BY DEF Start, GetSubnode, StartInsert, StartDelete, StartGet, Finish, Call, tree, hashes, IndInv
<1>2. phase = "batch"
  <2>1. CASE pc[t] = "ready"
    BY <2>1, Busy
  <2>2. CASE pc[t] = "idle"
    BY <2>2 DEF Start, GetSubnode, StartInsert, StartDelete, StartGet, Finish, Call
  <2> QED BY <1>1, <2>1, <2>2
<1>3. done = {} /\ \A x : ~Doomed(x, t)
  BY <1>1, <1>2 DEF HashInv, ReturnsPending, Doomed, Requesting
<1>4. \A u \in Threads \ {t} : SameLocals(u)
  BY <1>1 DEF Start, GetSubnode, StartInsert, StartDelete, StartGet, Finish, Call, SameLocals, TypeOK
<1> QED BY <1>1, <1>3, <1>4, QuietNormal

\* A value changes below nodes that have no valid digest.
LEMMA ValueNormal ==
    ASSUME IndInv, IndInv', HashInv, NormalForm, NEW t \in Threads,
           InsertMerge(t) \/ DeleteReset(t) \/ InsertEmplace(t)
    PROVE  NormalForm'
<1>1. /\ TypeOK /\ TreeOK /\ Inside(t) /\ live \subseteq Addr /\ valid \in [Addr -> BOOLEAN]
      /\ UNCHANGED <<live, pfx, len, child, done>>
  BY DEF InsertMerge, DeleteReset, InsertEmplace, Inside, hashes, IndInv, TypeOK
<1>2. done = {} /\ (\A x : ~Doomed(x, t)) /\ cur[t] \in live /\ PathOK(t)
  BY <1>1, InsideFacts, PathParts DEF HashInv, ReturnsPending
<1>3. \A u \in Threads \ {t} : SameLocals(u)
  BY <1>1 DEF InsertMerge, DeleteReset, InsertEmplace, Return, SameLocals, TypeOK
<1>0. PICK D : D = {cur[t]}
  OBVIOUS
<1>4. ASSUME NEW x \in live' \cap live
      PROVE  /\ pfx'[x] = pfx[x] /\ len'[x] = len[x]
             /\ valid'[x] => valid[x]
             /\ x \notin D => Untouched(x)
  <2>1. valid' = valid \/ valid' = [valid EXCEPT ![cur[t]] = FALSE]
    BY DEF InsertMerge, DeleteReset, InsertEmplace, InvalidateHash, hashes
  <2>2. \E v : val' = [val EXCEPT ![cur[t]] = v]
    BY DEF InsertMerge, DeleteReset, InsertEmplace
  <2>3. x # cur[t] => val'[x] = val[x]
    BY <1>1, <2>2 DEF TypeOK
  <2>4. valid'[x] => valid[x]
    BY <1>1, <2>1
  <2> QED BY <1>0, <1>1, <2>3, <2>4 DEF Untouched
<1>5. ASSUME NEW x \in live, Above(x, cur[t]), valid'[x] PROVE FALSE
  <2>1. CASE InsertMerge(t) \/ DeleteReset(t)
    <3>1. valid' = [valid EXCEPT ![cur[t]] = FALSE] /\ pc[t] \in {"ins", "del"}
      BY <2>1 DEF InsertMerge, DeleteReset, InvalidateHash
    <3>2. x # cur[t] /\ valid[x]
      BY <1>1, <1>2, <1>5, <3>1
    <3> QED BY <1>2, <1>5, <3>1, <3>2 DEF PathOK
  <2>2. CASE InsertEmplace(t)
    BY <1>2, <1>5, <2>2 DEF InsertEmplace, hashes, PathOK
  <2> QED BY <2>1, <2>2
<1>6. \A x \in live' \ live : ~valid'[x]
  BY <1>1
<1>7. D \subseteq live /\ \A x \in live, d \in D : Above(x, d) /\ valid'[x] => Doomed(x, t)'
  BY <1>0, <1>2, <1>5
<1>8. \A x \in live : Doomed(x, t) /\ valid'[x] => Doomed(x, t)'
  BY <1>2
<1>9. done' = {}
  BY <1>1, <1>2
<1> QED BY <1>2, <1>3, <1>4, <1>6, <1>7, <1>8, <1>9, NormalThreadStep

\* A node is published below nodes that have no valid digest, or whose digests
\* the request under way is going to invalidate.
LEMMA PublishNormal ==
    ASSUME IndInv, IndInv', NormalForm, NEW t \in Threads, done = {},
           NEW n \in live, NEW b \in Branch, NEW a \in Free, NEW p, NEW l,
           NEW kids, NEW v, Publish(n, b, a, p, l, kids, v),
           \A u \in Threads \ {t} : SameLocals(u),
           \A x \in live : Above(x, n) /\ valid[x] => Doomed(x, t)',
           \A x \in live : Doomed(x, t) => Doomed(x, t)'
    PROVE  NormalForm'
<1>0. PICK D : D = {n}
  OBVIOUS
<1>1. TypeOK /\ live \subseteq Addr /\ a \in Addr /\ a \notin live /\ n \in Addr /\ a # n
  BY DEF IndInv, TypeOK, Free
<1>2. /\ live' = live \cup {a} /\ done' = done /\ ~valid'[a]
      /\ \A x \in Addr : x # a =>
            /\ pfx'[x] = pfx[x] /\ len'[x] = len[x] /\ val'[x] = val[x]
            /\ valid'[x] <=> valid[x]
            /\ x # n => child'[x] = child[x]
  BY <1>1 DEF Publish, TypeOK
<1>3. ASSUME NEW x \in live' \cap live
      PROVE  /\ pfx'[x] = pfx[x] /\ len'[x] = len[x]
             /\ valid'[x] => valid[x]
             /\ x \notin D => Untouched(x)
  BY <1>0, <1>1, <1>2 DEF Untouched
<1>4. \A x \in live' \ live : ~valid'[x]
  BY <1>2
<1>5. D \subseteq live /\ \A x \in live, d \in D : Above(x, d) /\ valid'[x] => Doomed(x, t)'
  BY <1>0, <1>1, <1>2
<1>6. done' = {}
  BY <1>2
<1> QED BY <1>3, <1>4, <1>5, <1>6, NormalThreadStep

LEMMA SubPublishNormal ==
    ASSUME IndInv, IndInv', HashInv, NormalForm, NEW t \in Threads,
           SubAttach(t) \/ SubSplit(t)
    PROVE  NormalForm'
<1>1. /\ TypeOK /\ TreeOK /\ pc[t] \in Requesting /\ CasPending(t) /\ pc[t] # "idle"
      /\ Goal(t) = qk[t] /\ GoalLen(t) = ql[t] /\ phase = "batch" /\ Free # {} /\ done = {}
  BY RequestGoal, Busy DEF SubAttach, SubSplit, Requesting, CasPending, IndInv, HashInv, ReturnsPending
<1>2. /\ cur[t] \in live /\ qk[t] \in Key /\ ql[t] \in PrefixLen
      /\ IsPrefixOf(pfx[cur[t]], len[cur[t]], qk[t], ql[t])
      /\ len[cur[t]] < ql[t]
  BY <1>1, CurFacts, RequestGoal DEF IndInv, PointersStable, PointersOK
<1>3. PICK a : /\ a \in Free /\ Slot(cur[t], qk[t]) \in Branch
               /\ \E p, l, kids, v : Publish(cur[t], Slot(cur[t], qk[t]), a, p, l, kids, v)
  <2>1. CASE SubAttach(t)
    <3>1. PICK a : a = Malloc(Free, qk[t], ql[t])
      OBVIOUS
    <3>2. a \in Free /\ Slot(cur[t], qk[t]) \in Branch
      BY <1>1, <1>2, <3>1, MallocFree, ChildFacts
    <3>3. Publish(cur[t], Slot(cur[t], qk[t]), a, qk[t], ql[t], NoChildren, NoValue)
      BY <2>1, <3>1 DEF SubAttach
    <3> QED BY <3>2, <3>3
  <2>2. CASE SubSplit(t)
    <3>1. PICK a : a = SplitAddr(exp[t], Goal(t), GoalLen(t))
      OBVIOUS
    <3> QED BY <1>1, <2>2, <3>1, SplitPlace DEF SubSplit
  <2> QED BY <2>1, <2>2
<1>4. /\ pc'[t] \in Requesting /\ qk' = qk /\ ql' = ql
      /\ \A u \in Threads \ {t} : SameLocals(u)
  BY <1>1 DEF SubAttach, SubSplit, GotSubnode, SameLocals, TypeOK, Requesting
<1>5. \A x \in live : pfx'[x] = pfx[x] /\ len'[x] = len[x]
  BY <1>1, <1>3 DEF Publish, Free, TypeOK
<1>6. \A x \in live : Doomed(x, t) => Doomed(x, t)'
  BY <1>4, <1>5 DEF Doomed
<1>7. ASSUME NEW x \in live, Above(x, cur[t]) PROVE Doomed(x, t)
  <2>1. IsPrefixOf(pfx[x], len[x], qk[t], ql[t])
    BY <1>1, <1>2, <1>7, PrefixTrans DEF Above, TypeOK
  <2> QED BY <1>1, <2>1 DEF Doomed
<1> QED BY <1>1, <1>2, <1>3, <1>4, <1>6, <1>7, PublishNormal

LEMMA InsertPublishNormal ==
    ASSUME IndInv, IndInv', HashInv, NormalForm, NEW t \in Threads,
           InsertAttach(t) \/ InsertSplit(t)
    PROVE  NormalForm'
<1>1. /\ TypeOK /\ TreeOK /\ Inside(t) /\ pc[t] = "ins_cas" /\ CasPending(t) /\ Free # {}
      /\ UNCHANGED <<qk, ql, ref>>
  BY DEF InsertAttach, InsertSplit, IndInv, Inside, CasPending
<1>2. /\ phase = "batch" /\ cur[t] \in live /\ done = {}
      /\ (\A x : ~Doomed(x, t))
      /\ PathOK(t) /\ Goal(t) = key[t] /\ GoalLen(t) = KeyLen
  BY <1>1, InsideFacts, PathParts, CallGoal DEF HashInv, ReturnsPending
<1>3. PICK a : /\ a \in Free /\ Slot(cur[t], key[t]) \in Branch
               /\ \E p, l, kids, v : Publish(cur[t], Slot(cur[t], key[t]), a, p, l, kids, v)
  <2>1. CASE InsertAttach(t)
    <3>1. PICK a : a = Malloc(Free, key[t], KeyLen)
      OBVIOUS
    <3>2. key[t] \in Key /\ KeyLen \in PrefixLen /\ len[cur[t]] < KeyLen
      BY <1>1, CallGoal, ZeroKeyType DEF TypeOK, IndInv, PointersStable, PointersOK
    <3>3. a \in Free /\ Slot(cur[t], key[t]) \in Branch
      BY <1>1, <1>2, <3>1, <3>2, MallocFree, ChildFacts
    <3>4. Publish(cur[t], Slot(cur[t], key[t]), a, key[t], KeyLen, NoChildren, arg[t])
      BY <2>1, <3>1 DEF InsertAttach
    <3> QED BY <3>3, <3>4
  <2>2. CASE InsertSplit(t)
    <3>1. PICK a : a = SplitAddr(exp[t], Goal(t), GoalLen(t))
      OBVIOUS
    <3> QED BY <1>1, <1>2, <2>2, <3>1, SplitPlace DEF InsertSplit
  <2> QED BY <2>1, <2>2
<1>4. \A u \in Threads \ {t} : SameLocals(u)
  BY <1>1 DEF InsertAttach, InsertSplit, Return, SameLocals, TypeOK
<1>5. \A x \in live : Above(x, cur[t]) => ~valid[x]
  BY <1>1, <1>2 DEF PathOK
<1> QED BY <1>2, <1>3, <1>4, <1>5, PublishNormal

LEMMA DeleteExchangeNormal ==
    ASSUME IndInv, IndInv', HashInv, NormalForm, NEW t \in Threads, DeleteExchange(t)
    PROVE  NormalForm'
<1>1. /\ TypeOK /\ Inside(t) /\ pc[t] = "del_exchange" /\ Return(t) /\ live \subseteq Addr
      /\ UNCHANGED <<pfx, len, val, valid, done, qk, ql, ref, res>>
  BY DEF DeleteExchange, Inside, IndInv, hashes, TypeOK
<1>2. /\ cur[t] \in live /\ done = {}
      /\ (\A x : ~Doomed(x, t))
      /\ PathOK(t)
  BY <1>1, InsideFacts, PathParts DEF HashInv, ReturnsPending
<1>3. \A u \in Threads \ {t} : SameLocals(u)
  BY <1>1 DEF Return, SameLocals, TypeOK
<1>4. live' \subseteq live /\ \A x \in live : x # cur[t] => child'[x] = child[x]
  <2>1. live' \subseteq live
    BY DEF DeleteExchange
  <2>2. \E f : child' = [child EXCEPT ![cur[t]] = f]
    BY DEF DeleteExchange
  <2> QED BY <1>1, <2>1, <2>2 DEF TypeOK
<1>5. \A x \in live : Above(x, cur[t]) => ~valid[x]
  BY <1>1, <1>2 DEF PathOK
<1>0. PICK D : D = {cur[t]}
  OBVIOUS
<1>6. ASSUME NEW x \in live' \cap live
      PROVE  /\ pfx'[x] = pfx[x] /\ len'[x] = len[x]
             /\ valid'[x] => valid[x]
             /\ x \notin D => Untouched(x)
  BY <1>0, <1>1, <1>4 DEF Untouched
<1>7. \A x \in live' \ live : ~valid'[x]
  BY <1>4
<1>8. D \subseteq live /\ \A x \in live, d \in D : Above(x, d) /\ valid'[x] => Doomed(x, t)'
  BY <1>0, <1>1, <1>2, <1>5
<1>9. \A x \in live : Doomed(x, t) /\ valid'[x] => Doomed(x, t)'
  BY <1>2
<1>10. done' = {}
  BY <1>1, <1>2
<1> QED BY <1>2, <1>3, <1>6, <1>7, <1>8, <1>9, <1>10, NormalThreadStep

LEMMA AloneNormal ==
    ASSUME AllIdle, NormalForm
    PROVE  \A n \in live : Normal(n)
<1>1. \A n \in live, t \in Threads : ~Doomed(n, t)
  BY DEF AllIdle, Doomed, Requesting
<1> QED BY <1>1, NormalParts

\* A node whose children and flags stay, with those of its children, stays
\* normal.
LEMMA NormalKept ==
    ASSUME NEW n, Normal(n), Untouched(n), \A b \in Kids(n) : Untouched(child[n][b]),
           Returned(n)' => Returned(n), valid'[n] => valid[n]
    PROVE  Normal(n)'
<1>1. ASSUME NEW b \in Kids(n)
      PROVE  (Empty(child[n][b])' <=> Empty(child[n][b])) /\ (Single(child[n][b])' <=> Single(child[n][b]))
  <2>1. PICK c : c = child[n][b]
    OBVIOUS
  <2>2. (Empty(c)' <=> Empty(c)) /\ (Single(c)' <=> Single(c))
    BY <2>1, UntouchedFact
  <2>3. child'[n] = child[n]
    BY DEF Untouched
  <2> QED BY <2>1, <2>2, <2>3 DEF Empty, Single, Kids, IsLeaf
<1>2. /\ Kids(n)' = Kids(n) /\ (Empty(n)' <=> Empty(n)) /\ (Single(n)' <=> Single(n))
      /\ (IsLeaf(n)' <=> IsLeaf(n)) /\ len'[n] = len[n]
  BY UntouchedFact DEF Untouched
<1> QED BY <1>1, <1>2 DEF Normal

LEMMA HashStartNormal ==
    ASSUME IndInv, HashInv, NormalForm, HashStart \/ UNCHANGED vars
    PROVE  NormalForm'
<1>1. UNCHANGED <<live, pfx, len, child, val, valid, done, pc, qk, ql>>
  BY DEF HashStart, tree, threads, vars, hashes
<1> QED BY <1>1 DEF NormalForm, Returned, Kids, Empty, Single, IsLeaf

LEMMA HashLeafNormal ==
    ASSUME IndInv, HashInv, NormalForm, NEW n \in Addr, HashLeaf(n)
    PROVE  NormalForm'
<1>1. /\ AllIdle /\ n \in live /\ IsLeaf(n) /\ live \subseteq Addr /\ TypeOK /\ TreeOK
      /\ UNCHANGED <<live, pfx, len, child, val, done>> /\ valid' = [valid EXCEPT ![n] = TRUE]
  BY DEF HashLeaf, Running, tree, IndInv, MemoryOK, TypeOK
<1>2. ASSUME NEW x \in live' PROVE Normal(x)'
  <2>1. Untouched(x) /\ \A b \in Kids(x) : Untouched(child[x][b])
    BY <1>1 DEF Untouched
  <2>2. CASE x # n
    <3>1. valid'[x] = valid[x]
      BY <1>1, <2>2 DEF TypeOK
    <3>2. Normal(x)
      BY <1>1, AloneNormal
    <3> QED BY <1>1, <2>1, <3>1, <3>2, NormalKept DEF Returned
  <2>3. CASE x = n
    <3>1. ASSUME NEW b \in Kids(n) PROVE FALSE
      <4>1. child[n][b] \in live /\ len[n] < len[child[n][b]]
        BY <1>1 DEF TreeOK, EdgesDescend, Kids
      <4> QED BY <4>1, <1>1, KeyLenAssumption DEF IsLeaf, TypeOK, PrefixLen
    <3>2. Kids(n)' = {} /\ IsLeaf(n)'
      BY <1>1, <3>1 DEF Kids, IsLeaf
    <3> QED BY <2>3, <3>2 DEF Normal
  <2> QED BY <2>2, <2>3
<1> QED BY <1>2, NormalParts DEF NormalForm, Normal

\* The loop over the children leaves nothing that is to be removed: a child
\* with one child was not given a digest, and its only child was settled when
\* the call on it returned.
LEMMA SettledNormal ==
    ASSUME IndInv, HashInv, NormalForm, AllIdle, NEW n, Running(n), NEW b \in Branch,
           Settled(n, b) # NULL
    PROVE  ~Empty(Settled(n, b)) /\ ~Single(Settled(n, b))
<1>1. PICK c : c = child[n][b]
  OBVIOUS
<1>2. n \in live /\ TypeOK /\ TreeOK
  BY DEF Running, IndInv
<1>3. c # NULL /\ ~Empty(c)
  <2>1. Empty(c) => ~Single(c)
    BY DEF Empty, Single
  <2> QED BY <1>1, <2>1 DEF Settled
<1>4. c \in live /\ Returned(c) /\ len[n] < len[c]
  BY <1>1, <1>2, <1>3 DEF Running, Kids, TreeOK, EdgesDescend
<1>5. Normal(c)
  BY <1>4, AloneNormal
<1>6. CASE Single(c)
  <2>1. PICK e \in Branch : Kids(c) = {e} /\ OnlyChild(c) = child[c][e]
    BY <1>6 DEF Single, OnlyChild
  <2>2. Settled(n, b) = child[c][e]
    BY <2>1, <1>1, <1>3, <1>6 DEF Settled
  <2> QED BY <1>4, <1>5, <2>1, <2>2 DEF Normal
<1>7. CASE ~Single(c)
  <2>1. Settled(n, b) = c
    BY <1>1, <1>3, <1>7 DEF Settled
  <2> QED BY <1>3, <1>7, <2>1
<1> QED BY <1>6, <1>7

LEMMA HashMapNormal ==
    ASSUME IndInv, IndInv', HashInv, NormalForm, NEW n \in Addr, HashMap(n)
    PROVE  NormalForm'
<1>1. /\ AllIdle /\ n \in live /\ Running(n) /\ ~IsLeaf(n) /\ live \subseteq Addr
      /\ UNCHANGED <<pfx, len, val>> /\ child' = ChildrenAfter(n)
      /\ live' = live \ Dropped(n) /\ TypeOK /\ TreeOK /\ TreeOK' /\ ~valid[n]
  BY DEF HashMap, Running, Returned, IndInv, MemoryOK, TypeOK
<1>2. /\ \A x \in live : x # n => (valid'[x] <=> valid[x]) /\ (x \in done' => x \in done)
      /\ valid'[n] /\ len[n] # 0 =>
            \E a, b \in Branch : a # b /\ Settled(n, a) # NULL /\ Settled(n, b) # NULL
  <2> DEFINE kids == [b \in Branch |-> Settled(n, b)]
             keep == \/ len[n] = 0
                     \/ \E a, b \in Branch : a # b /\ kids[a] # NULL /\ kids[b] # NULL
  <2>1. keep \/ UNCHANGED valid
    BY DEF HashMap
  <2>2. /\ valid' = valid \/ valid' = [valid EXCEPT ![n] = TRUE]
        /\ done' = done \ Dropped(n) \/ done' = (done \ Dropped(n)) \cup {n}
    BY DEF HashMap
  <2>3. keep => len[n] = 0 \/ \E a, b \in Branch : a # b /\ Settled(n, a) # NULL /\ Settled(n, b) # NULL
    OBVIOUS
  <2> HIDE DEF keep
  <2> QED BY <1>1, <2>1, <2>2, <2>3 DEF TypeOK
<1>3. \A b \in Branch : child'[n][b] = Settled(n, b)
  BY <1>1 DEF ChildrenAfter
<1>4. \A x \in live' : x # n => Untouched(x)
  BY <1>1 DEF ChildrenAfter, Untouched
<1>5. ASSUME NEW x \in live' PROVE Normal(x)'
  <2>1. CASE x = n
    <3>1. ASSUME NEW b \in Kids(n)' PROVE ~Empty(child[n][b])' /\ ~Single(child[n][b])'
      <4>1. PICK s : s = Settled(n, b) /\ b \in Branch /\ s = child'[n][b] /\ s # NULL
        BY <1>3, <3>1 DEF Kids
      <4>2. ~Empty(s) /\ ~Single(s)
        BY <1>1, <4>1, SettledNormal
      <4>3. s \in live' /\ len'[n] < len'[s]
        BY <1>1, <2>1, <4>1 DEF TreeOK, EdgesDescend
      <4>4. s # n
        BY <1>1, <4>3 DEF TypeOK, PrefixLen
      <4>5. ~Empty(s)' /\ ~Single(s)'
        BY <1>4, <4>2, <4>3, <4>4, UntouchedFact
      <4> QED BY <4>1, <4>5 DEF Empty, Single, Kids, IsLeaf
    <3>2. ASSUME valid'[n], len'[n] # 0 PROVE ~Empty(n)' /\ ~Single(n)'
      <4>1. PICK a \in Branch, b \in Branch : a # b /\ Settled(n, a) # NULL /\ Settled(n, b) # NULL
        BY <1>1, <1>2, <3>2
      <4>2. a \in Kids(n)' /\ b \in Kids(n)'
        BY <1>3, <4>1 DEF Kids
      <4>3. ~IsLeaf(n)'
        BY <1>1 DEF IsLeaf
      <4> QED BY <4>1, <4>2, <4>3 DEF Empty, Single
    <3> QED BY <2>1, <3>1, <3>2 DEF Normal
  <2>2. CASE x # n
    <3>1. x \in live /\ Normal(x) /\ Untouched(x) /\ child'[x] = child[x]
      BY <1>1, <1>4, <2>2, AloneNormal DEF Untouched
    <3>2. CASE ~Returned(x)
      <4>1. ~Returned(x)' /\ ~valid'[x]
        BY <1>2, <2>2, <3>1, <3>2 DEF Returned
      <4> QED BY <4>1 DEF Normal
    <3>3. CASE Returned(x)
      <4>1. ASSUME NEW b \in Kids(x) PROVE Untouched(child[x][b])
        <5>1. PICK c : c = child[x][b] /\ b \in Branch /\ c # NULL
          BY DEF Kids
        <5>2. c \in live' /\ Above(x, c) /\ len[x] < len[c]
          BY <1>1, <3>1, <5>1 DEF TreeOK, EdgesDescend
        <5>3. c # n
          <6>1. ASSUME c = n PROVE FALSE
            <7>1. ~valid[x]
              BY <1>1, <3>1, <5>2, <6>1 DEF Running, Above
            <7>2. x \in done
              BY <3>3, <7>1 DEF Returned
            <7>3. valid[child[x][b]]
              BY <4>1, <7>2 DEF HashInv, ReturnsPending
            <7> QED BY <1>1, <5>1, <6>1, <7>3
          <6> QED BY <6>1
        <5> QED BY <1>4, <5>1, <5>2, <5>3
      <4>2. (Returned(x)' => Returned(x)) /\ (valid'[x] => valid[x])
        BY <1>2, <2>2, <3>1 DEF Returned
      <4> QED BY <3>1, <4>1, <4>2, NormalKept
    <3> QED BY <3>2, <3>3
  <2> QED BY <2>1, <2>2
<1> QED BY <1>5 DEF NormalForm, Normal

LEMMA DoGCNormal ==
    ASSUME IndInv, HashInv, NormalForm, DoGC
    PROVE  NormalForm'
<1>1. /\ AllIdle /\ Release(gc) /\ UNCHANGED <<live, done>>
      /\ TypeOK /\ TreeOK /\ gc \cap live = {} /\ live \subseteq Addr
  BY DEF DoGC, IndInv, MemoryOK, TypeOK
<1>2. \A x \in live : Untouched(x) /\ (valid'[x] <=> valid[x])
  BY <1>1 DEF Release, Untouched
<1>3. ASSUME NEW x \in live' PROVE Normal(x)'
  <2>1. x \in live /\ Normal(x)
    BY <1>1, AloneNormal
  <2>2. \A b \in Kids(x) : child[x][b] \in live
    BY <1>1, <2>1 DEF TreeOK, EdgesDescend, Kids
  <2> QED BY <1>1, <1>2, <2>1, <2>2, NormalKept DEF Returned
<1> QED BY <1>3 DEF NormalForm, Normal

LEMMA ClearNormal ==
    ASSUME IndInv, HashInv, Clear
    PROVE  NormalForm'
<1>1. /\ done' = {} /\ live' = {root'} /\ root' \in Addr /\ valid' = [a \in Addr |-> FALSE]
  BY FirstRoot DEF Clear, Release, HashInv, ReturnsPending
<1> QED BY <1>1 DEF NormalForm, Returned

LEMMA NextNormal ==
    ASSUME IndInv, IndInv', HashInv, HashInv', NormalForm, [Next]_vars
    PROVE  NormalForm'
<1>1. ASSUME NEW t \in Threads, Start(t) PROVE NormalForm'
  BY <1>1, StartNormal
<1>2. ASSUME NEW t \in Threads, Proceed(t) PROVE NormalForm'
  BY <1>2, RequestNormal, CallNormal, ValueNormal, SubPublishNormal, InsertPublishNormal,
     DeleteExchangeNormal DEF Proceed
<1>3. CASE HashStep
  BY <1>3, HashLeafNormal, HashMapNormal DEF HashStep
<1>4. CASE HashStart \/ UNCHANGED vars
  BY <1>4, HashStartNormal
<1>5. CASE DoGC
  BY <1>5, DoGCNormal
<1>6. CASE Clear
  BY <1>6, ClearNormal
<1> QED BY <1>1, <1>2, <1>3, <1>4, <1>5, <1>6 DEF Next

-----------------------------------------------------------------------------
(* The names of the nodes *)

\* What NodesNamed says of a node, and of a thread.
Named(n) == pfx[n] = Truncate(pfx[n], len[n]) /\ (IsLeaf(n) => pfx[n] \in Keys)
GoalNamed(t) ==
    /\ pc[t] \in Requesting => /\ qk[t] = Truncate(qk[t], ql[t])
                               /\ ql[t] = KeyLen => qk[t] \in Keys
    /\ Inside(t) => key[t] \in Keys

LEMMA NamedParts ==
    NodesNamed <=> /\ \A n \in live : Named(n)
                   /\ \A t \in Threads : GoalNamed(t)
BY DEF NodesNamed, Named, GoalNamed

LEMMA NamedKept ==
    ASSUME NodesNamed, NEW t \in Threads,
           \A n \in live' : n \in live \/ Named(n)',
           \A n \in live' \cap live : pfx'[n] = pfx[n] /\ len'[n] = len[n],
           \A u \in Threads \ {t} : SameLocals(u),
           GoalNamed(t)'
    PROVE  NodesNamed'
<1>1. ASSUME NEW n \in live' PROVE Named(n)'
  <2>1. CASE n \in live
    BY <2>1 DEF NodesNamed, Named, Truncate, IsLeaf
  <2> QED BY <2>1
<1>2. ASSUME NEW u \in Threads PROVE GoalNamed(u)'
  <2>1. CASE u # t
    <3>1. GoalNamed(u) /\ SameLocals(u)
      BY <2>1, NamedParts
    <3> QED BY <3>1 DEF GoalNamed, SameLocals, Inside, Truncate
  <2> QED BY <2>1
<1> QED BY <1>1, <1>2 DEF NodesNamed, Named, GoalNamed

LEMMA TruncateTwice ==
    ASSUME NEW k, NEW l
    PROVE  Truncate(Truncate(k, l), l) = Truncate(k, l)
BY DEF Truncate

LEMMA StartNamed ==
    ASSUME IndInv, NodesNamed, NEW t \in Threads, Start(t)
    PROVE  NodesNamed'
<1>1. /\ TypeOK /\ UNCHANGED <<live, pfx, len>>
  BY DEF Start, GetSubnode, StartInsert, StartDelete, StartGet, Finish, Call, tree, IndInv
<1>2. \A u \in Threads \ {t} : SameLocals(u)
  BY <1>1 DEF Start, GetSubnode, StartInsert, StartDelete, StartGet, Finish, Call, SameLocals, TypeOK
<1>3. GoalNamed(t)'
  <2>1. CASE \E k \in Keys, l \in SubnodeLens : GetSubnode(t, k, l)
    <3>1. PICK k \in Keys, l \in SubnodeLens : GetSubnode(t, k, l)
      BY <2>1
    <3>2. pc'[t] = "sub" /\ qk'[t] = Truncate(k, l) /\ ql'[t] = l
      BY <1>1, <3>1 DEF GetSubnode, TypeOK
    <3>3. l = KeyLen => qk'[t] = k
      BY <3>2, KeysAssumption, FullTruncate
    <3>4. Truncate(qk'[t], ql'[t]) = qk'[t]
      BY <3>2, TruncateTwice
    <3> QED BY <3>2, <3>3, <3>4 DEF GoalNamed, Inside, Truncate
  <2>2. CASE \E k \in Keys : \/ \E v \in Value : StartInsert(t, k, v)
                             \/ StartDelete(t, k) \/ StartGet(t, k)
    <3>1. PICK k \in Keys : \/ \E v \in Value : StartInsert(t, k, v)
                            \/ StartDelete(t, k) \/ StartGet(t, k)
      BY <2>2
    <3>2. key'[t] = k /\ pc'[t] \in {"ins", "del", "get"}
      BY <1>1, <3>1 DEF StartInsert, StartDelete, StartGet, Call, TypeOK
    <3> QED BY <3>2 DEF GoalNamed, Requesting
  <2>3. CASE Finish(t)
    <3>1. pc'[t] = "idle"
      BY <1>1, <2>3 DEF Finish, TypeOK
    <3> QED BY <3>1 DEF GoalNamed, Requesting, Inside
  <2> QED BY <2>1, <2>2, <2>3 DEF Start
<1>4. \A n \in live' : n \in live
  BY <1>1
<1> QED BY <1>1, <1>2, <1>3, <1>4, NamedKept

\* A node that is published is named by the goal of the call.
LEMMA PublishNamed ==
    ASSUME IndInv, HashInv, NodesNamed, NEW t \in Threads,
           SubAttach(t) \/ SubSplit(t) \/ InsertAttach(t) \/ InsertSplit(t)
    PROVE  /\ \A n \in live' : n \in live \/ Named(n)'
           /\ \A n \in live' \cap live : pfx'[n] = pfx[n] /\ len'[n] = len[n]
<1>1. /\ TypeOK /\ CasPending(t) /\ Free # {} /\ (Inside(t) \/ pc[t] \in Requesting)
      /\ GoalNamed(t) /\ live \subseteq Addr
  BY NamedParts DEF SubAttach, SubSplit, InsertAttach, InsertSplit, CasPending, Inside, Requesting, IndInv, TypeOK
<1>2. Goal(t) \in Key /\ GoalLen(t) \in PrefixLen /\ cur[t] \in live
  BY <1>1, CurFacts
<1>3. ASSUME NEW a \in Free, NEW b, NEW p, NEW l, NEW kids, NEW v,
             Publish(cur[t], b, a, p, l, kids, v),
             p = Truncate(p, l), l = KeyLen => p \in Keys
      PROVE  /\ \A n \in live' : n \in live \/ Named(n)'
             /\ \A n \in live' \cap live : pfx'[n] = pfx[n] /\ len'[n] = len[n]
  <2>1. a \in Addr /\ a \notin live
    BY DEF Free
  <2>2. /\ live' = live \cup {a} /\ pfx'[a] = p /\ len'[a] = l
        /\ \A x \in Addr : x # a => pfx'[x] = pfx[x] /\ len'[x] = len[x]
    BY <1>1, <1>3, <2>1 DEF Publish, TypeOK
  <2>3. Named(a)'
    BY <1>3, <2>2 DEF Named, IsLeaf, Truncate
  <2> QED BY <1>1, <2>1, <2>2, <2>3
<1>4. CASE SubAttach(t)
  <2>1. pc[t] \in Requesting
    BY <1>4 DEF SubAttach, Requesting
  <2>2. qk[t] = Truncate(qk[t], ql[t]) /\ (ql[t] = KeyLen => qk[t] \in Keys) /\ qk[t] \in Key /\ ql[t] \in PrefixLen
    BY <1>1, <2>1 DEF GoalNamed, TypeOK
  <2>3. PICK a : a = Malloc(Free, qk[t], ql[t])
    OBVIOUS
  <2>4. a \in Free
    BY <1>1, <2>2, <2>3, MallocFree
  <2>5. Publish(cur[t], Slot(cur[t], qk[t]), a, qk[t], ql[t], NoChildren, NoValue)
    BY <1>4, <2>3 DEF SubAttach
  <2> QED BY <1>3, <2>2, <2>4, <2>5
<1>5. CASE InsertAttach(t)
  <2>1. Inside(t) /\ key[t] \in Keys /\ key[t] \in Key /\ KeyLen \in PrefixLen
    BY <1>1, <1>5, ZeroKeyType DEF InsertAttach, Inside, GoalNamed, TypeOK
  <2>2. PICK a : a = Malloc(Free, key[t], KeyLen)
    OBVIOUS
  <2>3. a \in Free
    BY <1>1, <2>1, <2>2, MallocFree
  <2>4. Publish(cur[t], Slot(cur[t], key[t]), a, key[t], KeyLen, NoChildren, arg[t])
    BY <1>5, <2>2 DEF InsertAttach
  <2>5. Truncate(key[t], KeyLen) = key[t]
    BY <2>1, FullTruncate
  <2> QED BY <1>3, <2>1, <2>3, <2>4, <2>5
<1>6. CASE SubSplit(t) \/ InsertSplit(t)
  <2>1. PublishSplit(cur[t], exp[t], Goal(t), GoalLen(t)) /\ exp[t] # NULL
    <3>1. CASE SubSplit(t)
      <4>1. pc[t] \in Requesting
        BY <3>1 DEF SubSplit, Requesting
      <4> QED BY <3>1, <4>1, RequestGoal DEF SubSplit
    <3>2. CASE InsertSplit(t)
      <4>1. Inside(t)
        BY <3>2 DEF InsertSplit, Inside
      <4> QED BY <3>2, <4>1, CallGoal DEF InsertSplit
    <3> QED BY <1>6, <3>1, <3>2
  <2>2. PICK a, j : a = SplitAddr(exp[t], Goal(t), GoalLen(t)) /\ j = JoinLen(exp[t], Goal(t), GoalLen(t))
    OBVIOUS
  <2>3. exp[t] \in Addr
    BY <1>1, <2>1 DEF TypeOK, Pointer
  <2>4. a \in Free /\ j \in PrefixLen
    BY <1>1, <1>2, <2>2, <2>3, SplitFacts
  <2>5. j < KeyLen
    BY <1>1, <2>1, <2>2, AssertsFollow DEF TrieAssertsHold, JoinLen
  <2>6. \E kids : Publish(cur[t], Slot(cur[t], Goal(t)), a, Truncate(Goal(t), j), j, kids, NoValue)
    BY <2>1, <2>2 DEF PublishSplit
  <2>7. j # KeyLen
    BY <2>4, <2>5, KeyLenAssumption DEF PrefixLen
  <2>8. Truncate(Goal(t), j) = Truncate(Truncate(Goal(t), j), j)
    BY TruncateTwice
  <2> QED BY <1>3, <2>4, <2>6, <2>7, <2>8
<1> QED BY <1>4, <1>5, <1>6

LEMMA ProceedNamed ==
    ASSUME IndInv, HashInv, NodesNamed, NEW t \in Threads, Proceed(t)
    PROVE  NodesNamed'
<1>0. TypeOK /\ GoalNamed(t)
  BY NamedParts DEF IndInv
<1>1. CASE \/ SubReturn(t) \/ SubLoad(t) \/ SubAttach(t) \/ SubSplit(t) \/ SubRetry(t)
           \/ InvalidateStep(t)
  <2>1. /\ pc[t] \in Requesting /\ UNCHANGED <<qk, ql>>
    BY <1>1 DEF SubReturn, SubLoad, SubAttach, SubSplit, SubRetry, InvalidateStep, GotSubnode, Requesting
  <2>2. pc'[t] \in Requesting \cup {"ready"}
    BY <1>0, <1>1 DEF SubReturn, SubLoad, SubAttach, SubSplit, SubRetry, InvalidateStep, GotSubnode, Observe, Requesting, TypeOK
  <2>3. \A u \in Threads \ {t} : SameLocals(u)
    BY <1>0, <1>1 DEF SubReturn, SubLoad, SubAttach, SubSplit, SubRetry, InvalidateStep, GotSubnode,
                      Observe, SameLocals, TypeOK
  <2>4. GoalNamed(t)'
    BY <1>0, <2>1, <2>2 DEF GoalNamed, Inside, Requesting, Truncate
  <2>5. CASE SubAttach(t) \/ SubSplit(t)
    BY <2>3, <2>4, <2>5, PublishNamed, NamedKept
  <2>6. CASE SubReturn(t) \/ SubLoad(t) \/ SubRetry(t) \/ InvalidateStep(t)
    <3>1. UNCHANGED <<live, pfx, len>>
      BY <2>6 DEF SubReturn, SubLoad, SubRetry, InvalidateStep, tree
    <3>2. \A n \in live' : n \in live
      BY <3>1
    <3> QED BY <2>3, <2>4, <3>1, <3>2, NamedKept
  <2> QED BY <1>1, <2>5, <2>6
<1>2. CASE \/ InsertMerge(t) \/ InsertFoundEmpty(t) \/ InsertEmplace(t)
           \/ InsertLoad(t) \/ InsertAttach(t) \/ InsertSplit(t) \/ InsertRetry(t)
           \/ DeleteReset(t) \/ DeleteLoad(t) \/ DeleteExchange(t)
           \/ GetLeaf(t) \/ GetLoad(t)
  <2>1. Inside(t) /\ key[t] \in Keys
    <3>1. Inside(t)
      BY <1>2 DEF InsertMerge, InsertFoundEmpty, InsertEmplace, InsertLoad, InsertAttach, InsertSplit,
                  InsertRetry, DeleteReset, DeleteLoad, DeleteExchange, GetLeaf, GetLoad, Inside
    <3> QED BY <1>0, <3>1 DEF GoalNamed
  <2>2. /\ \A u \in Threads \ {t} : SameLocals(u)
        /\ pc'[t] \notin Requesting
        /\ pc'[t] = "ready" \/ key'[t] = key[t]
    <3>1. CASE InsertMerge(t) \/ InsertEmplace(t) \/ InsertAttach(t) \/ DeleteReset(t) \/ DeleteExchange(t) \/ GetLeaf(t)
      BY <1>0, <3>1 DEF InsertMerge, InsertEmplace, InsertAttach, DeleteReset, DeleteExchange, GetLeaf,
                        Return, SameLocals, TypeOK, Requesting
    <3>2. CASE InsertFoundEmpty(t) \/ InsertLoad(t) \/ InsertSplit(t) \/ InsertRetry(t)
      BY <1>0, <3>2 DEF InsertFoundEmpty, InsertLoad, InsertSplit, InsertRetry, Observe,
                        SameLocals, TypeOK, Requesting
    <3>3. CASE DeleteLoad(t) \/ GetLoad(t)
      BY <1>0, <3>3 DEF DeleteLoad, GetLoad, Return, SameLocals, TypeOK, Requesting
    <3> QED BY <1>2, <3>1, <3>2, <3>3
  <2>3. GoalNamed(t)'
    BY <2>1, <2>2 DEF GoalNamed, Inside
  <2>4. CASE InsertAttach(t) \/ InsertSplit(t)
    BY <2>2, <2>3, <2>4, PublishNamed, NamedKept
  <2>5. CASE \/ InsertMerge(t) \/ InsertFoundEmpty(t) \/ InsertEmplace(t) \/ InsertLoad(t) \/ InsertRetry(t)
             \/ DeleteReset(t) \/ DeleteLoad(t) \/ DeleteExchange(t) \/ GetLeaf(t) \/ GetLoad(t)
    <3>1. live' \subseteq live /\ UNCHANGED <<pfx, len>>
      BY <2>5 DEF InsertMerge, InsertFoundEmpty, InsertEmplace, InsertLoad, InsertRetry, DeleteReset,
                  DeleteLoad, DeleteExchange, GetLeaf, GetLoad, tree
    <3> QED BY <2>2, <2>3, <3>1, NamedKept
  <2> QED BY <1>2, <2>4, <2>5
<1> QED BY <1>1, <1>2 DEF Proceed

LEMMA RootNamed ==
    ASSUME NEW n, pfx[n] = ZeroKey, len[n] = 0
    PROVE  Named(n)
<1>1. \A i \in 1 .. KeyLen : ~(i <= 0)
  BY KeyLenAssumption
<1>2. Truncate(ZeroKey, 0) = ZeroKey
  BY <1>1 DEF Truncate, ZeroKey
<1> QED BY <1>2, KeyLenAssumption DEF Named, IsLeaf

LEMMA RootNamedThen ==
    ASSUME NEW n, pfx'[n] = ZeroKey, len'[n] = 0
    PROVE  Named(n)'
<1>1. \A i \in 1 .. KeyLen : ~(i <= 0)
  BY KeyLenAssumption
<1>2. Truncate(ZeroKey, 0) = ZeroKey
  BY <1>1 DEF Truncate, ZeroKey
<1> QED BY <1>2, KeyLenAssumption DEF Named, IsLeaf, Truncate

LEMMA NextNamed ==
    ASSUME IndInv, HashInv, NodesNamed, [Next]_vars
    PROVE  NodesNamed'
<1>1. ASSUME NEW t \in Threads, Start(t) \/ Proceed(t) PROVE NodesNamed'
  BY <1>1, StartNamed, ProceedNamed
<1>2. CASE HashStart \/ HashStep \/ DoGC \/ UNCHANGED vars
  <2>1. live' \subseteq live /\ UNCHANGED threads /\ live \subseteq Addr /\ gc \cap live = {}
    BY <1>2 DEF HashStart, HashStep, HashLeaf, HashMap, DoGC, vars, tree, IndInv, TypeOK, MemoryOK
  <2>2. \A n \in live : pfx'[n] = pfx[n] /\ len'[n] = len[n]
    <3>1. CASE DoGC
      BY <2>1, <3>1 DEF DoGC, Release
    <3>2. CASE HashStart \/ HashStep \/ UNCHANGED vars
      BY <3>2 DEF HashStart, HashStep, HashLeaf, HashMap, vars, tree
    <3> QED BY <1>2, <3>1, <3>2
  <2>3. ASSUME NEW n \in live' PROVE Named(n)'
    BY <2>1, <2>2 DEF NodesNamed, Named, Truncate, IsLeaf
  <2>4. ASSUME NEW t \in Threads PROVE GoalNamed(t)'
    <3>1. GoalNamed(t)
      BY NamedParts
    <3> QED BY <2>1, <3>1 DEF GoalNamed, threads, Inside, Truncate
  <2> QED BY <2>3, <2>4 DEF NodesNamed, Named, GoalNamed
<1>3. CASE Clear
  <2>1. /\ live' = {root'} /\ pfx'[root'] = ZeroKey /\ len'[root'] = 0 /\ UNCHANGED threads /\ AllIdle
    BY <1>3, FirstRoot DEF Clear, Release
  <2>2. Named(root)'
    BY <2>1, RootNamedThen DEF Named, IsLeaf, Truncate
  <2>3. \A t \in Threads : GoalNamed(t)'
    BY <2>1 DEF AllIdle, threads, GoalNamed, Requesting, Inside
  <2>4. \A n \in live' : Named(n)'
    BY <2>1, <2>2 DEF Named, IsLeaf, Truncate
  <2> QED BY <2>3, <2>4 DEF NodesNamed, Named, GoalNamed
<1> QED BY <1>1, <1>2, <1>3 DEF Next

\* The normal form is kept: whatever could disturb it below a valid digest
\* invalidates the digest first, and compute_hash_and_normalize restores it
\* before it computes one.
THEOREM NormalInductive ==
    ASSUME "del" \in Ops => Disjoint
    PROVE  Spec => []NormalInv
<1>1. Init => NormalInv
  <2> SUFFICES ASSUME Init PROVE NormalForm /\ NodesNamed
    BY DEF NormalInv
  <2>1. /\ live = {root} /\ root \in Addr /\ pfx[root] = ZeroKey /\ len[root] = 0 /\ ~valid[root]
        /\ done = {} /\ \A t \in Threads : pc[t] = "idle"
    BY FirstRoot DEF Init
  <2>2. NormalForm
    BY <2>1 DEF NormalForm, Returned
  <2>3. Named(root) /\ \A t \in Threads : GoalNamed(t)
    BY <2>1, RootNamed DEF GoalNamed, Requesting, Inside
  <2> QED BY <2>1, <2>2, <2>3, NamedParts
<1>2. IndInv /\ IndInv' /\ HashInv /\ HashInv' /\ NormalInv /\ [Next]_vars => NormalInv'
  BY NextNormal, NextNamed DEF NormalInv
<1> QED BY <1>1, <1>2, Inductive, HashInductive, PTL DEF Spec

LEMMA TreeIsShape == TreeOK => TrieShape(live, pfx, len, child, NULL)
BY DEF TreeOK, EdgesDescend, PathsComplete, NoDuplicates, Above, Slot,
       TrieShape, ShapeEdges, ShapePaths, ShapeUnique

\* When the root has its digest and nobody works on the trie, every node has
\* the digest of what it holds.
LEMMA AllHashed ==
    ASSUME IndInv, HashInv, AllIdle, valid[root]
    PROVE  \A n \in live : valid[n] /\ hash[n] = DigestOf(n)
<1>1. TypeOK /\ TreeOK /\ root \in live /\ len[root] = 0 /\ live \subseteq Addr
  BY DEF IndInv, MemoryOK, TypeOK
<1>2. TrieShape(live, pfx, len, child, NULL) /\ NodesTyped(live, pfx, len)
  BY <1>1, TreeIsShape DEF NodesTyped, TypeOK
<1> DEFINE S == {i \in Nat : \E n \in live : len[n] = i /\ ~valid[n]}
<1>3. ASSUME NEW z \in live, ~valid[z] PROVE FALSE
  <2>1. len[z] \in Nat
    BY <1>1, KeyLenAssumption DEF TypeOK, PrefixLen
  <2>2. S \in SUBSET Nat /\ S # {}
    BY <1>3, <2>1
  <2>3. PICK i \in S : \A j \in S : i <= j
    BY <2>2, LeastNat
  <2>4. PICK n \in live : len[n] = i /\ ~valid[n]
    BY <2>3
  <2>5. IsPrefixOf(pfx[root], len[root], pfx[n], len[n]) /\ len[root] < len[n]
    <3>1. len[n] \in Nat
      BY <1>1, KeyLenAssumption DEF TypeOK, PrefixLen
    <3>2. IsPrefixOf(pfx[root], len[root], pfx[n], len[n])
      BY <1>1, <3>1 DEF IsPrefixOf
    <3>3. len[n] # 0
      <4>1. ASSUME len[n] = 0 PROVE FALSE
        <5>1. n = root
          BY <1>1, <1>2, <3>2, <4>1 DEF TrieShape, ShapeUnique
        <5> QED BY <5>1, <2>4
      <4> QED BY <4>1
    <3> QED BY <1>1, <3>1, <3>2, <3>3
  <2>6. PICK p \in live, b \in Branch : child[p][b] = n /\ n # NULL /\ len[p] < len[n]
    BY <1>1, <1>2, <2>5, ShapeHasParent
  <2>7. ~valid[p]
    BY <2>4, <2>6, AloneFresh DEF Fresh, Kids
  <2>8. len[p] \in Nat
    BY <1>1, KeyLenAssumption DEF TypeOK, PrefixLen
  <2>9. len[p] \in S
    BY <2>7, <2>8
  <2> HIDE DEF S
  <2>10. i <= len[p] /\ i \in Nat
    BY <2>2, <2>3, <2>9
  <2> QED BY <2>4, <2>6, <2>8, <2>10
<1>4. \A n \in live : valid[n]
  BY <1>3
<1> QED BY <1>4, AloneFresh DEF Fresh

LEMMA LeafView ==
    ASSUME TypeOK, TreeOK, NodesNamed, NEW n \in live, IsLeaf(n)
    PROVE  pfx[n] \in Keys /\ View[pfx[n]] = val[n]
<1>1. pfx[n] \in Keys /\ HasLeaf(pfx[n])
  BY DEF NodesNamed, HasLeaf
<1>2. ASSUME NEW m \in live, IsLeaf(m), pfx[m] = pfx[n] PROVE m = n
  <2>1. len[m] = KeyLen /\ len[n] = KeyLen
    BY <1>2 DEF IsLeaf
  <2>2. Above(m, n)
    BY <1>2, <2>1, KeyLenAssumption DEF Above, IsPrefixOf
  <2> QED BY <2>1, <2>2 DEF TreeOK, NoDuplicates
<1>3. PICK c : c = CHOOSE m \in live : IsLeaf(m) /\ pfx[m] = pfx[n]
  OBVIOUS
<1>4. c \in live /\ IsLeaf(c) /\ pfx[c] = pfx[n]
  BY <1>3
<1>5. c = n
  BY <1>2, <1>4
<1> QED BY <1>1, <1>3, <1>5 DEF View

LEMMA NoHashDistinct == Distinct(NoHash)
<1> SUFFICES ASSUME NEW p, NEW l, NEW d, NoHash = [pfx |-> p, len |-> l, body |-> d]
             PROVE  FALSE
  BY DEF Distinct
<1>1. DOMAIN [pfx |-> p, len |-> l, body |-> d] = {"pfx", "len", "body"}
  OBVIOUS
<1>2. DOMAIN NoHash = {"body"}
  BY DEF NoHash
<1>3. "pfx" \in DOMAIN NoHash
  BY <1>1
<1> QED BY <1>2, <1>3

\* After hash_and_normalize a node below the root holds what its digest was
\* computed from: a leaf a logical value, a map node at least two children.
LEMMA SettledNode ==
    ASSUME IndInv, HashInv, NormalInv, AllIdle, valid[root], NEW n \in live, n # root
    PROVE  /\ IsLeaf(n) => val[n] \in Logical
           /\ ~IsLeaf(n) => \E b, d \in Branch : b # d /\ child[n][b] # NULL /\ child[n][d] # NULL
           /\ hash[n] # NoHash
<1>1. TypeOK /\ TreeOK /\ root \in live /\ len[root] = 0 /\ live \subseteq Addr /\ valid[n] /\ hash[n] = DigestOf(n)
  BY AllHashed DEF IndInv, MemoryOK, TypeOK
<1>2. TrieShape(live, pfx, len, child, NULL) /\ NodesTyped(live, pfx, len)
  BY <1>1, TreeIsShape DEF NodesTyped, TypeOK
<1>3. IsPrefixOf(pfx[root], len[root], pfx[n], len[n]) /\ len[root] < len[n]
  <2>1. len[n] \in Nat
    BY <1>1, KeyLenAssumption DEF TypeOK, PrefixLen
  <2>2. IsPrefixOf(pfx[root], len[root], pfx[n], len[n])
    BY <1>1, <2>1 DEF IsPrefixOf
  <2>3. len[n] # 0
    BY <1>1, <1>2, <2>2 DEF TrieShape, ShapeUnique
  <2> QED BY <1>1, <2>1, <2>2, <2>3
<1>4. PICK p \in live, b \in Branch : child[p][b] = n /\ n # NULL /\ len[p] < len[n]
  BY <1>1, <1>2, <1>3, ShapeHasParent
<1>5. valid[p] /\ Normal(p)
  BY AllHashed, AloneNormal DEF NormalInv
<1>6. b \in Kids(p)
  BY <1>4 DEF Kids
<1>7. ~Empty(n) /\ ~Single(n)
  BY <1>4, <1>5, <1>6 DEF Normal, Returned
<1>8. ASSUME ~IsLeaf(n)
      PROVE  \E e, d \in Branch : e # d /\ child[n][e] # NULL /\ child[n][d] # NULL
  <2>1. PICK e \in Kids(n) : TRUE
    BY <1>7, <1>8 DEF Empty
  <2>2. Kids(n) # {e} /\ e \in Branch
    BY <1>7, <1>8, <2>1 DEF Single, Kids
  <2>3. PICK d \in Kids(n) : d # e
    BY <2>1, <2>2
  <2> QED BY <2>1, <2>3 DEF Kids
<1>9. IsLeaf(n) => val[n] \in Logical
  BY <1>7 DEF Empty
<1>10. hash[n] # NoHash
  BY <1>1, <1>9, NoHashDistinct DEF DigestOf, Digest, Distinct
<1> QED BY <1>8, <1>9, <1>10

\* The digest that hash_and_normalize returns depends only on the keys and
\* values in the trie: not on the history of inserts, deletes, subnode requests
\* and earlier hashes, nor on how the threads interleaved.
THEOREM RootHashExact ==
    ASSUME "del" \in Ops => Disjoint
    PROVE  Spec => []RootHashCanonical
<1>1. ASSUME IndInv, HashInv, NormalInv, AllIdle, valid[root]
      PROVE  hash[root] = CanonicalDigest(View, NoValue, NoHash)
  <2>1. TypeOK /\ TreeOK /\ root \in live /\ len[root] = 0 /\ live \subseteq Addr /\ NodesNamed
    BY <1>1 DEF IndInv, MemoryOK, TypeOK, NormalInv
  <2>2. TrieShape(live, pfx, len, child, NULL) /\ NodesTyped(live, pfx, len)
    BY <2>1, TreeIsShape DEF NodesTyped, TypeOK
  <2>3. PICK A : A = Active(View, NoValue)
    OBVIOUS
  <2>4. DOMAIN View = Keys /\ DOMAIN View \subseteq Key /\ Distinct(NoHash)
    BY KeysAssumption, NoHashDistinct DEF View
  <2>5. HasLeaves(live, pfx, len, A)
    <3>1. ASSUME NEW k \in A PROVE \E x \in live : pfx[x] = k /\ len[x] = KeyLen
      <4>1. k \in Keys /\ View[k] # NoValue
        BY <2>3, <2>4 DEF Active
      <4>2. HasLeaf(k)
        BY <4>1 DEF View
      <4> QED BY <4>2 DEF HasLeaf, IsLeaf
    <3> QED BY <3>1 DEF HasLeaves
  <2>6. \A n \in live : hash[n] = DigestOf(n)
    BY <1>1, AllHashed
  <2>7. \A n \in live : ~IsLeaf(n) => hash[n] = [pfx |-> pfx[n], len |-> len[n],
                                                 body |-> ChildHashes(child, NULL, hash, NoHash, n)]
    BY <2>6 DEF DigestOf, Digest, ChildHashes
  <2>8. PICK M : M = live \ {root}
    OBVIOUS
  <2>9. \A n \in live, b \in Branch : child[n][b] # NULL => child[n][b] \in M
    <3> SUFFICES ASSUME NEW n \in live, NEW b \in Branch, child[n][b] # NULL
                 PROVE  child[n][b] \in M
      OBVIOUS
    <3>1. PICK c : c = child[n][b]
      OBVIOUS
    <3>2. c \in live /\ len[n] < len[c]
      BY <2>2, <3>1 DEF TrieShape, ShapeEdges
    <3>3. len[n] \in Nat /\ len[n] >= 0
      BY <2>1, KeyLenAssumption DEF TypeOK, PrefixLen
    <3>4. c # root
      BY <2>1, <3>2, <3>3
    <3> QED BY <2>8, <3>1, <3>2, <3>4
  <2>10. ASSUME NEW n \in M
         PROVE  NodeHash(pfx, len, child, NULL, View, NoValue, NoHash, hash, n)
    <3>0. n \in live /\ n # root
      BY <2>8
    <3>1. CASE IsLeaf(n)
      <4>1. val[n] \in Logical /\ val[n] # NoValue
        BY <1>1, <3>0, <3>1, SettledNode, ValueAssumption
      <4>2. pfx[n] \in Keys /\ View[pfx[n]] = val[n] /\ len[n] = KeyLen
        BY <2>1, <3>0, <3>1, LeafView DEF IsLeaf
      <4>3. pfx[n] \in Active(View, NoValue)
        BY <2>4, <4>1, <4>2 DEF Active
      <4>4. hash[n] = [pfx |-> pfx[n], len |-> len[n], body |-> <<val[n]>>]
        BY <2>6, <3>0, <3>1, <4>1 DEF DigestOf, Digest
      <4> QED BY <4>2, <4>3, <4>4 DEF NodeHash
    <3>2. CASE ~IsLeaf(n)
      <4>1. PICK of : of = ChildHashes(child, NULL, hash, NoHash, n)
        OBVIOUS
      <4>2. hash[n] = [pfx |-> pfx[n], len |-> len[n], body |-> of]
        BY <2>7, <3>0, <3>2, <4>1
      <4>3. PICK b \in Branch, d \in Branch : b # d /\ child[n][b] # NULL /\ child[n][d] # NULL
        BY <1>1, <3>0, <3>2, SettledNode
      <4>4. \A e \in {b, d} : of[e] = hash[child[n][e]] /\ child[n][e] \in M
        BY <2>9, <3>0, <4>1, <4>3 DEF ChildHashes
      <4>5. of[b] # NoHash /\ of[d] # NoHash
        BY <1>1, <2>8, <4>4, SettledNode
      <4>6. Summary(pfx[n], len[n], of, NoHash, hash[n])
        BY <4>2, <4>3, <4>5 DEF Summary
      <4> QED BY <3>2, <4>1, <4>6 DEF NodeHash, IsLeaf
    <3> QED BY <3>1, <3>2
  <2>11. \A x \in live : pfx[x] = Truncate(pfx[x], len[x])
    BY <2>1 DEF NodesNamed
  <2>12. ASSUME NEW n \in M
         PROVE  hash[n] = Digests(View, NoValue, NoHash)[KeysUnder(Active(View, NoValue), pfx[n], len[n])]
    <3>1. M \in SUBSET live /\ \A x \in M : NodeHash(pfx, len, child, NULL, View, NoValue, NoHash, hash, x)
      BY <2>8, <2>10
    <3>2. \A x \in M, b \in Branch : child[x][b] # NULL => child[x][b] \in M
      BY <2>8, <2>9
    <3> QED BY <2>2, <2>3, <2>4, <2>5, <2>11, <3>1, <3>2, ShapeDigest
  <2>13. \A b \in Branch : child[root][b] # NULL =>
           hash[child[root][b]] = Digests(View, NoValue, NoHash)[KeysUnder(Active(View, NoValue),
                                        pfx[child[root][b]], len[child[root][b]])]
    BY <2>1, <2>9, <2>12
  <2>14. len[root] < KeyLen /\ ~IsLeaf(root)
    BY <2>1, KeyLenAssumption DEF IsLeaf
  <2>15. ChildHashes(child, NULL, hash, NoHash, root)
         = [b \in Branch |-> Digests(View, NoValue, NoHash)[Towards(KeysUnder(A, pfx[root], len[root]), len[root], b)]]
    BY <2>1, <2>2, <2>3, <2>4, <2>5, <2>13, <2>14, SlotDigests
  <2>16. KeysUnder(A, pfx[root], len[root]) = A
    BY <2>1, KeyLenAssumption DEF KeysUnder, IsPrefixOf
  <2>17. pfx[root] = [i \in 1 .. KeyLen |-> 0]
    <3>1. \A i \in 1 .. KeyLen : (IF i <= 0 THEN pfx[root][i] ELSE 0) = 0
      BY KeyLenAssumption
    <3>2. pfx[root] = [i \in 1 .. KeyLen |-> IF i <= 0 THEN pfx[root][i] ELSE 0]
      BY <2>1, <2>11 DEF Truncate
    <3>3. [i \in 1 .. KeyLen |-> IF i <= 0 THEN pfx[root][i] ELSE 0] = [i \in 1 .. KeyLen |-> 0]
      BY <3>1
    <3> QED BY <3>2, <3>3
  <2>18. hash[root] = [pfx |-> [i \in 1 .. KeyLen |-> 0], len |-> 0,
                       body |-> [b \in Branch |-> Digests(View, NoValue, NoHash)[Towards(A, 0, b)]]]
    <3>1. hash[root] = [pfx |-> pfx[root], len |-> len[root],
                        body |-> ChildHashes(child, NULL, hash, NoHash, root)]
      BY <2>1, <2>7, <2>14
    <3> QED BY <2>1, <2>15, <2>16, <2>17, <3>1
  <2> QED BY <2>3, <2>18 DEF CanonicalDigest
<1>2. IndInv /\ HashInv /\ NormalInv => RootHashCanonical
  BY <1>1 DEF RootHashCanonical
<1> QED BY <1>2, Inductive, HashInductive, NormalInductive, PTL

\* What hash_and_normalize returns commits to the contents: it is the digest of
\* a given map exactly when the trie holds that map, whatever calls made it.
THEOREM HashCommits ==
    ASSUME "del" \in Ops => Disjoint,
           NEW CONSTANT kv \in [Keys -> Value \cup {NoValue}]
    PROVE  Spec => [](phase = "batch" /\ AllIdle /\ valid[root] =>
                      (hash[root] = CanonicalDigest(kv, NoValue, NoHash) <=> View = kv))
<1>1. RootHashCanonical
        => (phase = "batch" /\ AllIdle /\ valid[root] =>
              (hash[root] = CanonicalDigest(kv, NoValue, NoHash) <=> View = kv))
  <2> SUFFICES ASSUME hash[root] = CanonicalDigest(View, NoValue, NoHash)
               PROVE  hash[root] = CanonicalDigest(kv, NoValue, NoHash) <=> View = kv
    BY DEF RootHashCanonical
  <2>1. PICK w : w = View
    OBVIOUS
  <2>2. DOMAIN w = Keys /\ w = [k \in Keys |-> w[k]] /\ DOMAIN w \subseteq Key
    BY <2>1, KeysAssumption DEF View
  <2>3. ASSUME CanonicalDigest(w, NoValue, NoHash) = CanonicalDigest(kv, NoValue, NoHash)
        PROVE  w = kv
    <3>1. \A k \in DOMAIN w : w[k] = kv[k]
      BY <2>2, <2>3, NoHashDistinct, DigestCommits
    <3> QED BY <2>2, <3>1
  <2> QED BY <2>1, <2>3
<1> QED BY <1>1, RootHashExact, PTL

=============================================================================
