-------------------------- MODULE MerkleBatchMerge --------------------------
(***************************************************************************)
(* MerkleTrie::batch_merge_in: a batch of tries is merged into the main    *)
(* trie by a TBB reduction over a BatchMergeRange                          *)
(* (include/mtt/trie/ranges.h).                                            *)
(*                                                                         *)
(* A range maps nodes of the main trie, its entry points, to the tries that *)
(* are merged there.  When it is split, the new range takes entry points,  *)
(* or takes children of an entry point as its own entry points and steals  *)
(* from the tries what belongs below them.  Ranges are executed while      *)
(* others are still split.                                                 *)
(*                                                                         *)
(* What is atomic: _merge_in at an entry point keeps this node locked, a   *)
(* split and propagate_metadata lock nodes downwards, each before the one  *)
(* above it is released.                                                   *)
(***************************************************************************)
EXTENDS MerkleTrieNode, TrieDigest

CONSTANTS Mains,      \* what the main trie may contain, as sets of keys
          Batches,    \* what the tries of the batch may contain, as sequences
                      \* of sets of keys
          Divisible,  \* the 100 of is_divisible
          Slack,      \* the 10 of the splitting constructor
          Modulus,    \* num_children is a uint64_t
          MaxRanges   \* how many ranges there are at most

ASSUME BatchAssumption == Divisible \in Nat /\ Slack \in Nat /\ Modulus \in Nat \ {0} /\ MaxRanges \in Nat

VARIABLES main,    \* the root of the main trie
          cache,   \* hash_valid and root_hash of the main trie
          ranges,  \* the sequence of ranges
          batch,   \* what was to be merged: the main trie and the tries, and
                   \* whether the main trie's hash was cached then
          parted,  \* the keys whose tries have come to wait in different places
          ids,     \* how many nodes have been pointed to
          failed   \* an exception was thrown

vars == <<main, cache, ranges, batch, parted, ids, failed>>

\* The trie with the offers of the i-th member of the batch.
Filled(K, i) == FoldSet(LAMBDA k, x : insert_(x, k, Offer(i, i), FALSE).node, make_empty_node, K)

\* executing: the entry point whose tries are merged (0 before), and the
\* metadata that were merged there.
Range_(entry_points, banned, num) ==
    [entry_points |-> entry_points, banned_branches |-> banned, num_children |-> num,
     executing |-> 0, started |-> FALSE, metadata |-> Zero]

NoEntries == [e \in {} |-> << >>]
Add(f, e, w) == [d \in DOMAIN f \cup {e} |-> IF d = e THEN w ELSE f[d]]
Drop(f, e)   == [d \in DOMAIN f \ {e} |-> f[d]]

empty(r) == DOMAIN r.entry_points = {}
is_divisible(r) == r.num_children >= Divisible /\ ~ empty(r)

-----------------------------------------------------------------------------
(* Nodes are found by their ids: entry points and banned branches *)

NodeOf(x, id) == CHOOSE n \in NodesOf(x) : n.id = id

\* The nodes of x above the node id, and this node.
RECURSIVE PathTo(_, _)
PathTo(x, id) == IF x.id = id THEN <<x>>
                 ELSE <<x>> \o PathTo(x.kids[CHOOSE b \in DOMAIN x.kids :
                                              \E n \in NodesOf(x.kids[b]) : n.id = id], id)

\* The child of the node (p, len) with digit b is pointed to.
RECURSIVE PointTo(_, _, _, _, _)
PointTo(x, p, len, b, id) ==
    LET d == BranchBits(p, x.len)
    IN  IF x.len = len THEN emplace(x, b, [x.kids[b] EXCEPT !.id = id])
        ELSE emplace(x, d, PointTo(x.kids[d], p, len, b, id))

\* _merge_in at the node id: "delta" is what it returns.
RECURSIVE MergeAt(_, _, _)
MergeAt(x, id, o) ==
    LET b == CHOOSE d \in DOMAIN x.kids : \E n \in NodesOf(x.kids[d]) : n.id = id
        r == MergeAt(x.kids[b], id, o)
    IN  IF x.id = id THEN merge_in_(x, o) ELSE Inserted(emplace(x, b, r.node), r.delta)

\* Mutant: the hash stays.
Passed_HashStays(x, d) == update_metadata(x, d)
Passed(x, d) == update_metadata(invalidate_hash(x), d)

\* propagate_metadata: the nodes above the target on the way to its prefix.
RECURSIVE propagate_metadata(_, _, _)
propagate_metadata(x, target, d) ==
    LET b == get_branch_bits(x, target.pfx)
    IN  IF x.id = target.id THEN invalidate_hash(x)
        ELSE emplace(Passed(x, d), b, propagate_metadata(x.kids[b], target, d))

\* It throws when there is no way.
RECURSIVE propagate_throws(_, _)
propagate_throws(x, target) ==
    LET b == get_branch_bits(x, target.pfx)
    IN  x.id # target.id
        /\ (is_leaf(x) \/ b \notin DOMAIN x.kids \/ propagate_throws(x.kids[b], target))

-----------------------------------------------------------------------------
(* destructive_steal_child: "whole" when all of x is to be stolen, "out"   *)
(* what was stolen below x.                                                *)

Stolen(x, whole, d, out) == [node |-> x, whole |-> whole, delta |-> d, out |-> out]

\* Mutant: the child stays.
TakeOut_Stays(x, b, d) == update_metadata(x, Negated(d))

\* The child with digit b is stolen.
TakeOut(x, b, d) == update_metadata(erase(x, b), Negated(d))

RECURSIVE destructive_steal_child(_, _, _)
destructive_steal_child(x, p, len) ==
    LET m == MatchLen(x.pfx, x.len, p, len)
        b == get_branch_bits(x, p)
        r == destructive_steal_child(x.kids[b], p, len)
    IN  CASE m = len -> Stolen(x, TRUE, x.meta, Null)
          [] m < len /\ (m < x.len \/ b \notin DOMAIN x.kids) -> Stolen(x, FALSE, Zero, Null)
          [] OTHER ->
               IF r.whole THEN Stolen(TakeOut(x, b, r.delta), FALSE, r.delta, r.node)
               ELSE IF r.out = Null THEN Stolen(x, FALSE, Zero, Null)
               ELSE Stolen(update_metadata(emplace(x, b, r.node), Negated(r.delta)), FALSE, r.delta, r.out)

-----------------------------------------------------------------------------
(* The splitting constructor, on a pair of ranges: s.other is split, s.new *)
(* is constructed; s.main has the ids that they use.                       *)

\* Whole entry points, in whatever order the unordered map has them.
RECURSIVE TakeEntries(_, _)
TakeEntries(s, half) ==
    IF s.new.num_children >= half \/ Cardinality(DOMAIN s.other.entry_points) <= 1 THEN {s}
    ELSE UNION {LET n == NodeOf(s.main, e).meta.size
                IN  TakeEntries([s EXCEPT
                        !.new.entry_points = Add(@, e, s.other.entry_points[e]),
                        !.new.num_children = @ + n,
                        !.other.entry_points = Drop(@, e),
                        !.other.num_children = (@ - n) % Modulus], half)
                : e \in DOMAIN s.other.entry_points}

\* What the children of theft_root with digit b begin with.
StealPrefix(theft_root, b) == [theft_root.pfx EXCEPT ![theft_root.len + 1] = b]

\* The child of theft_root with digit b becomes an entry point, and what
\* belongs below it is stolen from the tries that are merged at e.
Steal(s, theft_root, e, b) ==
    LET candidate == theft_root.kids[b]
        id == IF candidate.id = 0 THEN s.ids + 1 ELSE candidate.id
        w  == s.other.entry_points[e]
        steal_prefix == StealPrefix(theft_root, b)
        r == [i \in DOMAIN w |-> destructive_steal_child(w[i], steal_prefix, theft_root.len + 1)]
        stolen == SelectSeq([i \in DOMAIN w |-> r[i].out], LAMBDA o : o # Null)
        size == candidate.meta.size
    IN  [s EXCEPT !.main = PointTo(@, theft_root.pfx, theft_root.len, b, id),
                  !.ids  = IF candidate.id = 0 THEN id ELSE @,
                  !.new  = IF stolen = << >> THEN @
                           ELSE [@ EXCEPT !.entry_points = Add(@, id, stolen), !.num_children = @ + size],
                  !.other = [@ EXCEPT !.banned_branches = @ \cup {id},
                                      !.entry_points[e] = [i \in DOMAIN w |-> r[i].node],
                                      !.num_children = (@ - size) % Modulus]]

Spare(stealable) == Len(stealable) > 1

\* While the new range has less, the last of the stealable children is stolen;
\* the one that is left becomes the next theft_root.
RECURSIVE StealLoop(_, _, _, _)
StealLoop(s, theft_root, e, stealable) ==
    LET next == IF stealable = << >> THEN theft_root ELSE theft_root.kids[stealable[1]]
        now  == CHOOSE n \in NodesOf(s.main) : n.pfx = next.pfx /\ n.len = next.len
        open == SelectSeq(DigitsOf(now), LAMBDA b : now.kids[b].id \notin s.other.banned_branches)
    IN  IF s.new.num_children + Slack >= s.other.num_children THEN s
        ELSE IF Spare(stealable)
        THEN StealLoop(Steal(s, theft_root, e, Last(stealable)), theft_root, e, Front(stealable))
        ELSE IF is_leaf(next) THEN s
        ELSE IF open = << >> THEN [s EXCEPT !.throws = TRUE]
        ELSE StealLoop(s, now, e, open)

\* All results that splitting the range r may have.
Splits(r) ==
    LET half == r.num_children \div 2
        s0 == [new |-> Range_(NoEntries, r.banned_branches, 0), other |-> r,
               main |-> main, ids |-> ids, throws |-> FALSE]
        theft(s) == CHOOSE e \in DOMAIN s.other.entry_points : TRUE
    IN  {IF s.new.num_children >= half THEN s
         ELSE StealLoop(s, NodeOf(main, theft(s)), theft(s), << >>) : s \in TakeEntries(s0, half)}

-----------------------------------------------------------------------------
\* The pieces that wait to be merged in the ranges R: range, entry point and
\* trie.
PendingIn(R) ==
    UNION {UNION {{[range |-> i, entry |-> e, index |-> j, trie |-> R[i].entry_points[e][j]] :
                      j \in DOMAIN R[i].entry_points[e]} :
                  e \in DOMAIN R[i].entry_points} : i \in DOMAIN R}

\* The keys that wait at more than one entry point.
PartedIn(R) ==
    LET at(q) == {l.pfx : l \in ToSet(Leaves(q.trie))}
    IN  UNION {at(q) \cap at(r) : <<q, r>> \in
                  {<<q, r>> \in PendingIn(R) \X PendingIn(R) : q.entry # r.entry}}

\* The nodes of the main trie have been hashed; the trie has been, or has
\* taken over the nodes of another one.
Init == \E K \in Mains, w \in Batches, hashed \in BOOLEAN :
            /\ batch = [main |-> K, tries |-> w, hashed |-> hashed]
            /\ main = [compute_hash(Filled(K, 0)) EXCEPT !.id = 1]
            /\ cache = [hash_valid |-> hashed, root_hash |-> IF hashed THEN get_root_hash(main) ELSE NoHash]
            /\ ranges = <<Range_([e \in {1} |-> [i \in DOMAIN w |-> Filled(w[i], i)]], {}, Cardinality(K))>>
            /\ parted = {} /\ ids = 1 /\ failed = FALSE

SplitRange(i) ==
    /\ ~ failed /\ ~ ranges[i].started /\ is_divisible(ranges[i])
    /\ Len(ranges) < MaxRanges
    /\ \E s \in Splits(ranges[i]) :
          /\ main' = s.main /\ ids' = s.ids /\ failed' = s.throws
          /\ ranges' = Append([ranges EXCEPT ![i] = s.other], s.new)
    /\ parted' = parted \cup PartedIn(ranges')
    /\ UNCHANGED <<cache, batch>>

\* execute: the next trie of the entry point e, which is left alone when
\* everything was stolen from it.
Merge(i, e) ==
    LET r == ranges[i]
        o == Head(r.entry_points[e])
        m == IF o.meta.size = 0 THEN Inserted(main, Zero) ELSE MergeAt(main, e, o)
    IN  /\ ~ failed /\ r.executing \in {0, e}
        /\ r.entry_points[e] # << >>
        /\ main' = m.node
        /\ ranges' = [ranges EXCEPT ![i].executing = e, ![i].started = TRUE,
                                    ![i].entry_points[e] = Tail(@),
                                    ![i].metadata = Plus(@, m.delta)]
        /\ UNCHANGED <<cache, batch, parted, ids, failed>>

\* execute: when the tries of an entry point are merged.
Propagate(i) ==
    LET r == ranges[i]
        target == NodeOf(main, r.executing)
        throws == propagate_throws(main, target)
    IN  /\ ~ failed /\ r.executing # 0
        /\ r.entry_points[r.executing] = << >>
        /\ failed' = throws
        /\ main' = IF throws THEN main ELSE propagate_metadata(main, target, r.metadata)
        /\ ranges' = [ranges EXCEPT ![i].executing = 0, ![i].metadata = Zero,
                                    ![i].entry_points = Drop(@, r.executing)]
        /\ UNCHANGED <<cache, batch, parted, ids>>

Done == \A i \in DOMAIN ranges : empty(ranges[i])

\* hash, after the merge: a hash that is valid is returned as it is.  Neither
\* batch_merge_in nor the reduction has invalidated it.
Hash == /\ Done /\ ~ failed /\ ~ cache.hash_valid
        /\ main' = compute_hash(main)
        /\ cache' = [hash_valid |-> TRUE, root_hash |-> get_root_hash(main')]
        /\ UNCHANGED <<ranges, batch, parted, ids, failed>>

Next == \/ \E i \in DOMAIN ranges :
               \/ SplitRange(i)
               \/ \E e \in DOMAIN ranges[i].entry_points : Merge(i, e)
               \/ Propagate(i)
        \/ Hash

Spec == Init /\ [][Next]_vars

-----------------------------------------------------------------------------
Pending == PendingIn(ranges)

\* Entry points and banned branches are nodes of the main trie, one for each
\* id; leaves have values.
TypeOK ==
    /\ failed \in BOOLEAN /\ ids \in Nat
    /\ \A i \in DOMAIN ranges :
          /\ ranges[i].banned_branches \cup DOMAIN ranges[i].entry_points \subseteq 1 .. ids
          /\ ranges[i].num_children \in 0 .. (Modulus - 1)
    /\ \A d \in 1 .. ids : Cardinality({n \in NodesOf(main) : n.id = d}) = 1
    /\ \A n \in NodesOf(main) : is_leaf(n) <=> n.value # NoValue

\* "tried to steal from completely banned node" and "can't propagate metadata
\* to nonexistent node" are not thrown, however ranges are split and executed.
NothingThrown == ~ failed

\* Every offer of the batch waits in at most one place, and when it waits
\* nowhere, its key is in the main trie.
NothingLost ==
    \A i \in DOMAIN batch.tries : \A k \in batch.tries[i] :
        LET at == {q \in Pending : \E l \in ToSet(Leaves(q.trie)) : l.pfx = k /\ l.value.data = i}
        IN  /\ Cardinality(at) <= 1
            /\ at = {} => contains_key(main, k)

\* The invariant of the comment in ranges.h: what waits at an entry point
\* extends the prefix of the node above it, with the same digit as the entry
\* point.
MergesAgree ==
    \A q \in Pending :
        LET path == PathTo(main, q.entry)
            above == path[Len(path) - 1]
        IN  (Len(path) > 1 /\ q.trie.meta.size > 0) =>
                /\ IsPrefixOf(above.pfx, above.len, q.trie.pfx, q.trie.len - 1)
                /\ BranchBits(q.trie.pfx, above.len) = BranchBits(Last(path).pfx, above.len)

\* The metadata of every node are those of the leaves below it, but for what
\* ranges have merged further down and not propagated yet.
MetadataAccounted ==
    \A x \in NodesOf(main) :
        LET below(i) == ranges[i].executing # 0 /\ x.id # ranges[i].executing
                        /\ \E n \in NodesOf(x) : n.id = ranges[i].executing
            due == {i \in DOMAIN ranges : below(i)}
            ls  == ToSet(Leaves(x))
        IN  \A f \in {"size", "endow"} :
              x.meta[f] + MapThenSumSet(LAMBDA i : ranges[i].metadata[f], due)
                  = MapThenSumSet(LAMBDA l : new_metadata(l.value, FALSE)[f], ls)

\* At every moment each inner node of the main trie has at least two children,
\* which extend its prefix by their digits, although what was stolen from has
\* nodes with fewer children.
Compressed ==
    \A x \in NodesOf(main) :
        /\ is_leaf(x) \/ Cardinality(DOMAIN x.kids) >= 2
        /\ \A b \in DOMAIN x.kids :
              /\ IsPrefixOf(x.pfx, x.len, x.kids[b].pfx, x.kids[b].len - 1)
              /\ BranchBits(x.kids[b].pfx, x.len) = b

\* In the end the main trie is as sequential merge_in calls would have left it,
\* in the order of the batch (ranges.h:223-226): it has the keys of all tries,
\* each with the value of the last trie that has the key.  The exception is a
\* key whose tries a split has separated, because destructive_steal_child
\* steals only from below the root of a trie and leaves one that lies wholly
\* below the child where it is: any of these tries may win.
\* No hash of a node that was valid before is stale, and hash of the trie is
\* the digest of what it contains, unless it was valid before the merge:
\* batch_merge_in leaves hash_valid as it is (merkle_trie.h:1987-2002), and
\* hash then returns the old root_hash (1953).
MergedExactly ==
    Done =>
        LET ls == ToSet(Leaves(main))
            K  == {l.pfx : l \in ls}
            having(k) == {i \in DOMAIN batch.tries : k \in batch.tries[i]}
            canonical == [count |-> Cardinality(K),
                          hash |-> Digests([k \in K |-> get_value(main, k)], NoValue, NoHash)[K]]
        IN  /\ K = batch.main \cup UNION ToSet(batch.tries)
            /\ Cardinality(ls) = Cardinality(K)
            /\ \A l \in ls : IF l.pfx \in parted THEN l.value.data \in having(l.pfx)
                             ELSE l.value.data = Max(having(l.pfx) \cup {0})
            /\ get_root_hash(compute_hash(main)) = canonical
            /\ (cache.hash_valid /\ ~ batch.hashed) => cache.root_hash = canonical

\* While ranges split, steal from each other and merge: each offer is in one
\* place, which fits its prefix, the main trie stays compressed, its metadata
\* are exact but for what is due, and nothing is thrown.
BatchAccounted ==
    TypeOK /\ NothingThrown /\ NothingLost /\ MergesAgree /\ Compressed /\ MetadataAccounted
=============================================================================
