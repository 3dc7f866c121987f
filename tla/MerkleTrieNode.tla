--------------------------- MODULE MerkleTrieNode ---------------------------
(***************************************************************************)
(* The nodes of the Merkle trie with metadata                              *)
(* (include/mtt/trie/merkle_trie.h, class TrieNode).                       *)
(*                                                                         *)
(* Children are owned by their parent, so a node is a value that has its   *)
(* children in it.  What a method of the code does to the node it is       *)
(* called on and what it returns are the fields of the record that the     *)
(* operator of the same name returns: "node" is the node afterwards,       *)
(* "delta" the change of its metadata that is reported to the parent.      *)
(***************************************************************************)
EXTENDS TriePrefix, Sequences, FiniteSets, SequencesExt, FiniteSetsExt

CONSTANTS NoValue,  \* the value of a node that is not a leaf
          NoHash,   \* a hash that was not computed
          Null      \* nullptr

ASSUME ValueAssumption == NoValue # NoHash

ZeroKey == [i \in 1 .. KeyLen |-> 0]

\* operator< of the prefixes: the digits in order.
Less(p, q) ==
    p # q /\ BranchBits(p, FirstDifference(p, q)) < BranchBits(q, FirstDifference(p, q))

-----------------------------------------------------------------------------
(* Metadata: CombinedMetadata<SizeMixin, DeletableMixin, RollbackMixin> and *)
(* the endowment of the offers.                                            *)

MetaFields == {"size", "deleted", "rollback", "endow"}
Metadata   == [MetaFields -> Int]
Zero       == [f \in MetaFields |-> 0]
Plus(m, n)  == [f \in MetaFields |-> m[f] + n[f]]
Minus(m, n) == [f \in MetaFields |-> m[f] - n[f]]
Negated(m)  == Minus(Zero, m)

\* An offer: data stands for what is not in the metadata.
Offer(e, d) == [endow |-> e, data |-> d]

\* new_metadata of OverwriteInsertFn and of RollbackInsertFn.
new_metadata(v, rollback) ==
    [size |-> 1, deleted |-> 0, rollback |-> IF rollback THEN 1 ELSE 0, endow |-> v.endow]

-----------------------------------------------------------------------------
(* Nodes *)

NoKids == [b \in {} |-> Null]

\* The id stands for the address of a node that a range points to.
TrieNode(p, len, kids, value, meta) ==
    [id |-> 0, pfx |-> p, len |-> len, kids |-> kids, value |-> value, meta |-> meta,
     valid |-> FALSE, hash |-> NoHash]

make_empty_node == TrieNode(ZeroKey, 0, NoKids, NoValue, Zero)
make_value_leaf(k, v, rollback) == TrieNode(k, KeyLen, NoKids, v, new_metadata(v, rollback))

move_contents_to_new_node(x) == TrieNode(x.pfx, x.len, x.kids, x.value, x.meta)

is_leaf(x)  == x.len = KeyLen
is_empty(x) == x.len = 0 /\ DOMAIN x.kids = {}
invalidate_hash(x)  == [x EXCEPT !.valid = FALSE]
update_metadata(x, d) == [x EXCEPT !.meta = Plus(@, d)]
get_prefix_match_len(x, k) == MatchLen(x.pfx, x.len, k, KeyLen)
get_branch_bits(x, k) == BranchBits(k, x.len)

\* FixedChildrenMap: a child replaces the one that has its digit.
emplace(x, b, c) ==
    [x EXCEPT !.kids = [d \in DOMAIN x.kids \cup {b} |-> IF d = b THEN c ELSE x.kids[d]]]
erase(x, b) == [x EXCEPT !.kids = [d \in DOMAIN x.kids \ {b} |-> x.kids[d]]]

single_child(x) == Cardinality(DOMAIN x.kids) = 1
get_single_child(x) == x.kids[CHOOSE b \in DOMAIN x.kids : TRUE]

\* A node with one child is replaced by this child.
Contracted(x) == IF single_child(x) THEN get_single_child(x) ELSE x

\* children_list: the children in the order of their digits.
Digits == SetToSortSeq(Branch, <)
DigitsOf(x) == SelectSeq(Digits, LAMBDA b : b \in DOMAIN x.kids)
children_list(x) == [i \in DOMAIN DigitsOf(x) |-> x.kids[DigitsOf(x)[i]]]

\* The sum of what M gives for the digits in S.
MetaSum(M(_), S) == [f \in MetaFields |-> MapThenSumSet(LAMBDA b : M(b)[f], S)]

\* compute_metadata_unsafe, for a node that is not a leaf.
compute_metadata_unsafe(x) ==
    [x EXCEPT !.meta = MetaSum(LAMBDA b : x.kids[b].meta, DOMAIN x.kids)]

-----------------------------------------------------------------------------
(* Insertion *)

\* What _insert throws on its way to a key.
RECURSIVE insert_throws(_, _)
insert_throws(x, k) ==
    \/ single_child(x)
    \/ DOMAIN x.kids = {} /\ x.len \notin {0, KeyLen}
    \/ /\ ~ is_leaf(x) /\ get_prefix_match_len(x, k) = x.len
       /\ get_branch_bits(x, k) \in DOMAIN x.kids
       /\ insert_throws(x.kids[get_branch_bits(x, k)], k)

Inserted(x, d) == [node |-> x, delta |-> d]

\* x becomes the join, after m digits, of a node with its contents and leaf.
SplitAt(x, m, k, leaf) ==
    [x EXCEPT !.pfx = Truncate(@, m), !.len = m, !.value = NoValue,
              !.kids = [b \in {BranchBits(k, m), BranchBits(x.pfx, m)} |->
                            IF b = BranchBits(k, m) THEN leaf ELSE move_contents_to_new_node(x)],
              !.meta = Plus(leaf.meta, x.meta)]

\* _insert
RECURSIVE insert_(_, _, _, _)
insert_(x, k, v, rollback) ==
    LET y    == invalidate_hash(x)
        m    == get_prefix_match_len(x, k)
        b    == get_branch_bits(x, k)
        leaf == make_value_leaf(k, v, rollback)
        r    == insert_(x.kids[b], k, v, rollback)
    IN  CASE is_empty(x) ->
               Inserted([y EXCEPT !.pfx = k, !.len = KeyLen, !.value = v, !.meta = leaf.meta], leaf.meta)
          [] ~ is_empty(x) /\ m < x.len -> Inserted(SplitAt(y, m, k, leaf), leaf.meta)
          [] m = KeyLen ->
               Inserted([y EXCEPT !.value = v, !.meta = leaf.meta], Minus(leaf.meta, x.meta))
          [] OTHER ->
               IF b \in DOMAIN x.kids
               THEN Inserted(update_metadata(emplace(y, b, r.node), r.delta), r.delta)
               ELSE Inserted(update_metadata(emplace(y, b, leaf), leaf.meta), leaf.meta)

-----------------------------------------------------------------------------
(* Merging another trie, which is used up *)

\* Mutant: the value that is there already wins.
MergeLeaves_Keep(x, o) == Inserted(x, Zero)

\* Case 0: two leaves of one key (OverwriteMergeFn).
MergeLeaves(x, o) ==
    Inserted([x EXCEPT !.value = o.value, !.meta = o.meta], Minus(o.meta, x.meta))

\* Case 2 without a child to merge with.
MergeAdd(x, b, o) == Inserted(update_metadata(emplace(x, b, o), o.meta), o.meta)

\* Case 4: a common ancestor after m digits.
MergeJoin(x, m, o) ==
    LET moved == move_contents_to_new_node(x)
        bs == {BranchBits(x.pfx, m), BranchBits(o.pfx, m)}
    IN  Inserted([x EXCEPT !.pfx = Truncate(@, m), !.len = m, !.value = NoValue,
                           !.kids = [b \in bs |-> IF b = BranchBits(o.pfx, m) THEN o ELSE moved],
                           !.meta = Plus(@, o.meta)],
                 o.meta)

\* Mutant of case 3: what the other trie had below is reported once more.
Reported_Twice(self, x) == self.meta
Reported(self, x) == Minus(self.meta, x.meta)

\* _merge_in: x stays the topmost node.
RECURSIVE merge_in_(_, _), MergeChildren(_, _), MergeDown(_, _), MergeOver(_, _)
merge_in_(x0, o) ==
    LET x == invalidate_hash(x0)
        m == MatchLen(x.pfx, x.len, o.pfx, o.len)
    IN  CASE m = KeyLen -> MergeLeaves(x, o)
          [] m < KeyLen /\ m = x.len /\ m = o.len -> MergeChildren(x, o)
          [] m = x.len /\ m < o.len -> MergeDown(x, o)
          [] m = o.len /\ m < x.len -> MergeOver(x, o)
          [] OTHER -> MergeJoin(x, m, o)

\* Case 1: the union of the children, those of one digit merged.
MergeChildren(x, o) ==
    LET both == DOMAIN x.kids \cap DOMAIN o.kids
        merged == [b \in both |-> merge_in_(x.kids[b], o.kids[b])]
        added  == MetaSum(LAMBDA b : IF b \in both THEN merged[b].delta ELSE o.kids[b].meta,
                          DOMAIN o.kids)
        union  == [b \in DOMAIN x.kids \cup DOMAIN o.kids |->
                      CASE b \in both -> merged[b].node
                        [] b \in DOMAIN x.kids \ both -> x.kids[b]
                        [] OTHER -> o.kids[b]]
    IN  Inserted(update_metadata([x EXCEPT !.kids = union], added), added)

\* Case 2: o belongs below x.
MergeDown(x, o) ==
    LET b == BranchBits(o.pfx, x.len)
        r == merge_in_(x.kids[b], o)
    IN  IF b \in DOMAIN x.kids
        THEN Inserted(update_metadata(emplace(x, b, r.node), r.delta), r.delta)
        ELSE MergeAdd(x, b, o)

\* Case 3: x belongs below o.  x takes over what o has, and a new node what x
\* had.
MergeOver(x, o) ==
    LET b     == BranchBits(x.pfx, o.len)
        moved == move_contents_to_new_node(x)
        over  == [x EXCEPT !.pfx = o.pfx, !.len = o.len, !.kids = o.kids, !.value = o.value,
                           !.meta = o.meta]
        r     == merge_in_(moved, o.kids[b])
        self  == update_metadata(emplace(over, b, r.node), Minus(r.delta, Minus(o.kids[b].meta, x.meta)))
    IN  IF b \in DOMAIN o.kids THEN Inserted(self, Reported(self, x))
        ELSE Inserted(update_metadata(emplace(over, b, moved), x.meta), o.meta)

-----------------------------------------------------------------------------
(* Marks for deletion.  "found": the caller is given a value. *)

Marked(x, d, found) == [node |-> x, delta |-> d, found |-> found]
OneDeleted == [Zero EXCEPT !.deleted = 1]

\* compare_exchange of num_deleted_subnodes.
MarkLeaf(x) ==
    IF x.meta.deleted = 0 THEN Marked(update_metadata(invalidate_hash(x), OneDeleted), OneDeleted, TRUE)
    ELSE Marked(x, Zero, FALSE)

UnmarkLeaf(x) ==
    IF x.meta.deleted = 1
    THEN Marked(update_metadata(invalidate_hash(x), Negated(OneDeleted)), Negated(OneDeleted), TRUE)
    ELSE Marked(x, Zero, FALSE)

\* The key is not below x: no child goes on towards it.
NoWayTo(x, k) == get_prefix_match_len(x, k) < x.len
                 \/ (~ is_leaf(x) /\ get_branch_bits(x, k) \notin DOMAIN x.kids)

\* The way down to the leaf and back, without the update_metadata(delta) that
\* each node on the way makes after its child: they are the steps UpdateAbove.
RECURSIVE mark_for_deletion(_, _)
mark_for_deletion(x, k) ==
    LET b == get_branch_bits(x, k)
        r == mark_for_deletion(x.kids[b], k)
    IN  IF NoWayTo(x, k) THEN Marked(x, Zero, FALSE)
        ELSE IF is_leaf(x) THEN MarkLeaf(x)
        ELSE Marked(emplace(invalidate_hash(x), b, r.node), r.delta, r.found)

RECURSIVE unmark_for_deletion(_, _)
unmark_for_deletion(x, k) ==
    LET b == get_branch_bits(x, k)
        r == unmark_for_deletion(x.kids[b], k)
        y == IF r.found THEN invalidate_hash(x) ELSE x
    IN  IF NoWayTo(x, k) THEN Marked(x, Zero, FALSE)
        ELSE IF is_leaf(x) THEN UnmarkLeaf(x)
        ELSE Marked(emplace(y, b, r.node), r.delta, r.found)

RECURSIVE contains_key(_, _)
contains_key(x, k) ==
    ~ NoWayTo(x, k) /\ (is_leaf(x) \/ contains_key(x.kids[get_branch_bits(x, k)], k))

\* No other call is under way; a key that is met is reported, marked before or
\* not.
RECURSIVE mark_for_deletion_nolocks(_, _)
mark_for_deletion_nolocks(x, k) ==
    LET b == get_branch_bits(x, k)
        r == mark_for_deletion_nolocks(x.kids[b], k)
    IN  IF NoWayTo(x, k) THEN Marked(x, Zero, FALSE)
        ELSE IF is_leaf(x) THEN [MarkLeaf(x) EXCEPT !.found = TRUE]
        ELSE Marked(update_metadata(emplace(invalidate_hash(x), b, r.node), r.delta), r.delta, r.found)

\* Nodes are named by their prefixes while several calls walk the trie.
Name(x) == [pfx |-> x.pfx, len |-> x.len]

RECURSIVE NodeNamed(_, _)
NodeNamed(x, n) == IF x.len = n.len THEN x ELSE NodeNamed(x.kids[get_branch_bits(x, n.pfx)], n)

\* The node of the given name has c marked leaves below it, it says.
RECURSIVE WithDeleted(_, _, _)
WithDeleted(x, n, c) ==
    LET b == get_branch_bits(x, n.pfx)
    IN  IF x.len = n.len THEN [x EXCEPT !.meta.deleted = c]
        ELSE emplace(x, b, WithDeleted(x.kids[b], n, c))

\* The nodes above the leaf of k, the lowest first.
RECURSIVE NamesAbove(_, _)
NamesAbove(x, k) ==
    IF is_leaf(x) THEN << >> ELSE Append(NamesAbove(x.kids[get_branch_bits(x, k)], k), Name(x))

RECURSIVE clear_rollback(_)
clear_rollback(x) ==
    IF x.meta.rollback = 0 THEN x
    ELSE [x EXCEPT !.meta.rollback = 0,
                   !.kids = [b \in DOMAIN x.kids |-> clear_rollback(x.kids[b])]]

-----------------------------------------------------------------------------
(* Removal.  "gone": the parent is told to remove the node. *)

Removed(x, d, gone, found) == [node |-> x, delta |-> d, gone |-> gone, found |-> found]

\* Mutant: a child that is left with one child stays.
AfterRemovals_Uncontracted(x, r) ==
    [b \in {d \in DOMAIN x.kids : ~ r[d].gone} |-> r[b].node]

\* What the loop over the children leaves: those that are not gone, those
\* with one child contracted.
AfterRemovals(x, r) == [b \in {d \in DOMAIN x.kids : ~ r[d].gone} |-> Contracted(r[b].node)]

\* perform_marked_deletions and do_rollback remove the leaves that have 1 in
\* the given field.
RECURSIVE RemoveCounted(_, _)
RemoveCounted(x, field) ==
    LET r == [b \in DOMAIN x.kids |-> RemoveCounted(x.kids[b], field)]
        d == MetaSum(LAMBDA b : r[b].delta, DOMAIN x.kids)
        kids == AfterRemovals(x, r)
    IN  IF x.meta[field] = 0 THEN Removed(x, Zero, FALSE, FALSE)
        ELSE IF is_leaf(x) THEN Removed(invalidate_hash(x), Negated(x.meta), TRUE, TRUE)
        ELSE Removed([update_metadata(invalidate_hash(x), d) EXCEPT !.kids = kids],
                     d, DOMAIN kids = {}, TRUE)

perform_marked_deletions(x) == RemoveCounted(x, "deleted")

\* Mutant: the marks for deletion are looked at.
do_rollback_Deleted(x) == RemoveCounted(x, "deleted")
do_rollback(x) == RemoveCounted(x, "rollback")

RECURSIVE perform_deletion(_, _)
perform_deletion(x, k) ==
    LET b == get_branch_bits(x, k)
        r == perform_deletion(x.kids[b], k)
        y == IF r.found THEN invalidate_hash(x) ELSE x
        z == IF r.gone THEN erase(y, b) ELSE emplace(y, b, Contracted(r.node))
    IN  IF NoWayTo(x, k) THEN Removed(x, Zero, FALSE, FALSE)
        ELSE IF is_leaf(x) THEN Removed(x, Negated(x.meta), TRUE, TRUE)
        ELSE Removed(update_metadata(z, r.delta), r.delta, FALSE, r.found)

\* clean_singlechild_nodes: the children of the nodes on the way to a key.
RECURSIVE FullyContracted(_), clean_singlechild_nodes(_, _)
FullyContracted(x) == IF single_child(x) THEN FullyContracted(get_single_child(x)) ELSE x
clean_singlechild_nodes(x, path) ==
    LET b == get_branch_bits(x, path)
        kids == [d \in DOMAIN x.kids |-> FullyContracted(x.kids[d])]
    IN  IF is_leaf(x) THEN invalidate_hash(x)
        ELSE [invalidate_hash(x) EXCEPT
                 !.kids = [d \in DOMAIN kids |->
                              IF d = b THEN clean_singlechild_nodes(kids[d], path) ELSE kids[d]]]

-----------------------------------------------------------------------------
(* endow_split: the lowest leaves, with an endowment of at most t, are     *)
(* moved to a new trie, "out".                                             *)

Split(x, out) == [node |-> x, out |-> out]

\* Mutant: a child is taken only when endowment is left over.
Consumed_Strictly(endow, t) == endow < t
Consumed(endow, t) == endow <= t

RECURSIVE endow_split(_, _), SplitLoop(_, _, _, _, _)
endow_split(x, t) ==
    LET r == SplitLoop(invalidate_hash(x), NoKids, 0, t, DigitsOf(x))
    IN  IF DOMAIN x.kids = {} THEN Split(x, Null)
        ELSE IF DOMAIN r.out = {} THEN Split(r.node, Null)
        ELSE Split(r.node, compute_metadata_unsafe(TrieNode(x.pfx, x.len, r.out, NoValue, Zero)))

\* The loop over the digits ds, with acc endowment in the children before.
SplitLoop(x, taken, acc, t, ds) ==
    LET b == Head(ds)
        c == x.kids[b]
        full == acc + c.meta.endow
        r == endow_split(c, t - acc)
        rest(y, s) == SplitLoop(y, s, full, t, Tail(ds))
        with(n) == [d \in DOMAIN taken \cup {b} |-> IF d = b THEN n ELSE taken[d]]
    IN  IF ds = << >> \/ acc >= t THEN Split(x, taken)
        ELSE IF Consumed(full, t)
        THEN rest(update_metadata(erase(x, b), Negated(c.meta)), with(c))
        ELSE IF r.out = Null THEN rest(emplace(x, b, Contracted(r.node)), taken)
        ELSE rest(update_metadata(emplace(x, b, Contracted(r.node)), Negated(r.out.meta)), with(r.out))

-----------------------------------------------------------------------------
(* Hashes: a digest is the record of what is hashed. *)

\* The children that have a leaf which is not marked.
Live(x) == {b \in DOMAIN x.kids : x.kids[b].meta.size > x.kids[b].meta.deleted}

\* compute_hash_value_node and compute_hash_branch_node: the hash of a single
\* live child is passed on.
NodeHash(x) ==
    IF Cardinality(Live(x)) = 1 THEN x.kids[CHOOSE b \in Live(x) : TRUE].hash
    ELSE [pfx |-> x.pfx, len |-> x.len,
          body |-> IF is_leaf(x) THEN <<x.value>>
                   ELSE [b \in Branch |-> IF b \in Live(x) THEN x.kids[b].hash ELSE NoHash]]

RECURSIVE compute_hash(_)
compute_hash(x) ==
    LET y == [x EXCEPT !.kids = [b \in DOMAIN x.kids |->
                                    IF b \in Live(x) THEN compute_hash(x.kids[b]) ELSE x.kids[b]]]
    IN  IF x.valid \/ is_empty(x) THEN x
        ELSE [y EXCEPT !.hash = NodeHash(y), !.valid = TRUE]

\* get_root_hash: the number of leaves that are not marked, and the hash.
get_root_hash(x) ==
    LET n == x.meta.size - x.meta.deleted
    IN  [count |-> n, hash |-> IF n = 0 THEN NoHash ELSE x.hash]

\* modify_value_nolocks, of a key that is present; no metadata change.
RECURSIVE modify_value_nolocks(_, _, _)
modify_value_nolocks(x, k, v) ==
    LET b == get_branch_bits(x, k)
    IN  IF is_leaf(x) THEN [invalidate_hash(x) EXCEPT !.value = v]
        ELSE emplace(invalidate_hash(x), b, modify_value_nolocks(x.kids[b], k, v))

\* The value is modified through the subnode n, and the hashes of the nodes
\* above are invalidated (invalidate_hash_to_node_nolocks).
RECURSIVE modify_below(_, _, _, _)
modify_below(x, n, k, v) ==
    LET b == get_branch_bits(x, n.pfx)
    IN  IF x.len = n.len THEN modify_value_nolocks(x, k, v)
        ELSE emplace(invalidate_hash(x), b, modify_below(x.kids[b], n, k, v))

-----------------------------------------------------------------------------
(* Reading *)

\* The leaves in the order of apply, accumulate_values, accumulate_keys and
\* the iterator.
RECURSIVE Leaves(_), LeavesOf(_)
Leaves(x) == IF is_leaf(x) THEN <<x>> ELSE LeavesOf(children_list(x))
LeavesOf(w) == IF w = << >> THEN << >> ELSE Leaves(Head(w)) \o LeavesOf(Tail(w))

\* The nodes of a trie.
RECURSIVE NodesOf(_)
NodesOf(x) == {x} \cup UNION {NodesOf(x.kids[b]) : b \in DOMAIN x.kids}

\* get_value: NoValue stands for nullptr.
RECURSIVE get_value(_, _)
get_value(x, k) ==
    IF NoWayTo(x, k) THEN NoValue
    ELSE IF is_leaf(x) THEN x.value ELSE get_value(x.kids[get_branch_bits(x, k)], k)

RECURSIVE uncached_size(_)
uncached_size(x) == IF is_leaf(x) THEN 1
                    ELSE MapThenSumSet(LAMBDA b : uncached_size(x.kids[b]), DOMAIN x.kids)

RECURSIVE get_lowest_key(_)
get_lowest_key(x) == IF is_leaf(x) THEN x.pfx
                     ELSE IF DOMAIN x.kids = {} THEN Null ELSE get_lowest_key(Head(children_list(x)))

Lower(x, k)    == {b \in DOMAIN x.kids : b < get_branch_bits(x, k)}

RECURSIVE endow_lt_key(_, _)
endow_lt_key(x, k) ==
    LET t == Truncate(k, x.len)
        b == get_branch_bits(x, k)
    IN  CASE Less(x.pfx, t) -> x.meta.endow
          [] Less(t, x.pfx) \/ is_leaf(x) -> 0
          [] OTHER -> MapThenSumSet(LAMBDA d : x.kids[d].meta.endow, Lower(x, k))
                      + (IF b \in DOMAIN x.kids THEN endow_lt_key(x.kids[b], k) ELSE 0)

\* The leaves that apply_lt_key meets.
RECURSIVE apply_lt_key(_, _)
apply_lt_key(x, k) ==
    LET t == Truncate(k, x.len)
        b == get_branch_bits(x, k)
        low == SelectSeq(DigitsOf(x), LAMBDA d : d \in Lower(x, k))
    IN  CASE Less(x.pfx, t) -> Leaves(x)
          [] Less(t, x.pfx) \/ is_leaf(x) -> << >>
          [] OTHER -> LeavesOf([i \in DOMAIN low |-> x.kids[low[i]]])
                      \o (IF b \in DOMAIN x.kids THEN apply_lt_key(x.kids[b], k) ELSE << >>)

\* The topmost nodes of at least the given length.
RECURSIVE Topmost(_, _), TopmostOf(_, _)
Topmost(x, len) == IF x.len >= len THEN <<x>> ELSE TopmostOf(children_list(x), len)
TopmostOf(w, len) == IF w = << >> THEN << >> ELSE Topmost(Head(w), len) \o TopmostOf(Tail(w), len)

\* metadata_traversal: for the topmost nodes of at least the given length, the
\* endowment up to and including them.  (The entry for 0 that the vector
\* begins with is left out.)
metadata_traversal(x, len) ==
    LET w == Topmost(x, len)
    IN  [i \in DOMAIN w |-> [key |-> w[i].pfx,
                             endow |-> MapThenSumSet(LAMBDA j : w[j].meta.endow, 1 .. i)]]

\* get_subnode_ref_nolocks: the deepest node on the way that is not longer
\* than the query.
RECURSIVE get_subnode_ref_nolocks(_, _, _)
get_subnode_ref_nolocks(x, p, len) ==
    LET b == BranchBits(p, x.len)
        c == get_subnode_ref_nolocks(x.kids[b], p, len)
    IN  IF MatchLen(x.pfx, x.len, p, len) < x.len THEN Null
        ELSE IF x.len = len \/ b \notin DOMAIN x.kids THEN x
        ELSE IF c = Null THEN x ELSE c

\* metadata_integrity_check, of the nodes that are not leaves; the check of
\* the code also rejects a leaf that is marked.
RECURSIVE metadata_integrity_check(_)
metadata_integrity_check(x) ==
    \/ is_leaf(x)
    \/ /\ x.meta = compute_metadata_unsafe(x).meta
       /\ \A b \in DOMAIN x.kids : metadata_integrity_check(x.kids[b])
=============================================================================
