---------------------------- MODULE RecyclingNode ----------------------------
(***************************************************************************)
(* The nodes of the recycling trie                                         *)
(* (include/mtt/trie/recycling_impl/, class RecyclingTrieNode).            *)
(*                                                                         *)
(* Nodes and values live in buffers and are named by handles.  The         *)
(* children of a node are the handles base, base + 1, ... of a block that  *)
(* was allocated at once, so a child that comes from elsewhere is moved    *)
(* into its slot and the node it was is marked as stolen.  Memory is never *)
(* erased: after a reset the handles are given out again with whatever     *)
(* they had.                                                               *)
(*                                                                         *)
(* H is the memory: H.mem the nodes, H.vals the values, H.pos and H.vpos   *)
(* the next handles of each allocation context, H.thrown is TRUE once an   *)
(* exception was thrown.  A method of the code is an operator of the same  *)
(* name that takes H and the handle p of the node, and returns H, or a     *)
(* record with H and the result.                                           *)
(***************************************************************************)
EXTENDS TriePrefix, Sequences, FiniteSets, SequencesExt, FiniteSetsExt, TLC

CONSTANTS NoValue,  \* the value of a key that is not there
          NoHash,   \* a hash that was not computed
          Null      \* UINT32_MAX

ZeroKey == [i \in 1 .. KeyLen |-> 0]

-----------------------------------------------------------------------------
(* RecyclingChildrenMap: ptr is the handle of the value, the first handle  *)
(* of the block, or the new place of a stolen node.                        *)

ChildrenMap(tag, ptr, bv) == [tag |-> tag, ptr |-> ptr, bv |-> bv]
Cleared == ChildrenMap("CLEARED", Null, {})

Node(children, p, len, size) ==
    [children |-> children, pfx |-> p, len |-> len, size |-> size, valid |-> FALSE, hash |-> NoHash]

\* A node as the constructor makes it: what memory holds before its first use.
NewNode == Node(Cleared, ZeroKey, 0, 0)

get_object(H, p) == IF p \in DOMAIN H.mem THEN H.mem[p] ELSE NewNode
Put(H, p, n) == [H EXCEPT !.mem = (p :> n) @@ @]
Thrown(H) == [H EXCEPT !.thrown = TRUE]
ThrownIf(H, cond) == IF cond THEN Thrown(H) ELSE H

\* The digits that have a child; only a MAP has any.
Children(n) == IF n.children.tag = "MAP" THEN n.children.bv ELSE {}
ChildPtr(n, b) == n.children.ptr + b
is_leaf(n) == n.len = KeyLen
IsStolen(n) == n.children.tag = "STOLEN"

\* The children in the order of their digits.
Digits == SetToSortSeq(Branch, <)
DigitsOf(n) == SelectSeq(Digits, LAMBDA b : b \in Children(n))

\* value: throws unless the node has one.
ValueThrows(n) == n.children.tag # "VALUE"

invalidate_hash(H, p) == Put(H, p, [get_object(H, p) EXCEPT !.valid = FALSE])
alter_metadata(H, p, d) == Put(H, p, [get_object(H, p) EXCEPT !.size = @ + d])

\* Mutant: the old contents stay.
set_as_empty_node_Dirty(H, p) == invalidate_hash(H, p)
set_as_empty_node(H, p) ==
    Put(H, p, [get_object(H, p) EXCEPT !.children = Cleared, !.pfx = ZeroKey, !.len = 0,
                                       !.size = 0, !.valid = FALSE])

\* init_root_node of the context c; the handle is H.pos[c].
init_root_node(H, c) == [set_as_empty_node(H, H.pos[c]) EXCEPT !.pos[c] = @ + 1]

\* A block for the children of p, none of which is there yet; set_map_noalloc
\* throws at a stolen node.
reset_map(H, p, c) ==
    LET n == get_object(H, p)
    IN  [ThrownIf(Put(H, p, [n EXCEPT !.children = ChildrenMap("MAP", H.pos[c], {})]), IsStolen(n))
            EXCEPT !.pos[c] = @ + Cardinality(Branch)]

\* init_new_child: the slot becomes an empty node; map_guard throws.
init_new_child(H, p, b) ==
    LET n == get_object(H, p)
    IN  set_as_empty_node(
            ThrownIf(Put(H, p, [n EXCEPT !.children.bv = @ \cup {b}]), n.children.tag # "MAP"),
            ChildPtr(n, b))

\* extract: the slot is no longer a child, its contents stay.
extract(H, p, b) == Put(H, p, [get_object(H, p) EXCEPT !.children.bv = @ \ {b}])

\* set_to, for a slot p that was set to an empty node.
set_to(H, p, q) ==
    LET o == get_object(H, q)
    IN  Put(Put(ThrownIf(H, IsStolen(o)), p, o),
            q, [o EXCEPT !.children = ChildrenMap("STOLEN", p, {})])

\* emplace (set_child): the node q is moved to its slot.
emplace(H, p, b, q) ==
    LET slot == ChildPtr(get_object(H, p), b)
        H1   == set_to(set_as_empty_node(H, slot), slot, q)
    IN  Put(H1, p, [get_object(H1, p) EXCEPT !.children.bv = @ \cup {b}])

\* extract_contents leaves the node as it is, but for the children, which are
\* moved out; the contents are what get_object gave before.
extract_contents(H, p) ==
    LET n == get_object(H, p)
    IN  ThrownIf(Put(H, p, [n EXCEPT !.children = Cleared]), IsStolen(n))

\* set_from_contents, with the contents n.
set_from_contents(H, p, n) ==
    LET o == get_object(H, p)
    IN  ThrownIf(Put(H, p, [n EXCEPT !.valid = FALSE, !.hash = o.hash]), IsStolen(o))

\* set_as_value_leaf with the key k, in the context c.  A node that has a value
\* keeps its handle (set_value).
set_as_value_leaf(H, p, k, v, c) ==
    LET n   == get_object(H, p)
        new == n.children.tag # "VALUE"
        vp  == IF new THEN H.vpos[c] ELSE n.children.ptr
        leaf == [n EXCEPT !.children = ChildrenMap("VALUE", vp, {}), !.pfx = k, !.len = KeyLen,
                          !.size = 1, !.valid = FALSE]
    IN  [Put(ThrownIf(H, IsStolen(n)), p, leaf)
            EXCEPT !.vals = (vp :> v) @@ @, !.vpos[c] = @ + (IF new THEN 1 ELSE 0)]

\* p becomes a node of length m whose only child has its contents.
JoinAt(H, p, m, c) ==
    LET n  == get_object(H, p)
        b  == BranchBits(n.pfx, m)
        H1 == reset_map(extract_contents(H, p), p, c)
        H2 == init_new_child(Put(H1, p, [get_object(H1, p) EXCEPT !.len = m, !.pfx = Truncate(@, m)]), p, b)
    IN  set_from_contents(H2, ChildPtr(get_object(H2, p), b), n)

-----------------------------------------------------------------------------
(* insert: "delta" is what it returns, the change of the size. *)

Changed(H, d) == [h |-> H, delta |-> d]

\* A new leaf in the slot of digit b.
AddLeaf(H, p, b, k, v, c) ==
    LET H1 == init_new_child(H, p, b)
    IN  Changed(alter_metadata(set_as_value_leaf(H1, ChildPtr(get_object(H, p), b), k, v, c), p, 1), 1)

RECURSIVE insert(_, _, _, _, _)
insert(H0, p, k, v, c) ==
    LET H == invalidate_hash(H0, p)
        n == get_object(H, p)
        m == MatchLen(n.pfx, n.len, k, KeyLen)
        b == BranchBits(k, n.len)
        r == insert(H, ChildPtr(n, b), k, v, c)
    IN  CASE IsStolen(n) \/ Cardinality(Children(n)) = 1
             \/ (Children(n) = {} /\ n.len \notin {0, KeyLen}) -> Changed(Thrown(H), 0)
          [] n.len = 0 /\ Children(n) = {} -> Changed(set_as_value_leaf(H, p, k, v, c), 1)
          [] m = KeyLen ->
               Changed([ThrownIf(H, ValueThrows(n)) EXCEPT !.vals = (n.children.ptr :> v) @@ @], 0)
          [] m < n.len ->
               LET J == JoinAt(H, p, m, c) IN AddLeaf(J, p, BranchBits(k, m), k, v, c)
          [] OTHER -> IF b \in Children(n) THEN Changed(alter_metadata(r.h, p, r.delta), r.delta)
                      ELSE AddLeaf(H, p, b, k, v, c)

-----------------------------------------------------------------------------
(* merge_in of the node q, in the context c *)

\* Case 0 (OverwriteMergeFn::value_merge_recyclingimpl): no change is reported.
MergeLeaves(H, p, q) ==
    LET n == get_object(H, p)
        o == get_object(H, q)
    IN  Changed([ThrownIf(H, ValueThrows(n) \/ ValueThrows(o))
                    EXCEPT !.vals = (n.children.ptr :> H.vals[o.children.ptr]) @@ @], 0)

\* Case 3 begins like this: p takes over what q has.
TakeOver(H, p, q) ==
    LET n  == get_object(H, p)
        o  == get_object(H, q)
        H1 == extract_contents(H, p)
    IN  Put(Put(H1, p, [o EXCEPT !.valid = n.valid, !.hash = n.hash]),
            q, [o EXCEPT !.children = Cleared])

\* Mutant of case 3: the subtree of the other trie is merged where it is.
Swapped_InPlace(H, slot, contents, c) == [h |-> H, temp |-> slot]

\* Case 3 with a child in the way: this child becomes what p was, and what it
\* was gets a temporary node, to be merged in.
Swapped(H, slot, contents, c) ==
    LET o  == get_object(H, slot)
        H1 == set_from_contents(extract_contents(H, slot), slot, contents)
        H2 == init_root_node(H1, c)
    IN  [h |-> set_from_contents(H2, H.pos[c], o), temp |-> H.pos[c]]

RECURSIVE merge_in(_, _, _, _), MergeChildren(_, _, _, _, _)
merge_in(H0, p, q, c) ==
    LET H == invalidate_hash(H0, p)
        n == get_object(H, p)
        o == get_object(H, q)
        m == MatchLen(n.pfx, n.len, o.pfx, o.len)
    IN  CASE IsStolen(n) \/ IsStolen(o) -> Changed(Thrown(H), 0)
          [] ~ IsStolen(n) /\ ~ IsStolen(o) /\ m = KeyLen -> MergeLeaves(H, p, q)
          [] m < KeyLen /\ m = n.len /\ m = o.len ->  \* case 1
               LET r == MergeChildren(H, p, q, DigitsOf(o), c)
               IN  Changed(alter_metadata(r.h, p, r.delta), r.delta)
          [] m = n.len /\ m < o.len ->                \* case 2
               LET b == BranchBits(o.pfx, n.len)
                   r == IF b \in Children(n) THEN merge_in(H, ChildPtr(n, b), q, c)
                        ELSE Changed(emplace(H, p, b, q), o.size)
               IN  Changed(alter_metadata(r.h, p, r.delta), r.delta)
          [] m = o.len /\ m < n.len ->                \* case 3
               LET b == BranchBits(n.pfx, o.len)
                   T == TakeOver(H, p, q)
                   slot == ChildPtr(get_object(T, p), b)
                   sub  == get_object(T, slot).size
                   s == Swapped(T, slot, n, c)
                   M == merge_in(s.h, slot, s.temp, c).h
                   d == get_object(M, slot).size - sub
                   H1 == init_new_child(T, p, b)
               IN  IF b \in Children(o) THEN Changed(alter_metadata(M, p, d), o.size + d - n.size)
                   ELSE Changed(alter_metadata(set_from_contents(H1, slot, n), p, n.size), o.size)
          [] OTHER ->                                 \* case 4
               LET J == JoinAt(H, p, m, c)
               IN  Changed(alter_metadata(emplace(J, p, BranchBits(o.pfx, m), q), p, o.size), o.size)

\* Case 1: the children of q with the digits ds.
MergeChildren(H0, p, q, ds, c) ==
    LET b  == Head(ds)
        H  == extract(H0, q, b)
        n  == get_object(H, p)
        from == ChildPtr(get_object(H, q), b)
        r  == IF b \in Children(n) THEN merge_in(H, ChildPtr(n, b), from, c)
              ELSE Changed(emplace(H, p, b, from), get_object(H, from).size)
        rest == MergeChildren(r.h, p, q, Tail(ds), c)
    IN  IF ds = << >> THEN Changed(H0, 0) ELSE Changed(rest.h, r.delta + rest.delta)

-----------------------------------------------------------------------------
(* destructive_steal_child: "whole" when all of p is to be stolen, "ptr"   *)
(* what was stolen below p.                                                *)

Stolen(H, whole, d, ptr) == [h |-> H, whole |-> whole, delta |-> d, ptr |-> ptr]

\* Mutant: the child is moved, and still counted.
StealSlot_Counted(H0, p, b, d, c) ==
    LET slot == ChildPtr(get_object(H0, p), b)
        n  == get_object(H0, slot)
        H1 == extract(init_root_node(H0, c), p, b)
    IN  Stolen(set_from_contents(extract_contents(H1, slot), H0.pos[c], n), FALSE, d, H0.pos[c])

\* The child in the slot of b is moved to a node of its own.
StealSlot(H0, p, b, d, c) ==
    LET H    == alter_metadata(H0, p, -d)
        slot == ChildPtr(get_object(H, p), b)
        n    == get_object(H, slot)
        H1   == extract(init_root_node(H, c), p, b)
    IN  Stolen(set_from_contents(extract_contents(H1, slot), H.pos[c], n), FALSE, d, H.pos[c])

RECURSIVE destructive_steal_child(_, _, _, _, _)
destructive_steal_child(H, p, pfx, len, c) ==
    LET n == get_object(H, p)
        m == MatchLen(n.pfx, n.len, pfx, len)
        b == BranchBits(pfx, n.len)
        r == destructive_steal_child(H, ChildPtr(n, b), pfx, len, c)
    IN  CASE m = len -> Stolen(H, TRUE, n.size, Null)
          [] m < len /\ (m < n.len \/ b \notin Children(n)) -> Stolen(H, FALSE, 0, Null)
          [] OTHER -> IF r.whole THEN StealSlot(H, p, b, r.delta, c)
                      ELSE IF r.ptr = Null THEN Stolen(r.h, FALSE, 0, Null)
                      ELSE Stolen(alter_metadata(r.h, p, - r.delta), FALSE, r.delta, r.ptr)

\* Mutant: the hash stays.
Passed_HashStays(H, p, d) == alter_metadata(H, p, d)
Passed(H, p, d) == alter_metadata(invalidate_hash(H, p), p, d)

\* propagate_sz_delta, from p down to the target.
RECURSIVE propagate_sz_delta(_, _, _, _)
propagate_sz_delta(H, p, target, d) ==
    LET n == get_object(H, p)
        b == BranchBits(get_object(H, target).pfx, n.len)
    IN  IF p = target THEN invalidate_hash(H, p)
        ELSE IF b \notin Children(n) THEN Thrown(H)
        ELSE propagate_sz_delta(Passed(H, p, d), ChildPtr(n, b), target, d)

-----------------------------------------------------------------------------
(* Hashes, and reading *)

\* compute_hash: a digest is the record of what is hashed.  A leaf without a
\* value and a child with the handle 0 throw.
RECURSIVE compute_hash(_, _), HashChildren(_, _, _)
compute_hash(H, p) ==
    LET n == get_object(H, p)
        K == HashChildren(ThrownIf(H, \E b \in Children(n) : ChildPtr(n, b) = 0), n, DigitsOf(n))
        body == IF Children(n) = {} THEN <<H.vals[n.children.ptr]>>
                ELSE [b \in Branch |-> IF b \in Children(n) THEN get_object(K, ChildPtr(n, b)).hash ELSE NoHash]
    IN  IF n.valid THEN H
        ELSE IF Children(n) = {} /\ ValueThrows(n) THEN Thrown(H)
        ELSE Put(K, p, [n EXCEPT !.valid = TRUE, !.hash = [pfx |-> n.pfx, len |-> n.len, body |-> body]])
HashChildren(H, n, ds) ==
    IF ds = << >> THEN H ELSE HashChildren(compute_hash(H, ChildPtr(n, Head(ds))), n, Tail(ds))

\* The handles of the leaves below p, in the order of apply, apply_to_kvs and
\* the workers that accumulate values and keys.
RECURSIVE Leaves(_, _), LeavesOf(_, _)
Leaves(H, p) ==
    LET n == get_object(H, p)
        ds == DigitsOf(n)
    IN  IF is_leaf(n) THEN <<p>> ELSE LeavesOf(H, [i \in DOMAIN ds |-> ChildPtr(n, ds[i])])
LeavesOf(H, w) == IF w = << >> THEN << >> ELSE Leaves(H, Head(w)) \o LeavesOf(H, Tail(w))

\* get_value: NoValue stands for nullptr.
RECURSIVE get_value(_, _, _)
get_value(H, p, k) ==
    LET n == get_object(H, p)
        b == BranchBits(k, n.len)
    IN  IF MatchLen(n.pfx, n.len, k, KeyLen) # n.len THEN NoValue
        ELSE IF is_leaf(n) THEN H.vals[n.children.ptr]
        ELSE IF b \in Children(n) THEN get_value(H, ChildPtr(n, b), k) ELSE NoValue
=============================================================================
