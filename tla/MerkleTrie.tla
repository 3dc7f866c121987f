----------------------------- MODULE MerkleTrie -----------------------------
(***************************************************************************)
(* The Merkle trie with metadata (include/mtt/trie/merkle_trie.h, class    *)
(* MerkleTrie): a main trie, and another one that is merged into it or     *)
(* split off from it.                                                      *)
(*                                                                         *)
(* A call holds hash_modify_mtx, exclusively or, for marks, their clearing *)
(* and queries, shared.  A call that marks or unmarks locks the root node  *)
(* (OptionalLock::lock is exclusive) until it is done; one that clears the *)
(* marks locks no node.  So calls are atomic, except that                  *)
(* clear_marked_deletions and one call that marks or unmarks take turns    *)
(* node by node.  (Queries do not look at the marks.)                      *)
(***************************************************************************)
EXTENDS MerkleRanges, TrieDigest

CONSTANTS Keys,      \* the keys in use
          Loads,     \* the offers the main trie may have at first, as functions
                     \* from keys to endowments
          Others,    \* the same for a trie that is merged into it
          Endow,     \* the endowments of the offers that are inserted
          Families,  \* sets of calls that are made together
          MaxSteps   \* how many calls are made

ASSUME KeysAssumption  == Keys \subseteq Key
ASSUME EndowAssumption == Endow \subseteq Nat /\ MaxSteps \in Nat
ASSUME LoadsAssumption == \A m \in Loads \cup Others : DOMAIN m \subseteq Keys
ASSUME FamiliesAssumption ==
    Families \subseteq SUBSET {"insert", "mark", "unmark", "perform_marked", "clear_marked", "delete",
                               "rollback", "clear_rollback", "modify", "hash", "clear", "merge", "split"}

VARIABLES trie,     \* the tries: root, hash_valid and root_hash
          kv,       \* the offers of each trie, with their marks
          raw,      \* the paths that clean up the trie that was split off
          stale,    \* tries whose cached root hash an earlier call left behind
          unhashed, \* keys whose marks were cleared below hashes left valid
          marking,  \* the mark or unmark of the main trie that is under way, or
                    \* Null: its change and the nodes that are to add it yet
          clearing, \* the nodes that clear_marked_deletions is to visit yet
          overlapped, \* clear_marked_deletions ran while something was marked
          failed,   \* the call that threw, or "none"
          calls,    \* which calls are made
          steps

vars == <<trie, kv, raw, stale, unhashed, marking, clearing, overlapped, failed, calls, steps>>
underway == <<marking, clearing, overlapped>>

Tries == {"main", "other"}

Entry(v, rollback) == [value |-> v, deleted |-> 0, rollback |-> IF rollback THEN 1 ELSE 0]
NoEntry == NoValue

NewTrie(root) == [root |-> root, hash_valid |-> FALSE, root_hash |-> NoHash]

KeysOf(m) == {k \in Keys : m[k] # NoEntry}
KeysWith(m, field) == {k \in KeysOf(m) : m[k][field] = 1}
Without(m, K) == [k \in Keys |-> IF k \in K THEN NoEntry ELSE m[k]]
Only(m, K) == Without(m, Keys \ K)
EmptyMap == [k \in Keys |-> NoEntry]

\* Keys are inserted into or deleted from a trie that was split off, and it is
\* merged, only when it has been cleaned up.
Clean(t) == t = "other" => raw = {}

\* A call that shares hash_modify_mtx begins.
SharedCall(name) == /\ name \in calls /\ failed = "none"
                    /\ steps < MaxSteps /\ steps' = steps + 1
                    /\ UNCHANGED calls

\* A call that has hash_modify_mtx for itself.
Call(name) == /\ SharedCall(name)
              /\ marking = Null /\ clearing = << >>
              /\ UNCHANGED underway

\* The call on t leaves root and hash_valid; the bookkeeping of what t should
\* contain and of which hashes are not to be relied on.
Becomes(t, root, valid, m) ==
    /\ trie' = [trie EXCEPT ![t].root = root, ![t].hash_valid = valid]
    /\ kv' = [kv EXCEPT ![t] = m]
    /\ stale' = IF valid THEN stale ELSE stale \ {t}

\* The paths to these keys are invalidated from the root on.
Healed(t, K) == unhashed' = [unhashed EXCEPT ![t] = @ \ K]

-----------------------------------------------------------------------------
(* Calls on one trie *)

Insert(t, k, e, rollback) ==
    LET r == insert_(trie[t].root, k, Offer(e, 0), rollback)
    IN  /\ Call("insert") /\ Clean(t)
        /\ t = "other" => "merge" \in calls
        /\ rollback => "rollback" \in calls
        /\ ~ insert_throws(trie[t].root, k)
        /\ Becomes(t, r.node, FALSE, [kv[t] EXCEPT ![k] = Entry(Offer(e, 0), rollback)])
        /\ Healed(t, {k})
        /\ UNCHANGED <<raw, failed>>

InsertThrows(t, k) ==
    /\ Call("insert") /\ Clean(t)
    /\ insert_throws(trie[t].root, k)
    /\ failed' = "insert"
    /\ UNCHANGED <<trie, kv, raw, stale, unhashed>>

\* Mutant: nothing is invalidated.
HashStays_Always(t, found) == trie[t].hash_valid

\* The cached root hash is invalidated when a call has found its key.
HashStays(t, found) == trie[t].hash_valid /\ ~ found

MarkedAs(t, k, d) == IF k \in KeysOf(kv[t]) THEN [kv[t] EXCEPT ![k].deleted = d] ELSE kv[t]

\* A call that marks or unmarks has come to the leaf of k, with the result r.
\* (What it invalidates is not looked at before it is done.)
AtLeaf(t, k, r, d) ==
    /\ marking = Null
    /\ Becomes(t, r.node, HashStays(t, r.found), MarkedAs(t, k, d))
    /\ marking' = IF r.found /\ ~ is_leaf(r.node)
                  THEN [delta |-> r.delta.deleted, up |-> NamesAbove(r.node, k)] ELSE Null
    /\ overlapped' = (overlapped \/ (r.found /\ clearing # << >>))
    /\ UNCHANGED <<raw, clearing, failed>>

Mark(t, k) ==
    /\ SharedCall("mark")
    /\ AtLeaf(t, k, mark_for_deletion(trie[t].root, k), 1)
    /\ Healed(t, {k})

Unmark(t, k) ==
    /\ SharedCall("unmark")
    /\ AtLeaf(t, k, unmark_for_deletion(trie[t].root, k), 0)
    /\ UNCHANGED unhashed

\* Back from its child, a node on the way adds the change to its metadata.
UpdateAbove(t) ==
    LET n == Head(marking.up)
        c == NodeNamed(trie[t].root, n).meta.deleted
    IN  /\ marking # Null
        /\ trie' = [trie EXCEPT ![t].root = WithDeleted(@, n, c + marking.delta)]
        /\ marking' = IF Tail(marking.up) = << >> THEN Null ELSE [marking EXCEPT !.up = Tail(@)]
        /\ UNCHANGED <<kv, raw, stale, unhashed, clearing, overlapped, failed, calls, steps>>

MarkNolocks(t, k) ==
    LET r == mark_for_deletion_nolocks(trie[t].root, k)
    IN  /\ Call("mark")
        /\ Becomes(t, r.node, HashStays(t, r.found), MarkedAs(t, k, 1))
        /\ Healed(t, {k})
        /\ UNCHANGED <<raw, failed>>

\* The marked offers are removed: all of them, unless counts are off.
PerformMarkedDeletions(t) ==
    LET r == perform_marked_deletions(trie[t].root)
        none == trie[t].root.meta.deleted = 0
        root == IF none THEN trie[t].root
                ELSE Contracted(IF r.gone THEN make_empty_node ELSE r.node)
        left == IF overlapped THEN {l.pfx : l \in ToSet(Leaves(root))} ELSE {}
        K    == KeysWith(kv[t], "deleted") \ left
    IN  /\ Call("perform_marked")
        /\ Becomes(t, root, trie[t].hash_valid /\ none, Without(kv[t], K))
        /\ Healed(t, K)
        /\ UNCHANGED <<raw, failed>>

\* A call that would find nothing, and change nothing, is left out.
ClearMarkedDeletions(t) ==
    /\ SharedCall("clear_marked")
    /\ clearing = << >>
    /\ trie[t].root.meta.deleted # 0 \/ marking # Null
    /\ clearing' = <<Name(trie[t].root) @@ [seen |-> FALSE]>>
    /\ overlapped' = (overlapped \/ marking # Null)
    /\ UNCHANGED <<trie, kv, raw, stale, unhashed, marking, failed>>

\* clear_marked_deletions of a node: it returns when it finds the count 0.
ClearLook(t) ==
    LET n == Head(clearing)
    IN  /\ clearing # << >> /\ ~ n.seen
        /\ clearing' = IF NodeNamed(trie[t].root, n).meta.deleted = 0 THEN Tail(clearing)
                       ELSE [clearing EXCEPT ![1].seen = TRUE]
        /\ UNCHANGED <<trie, kv, raw, stale, unhashed, marking, overlapped, failed, calls, steps>>

\* Otherwise it stores 0 and goes on to the children.  The hashes of the nodes
\* and of the trie stay as they are.
ClearStore(t) ==
    LET n == Head(clearing)
        x == NodeNamed(trie[t].root, n)
        next == [i \in DOMAIN children_list(x) |-> Name(children_list(x)[i]) @@ [seen |-> FALSE]]
        K == IF is_leaf(x) THEN KeysWith(kv[t], "deleted") \cap {x.pfx} ELSE {}
    IN  /\ clearing # << >> /\ n.seen
        /\ trie' = [trie EXCEPT ![t].root = WithDeleted(@, n, 0)]
        /\ kv' = [kv EXCEPT ![t] = IF is_leaf(x) THEN MarkedAs(t, x.pfx, 0) ELSE @]
        /\ unhashed' = [unhashed EXCEPT ![t] = @ \cup K]
        /\ clearing' = next \o Tail(clearing)
        /\ UNCHANGED <<raw, stale, marking, overlapped, failed, calls, steps>>

PerformDeletion(t, k) ==
    LET r == perform_deletion(trie[t].root, k)
        root == Contracted(IF r.gone THEN make_empty_node ELSE r.node)
    IN  /\ Call("delete") /\ Clean(t)
        /\ Becomes(t, IF root.meta.size = 0 THEN make_empty_node ELSE root, HashStays(t, r.found),
                   Without(kv[t], {k}))
        /\ Healed(t, {k})
        /\ UNCHANGED <<raw, failed>>

\* do_rollback: that the root is to be removed is not looked at, and the
\* cached root hash stays.  RolledBack says what is to be gone afterwards;
\* here the offers follow the leaves.
DoRollback(t) ==
    LET root == Contracted(do_rollback(trie[t].root).node)
        K    == KeysWith(kv[t], "rollback") \ {l.pfx : l \in ToSet(Leaves(root))}
    IN  /\ Call("rollback")
        /\ KeysWith(kv[t], "rollback") # {}
        /\ trie' = [trie EXCEPT ![t].root = root]
        /\ kv' = [kv EXCEPT ![t] = Without(@, K)]
        /\ stale' = IF trie[t].hash_valid THEN stale \cup {t} ELSE stale
        /\ Healed(t, K)
        /\ UNCHANGED <<raw, failed>>

ClearRollback(t) ==
    /\ Call("clear_rollback")
    /\ KeysWith(kv[t], "rollback") # {}
    /\ Becomes(t, clear_rollback(trie[t].root), trie[t].hash_valid,
               [k \in Keys |-> IF kv[t][k] = NoEntry THEN NoEntry ELSE [kv[t][k] EXCEPT !.rollback = 0]])
    /\ UNCHANGED <<raw, unhashed, failed>>

\* modify_value_nolocks of the trie keeps the cached root hash.
Modify(t, k) ==
    LET v == Offer(kv[t][k].value.endow, 1)
    IN  /\ Call("modify")
        /\ k \in KeysOf(kv[t])
        /\ trie' = [trie EXCEPT ![t].root = modify_value_nolocks(@, k, v)]
        /\ kv' = [kv EXCEPT ![t][k].value = v]
        /\ stale' = IF trie[t].hash_valid THEN stale \cup {t} ELSE stale
        /\ Healed(t, {k})
        /\ UNCHANGED <<raw, failed>>

\* A value is modified through get_subnode_ref_nolocks, and then
\* invalidate_hash_to_node_nolocks is called.
ModifyBelow(t, k, len) ==
    LET v == Offer(kv[t][k].value.endow, 1)
        found == get_subnode_ref_nolocks(trie[t].root, Truncate(k, len), len)
        n == IF found = Null THEN trie[t].root ELSE found
    IN  /\ Call("modify")
        /\ k \in KeysOf(kv[t])
        /\ Becomes(t, modify_below(trie[t].root, n, k, v), FALSE, [kv[t] EXCEPT ![k].value = v])
        /\ Healed(t, {k})
        /\ UNCHANGED <<raw, failed>>

\* hash; the scheduler splits the range or does not.
Hash(t, split) ==
    LET root == IF trie[t].root.meta.size = 0 THEN trie[t].root
                ELSE IF split THEN HashInPieces(trie[t].root) ELSE compute_hash(trie[t].root)
    IN  /\ Call("hash")
        /\ ~ trie[t].hash_valid
        /\ trie' = [trie EXCEPT ![t] = [root |-> root, hash_valid |-> TRUE,
                                        root_hash |-> get_root_hash(root)]]
        /\ UNCHANGED <<kv, raw, stale, unhashed, failed>>

Clear(t) ==
    /\ Call("clear")
    /\ Becomes(t, make_empty_node, FALSE, EmptyMap)
    /\ Healed(t, Keys)
    /\ raw' = IF t = "other" THEN {} ELSE raw
    /\ UNCHANGED failed

-----------------------------------------------------------------------------
(* Calls on both tries *)

Both(root, otherRoot) == [main |-> NewTrie(root), other |-> NewTrie(otherRoot)]

\* merge_in of the other trie (OverwriteMergeFn), which is empty afterwards.
MergeIn ==
    LET x == trie["main"].root
        o == trie["other"].root
        root == IF x.meta.size = 0 THEN o
                ELSE IF o.meta.size = 0 THEN x ELSE merge_in_(x, o).node
    IN  /\ Call("merge") /\ Clean("other")
        /\ trie' = Both(root, make_empty_node)
        /\ kv' = [main |-> [k \in Keys |-> IF kv["other"][k] # NoEntry THEN kv["other"][k]
                                           ELSE kv["main"][k]],
                  other |-> EmptyMap]
        /\ unhashed' = [main |-> unhashed["main"] \cup unhashed["other"], other |-> {}]
        /\ stale' = {}
        /\ UNCHANGED <<raw, failed>>

\* endow_split of the main trie; the result becomes the other trie.
EndowSplit(t) ==
    LET x == trie["main"].root
        r == endow_split(x, t)
        all == t = x.meta.endow
        out == IF all THEN x ELSE IF r.out = Null THEN make_empty_node ELSE r.out
        rest == IF all THEN make_empty_node ELSE Contracted(r.node)
        K == {l.pfx : l \in ToSet(Leaves(out))}
    IN  /\ Call("split")
        /\ KeysOf(kv["other"]) = {} /\ t \in 1 .. x.meta.endow
        /\ trie' = Both(rest, out)
        /\ kv' = [main |-> Without(kv["main"], K), other |-> Only(kv["main"], K)]
        /\ raw' = IF all \/ K = {} THEN {}
                  ELSE {Leaves(out)[Cardinality(K)].pfx, get_lowest_key(rest)}
        /\ unhashed' = [main |-> unhashed["main"] \ K, other |-> unhashed["main"] \cap K]
        /\ stale' = {}
        /\ UNCHANGED failed

\* clean_singlechild_nodes along the highest key that was split off, or the
\* lowest one that was left.
CleanSinglechildNodes(path) ==
    /\ Call("split")
    /\ path \in raw
    /\ Becomes("other", FullyContracted(clean_singlechild_nodes(trie["other"].root, path)), FALSE,
               kv["other"])
    /\ raw' = {}
    /\ UNCHANGED <<unhashed, failed>>

-----------------------------------------------------------------------------
\* A trie with the offers of m, as inserts leave it in whatever order.
Loaded(m) == FoldSet(LAMBDA k, x : insert_(x, k, Offer(m[k], 0), FALSE).node, make_empty_node, DOMAIN m)

LoadedMap(m) == [k \in Keys |-> IF k \in DOMAIN m THEN Entry(Offer(m[k], 0), FALSE) ELSE NoEntry]

Init == /\ calls \in Families
        /\ \E m \in Loads, o \in Others :
              /\ DOMAIN o = {} \/ (calls \cap {"merge", "split"} = {"merge"})
              /\ trie = Both(Loaded(m), Loaded(o))
              /\ kv = [main |-> LoadedMap(m), other |-> LoadedMap(o)]
        /\ raw = {} /\ stale = {} /\ failed = "none" /\ steps = 0
        /\ unhashed = [t \in Tries |-> {}]
        /\ marking = Null /\ clearing = << >> /\ overlapped = FALSE

\* The other trie is filled, or split off and cleaned up, and merged; the
\* calls on one trie are made on the main one.
Next ==
    \/ \E t \in Tries, k \in Keys :
          \/ \E e \in Endow, rollback \in BOOLEAN : Insert(t, k, e, rollback)
          \/ InsertThrows(t, k)
    \/ \E t \in {"main"}, k \in Keys :
          \/ Mark(t, k) \/ Unmark(t, k) \/ MarkNolocks(t, k)
          \/ PerformDeletion(t, k)
          \/ Modify(t, k)
          \/ \E len \in PrefixLen : ModifyBelow(t, k, len)
    \/ \E t \in {"main"} :
          \/ UpdateAbove(t) \/ ClearLook(t) \/ ClearStore(t)
          \/ PerformMarkedDeletions(t) \/ ClearMarkedDeletions(t)
          \/ DoRollback(t) \/ ClearRollback(t)
          \/ Clear(t)
    \/ \E t \in Tries, split \in BOOLEAN : Hash(t, split)
    \/ MergeIn
    \/ \E e \in 1 .. trie["main"].root.meta.endow : EndowSplit(e)
    \/ \E path \in raw : CleanSinglechildNodes(path)

Spec == Init /\ [][Next]_vars
=============================================================================
