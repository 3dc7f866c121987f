---------------------------- MODULE SnapshotTrie ----------------------------
(***************************************************************************)
(* The snapshot trie: AtomicMerkleTrie and AtomicMerkleTrieNode            *)
(* (include/mtt/snapshot_trie/atomic_merkle_trie.h).                       *)
(*                                                                         *)
(* Threads work on one shared tree of nodes without locks.  A thread first *)
(* obtains a subnode (get_subnode_ref_and_invalidate_hash), then runs      *)
(* insert, delete_value and get_value on keys below it.  Each step of a    *)
(* thread below is one atomic access to a child pointer, together with the *)
(* reads of constant fields and the store to hash_valid next to it (in a   *)
(* batch every store to hash_valid writes false and nobody reads it, so it *)
(* commutes with the steps of the others).  The node prepared for a        *)
(* compare_exchange that fails is deleted, or left to the collector with   *)
(* children_owned = false; nobody else has seen it, so the model allocates *)
(* a node in the step that publishes it.                                   *)
(*                                                                         *)
(* hash_and_normalize runs alone, when no thread works on the trie.  Its   *)
(* recursion compute_hash_and_normalize is one action per call: the part   *)
(* of the call that follows the recursive calls on the children.           *)
(***************************************************************************)
EXTENDS TriePrefix, FiniteSets

CONSTANTS Threads,
          Addr,            \* addresses of nodes: the bound on memory
          NULL,            \* nullptr
          Keys,            \* the keys the callers use
          Value,           \* values of type value_t
          NoValue,         \* std::nullopt
          Logical,         \* the values for which has_value_f is true
          Merge(_, _),     \* value_merge_fn
          Malloc(_, _, _), \* the address in a set for a node of this prefix
          MaxGarbage,      \* bound: garbage left when a call on the trie starts
          SubnodeLens,     \* lengths used with get_subnode_ref_...
          Ops,             \* the operations they use: "ins", "del", "get"
          Disjoint         \* do the callers give each thread its own range?

ASSUME AddrAssumption == NULL \notin Addr /\ Addr # {}
ASSUME KeysAssumption == Keys \subseteq Key
ASSUME ValueAssumption ==
    /\ NoValue \notin Value
    /\ Logical \subseteq Value
    /\ \A v, w \in Value : Merge(v, w) \in Value
ASSUME SubnodeAssumption == SubnodeLens \subseteq PrefixLen
ASSUME CallersAssumption == Disjoint \in BOOLEAN
ASSUME MallocAssumption ==
    \A A \in SUBSET Addr, p \in Key, l \in PrefixLen :
        A # {} => Malloc(A, p, l) \in A

VARIABLES
    live,     \* addresses of the nodes of the tree
    gc,       \* AtomicMerkleTrieGC: removed nodes that are not yet deleted
    root,     \* AtomicMerkleTrie::root
    pfx, len, \* prefix and prefix_len of a node (const members)
    child,    \* children of a node (all NULL in a leaf)
    val,      \* value of a leaf
    valid,    \* hash_valid
    hash,     \* the digest of a node, meaningful when valid
    phase,    \* "batch", or "hash" while hash_and_normalize runs
    done,     \* nodes whose compute_hash_and_normalize call has returned
    pc,       \* where each thread is
    qk, ql,   \* query_prefix and query_len of its subnode request
    ref,      \* the subnode it was given
    key, arg, \* key and value of the operation it runs
    cur, exp, \* the node it is at, the child pointer it last observed there
    res       \* the result of its last get_value

tree    == <<live, gc, root, pfx, len, child, val>>
hashes  == <<valid, hash, phase, done>>
threads == <<pc, qk, ql, ref, key, arg, cur, exp, res>>
vars    == <<tree, hashes, threads>>

-----------------------------------------------------------------------------
(* Nodes *)

Pointer    == Addr \cup {NULL}
NoChildren == [b \in Branch |-> NULL]
NoHash     == [body |-> NULL]
ZeroKey    == [i \in 1 .. KeyLen |-> 0]

IsLeaf(n) == len[n] = KeyLen

\* The node's whole prefix matches the first m digits of k.
Covers(n, k, m) == MatchLen(pfx[n], len[n], k, m) >= len[n]

\* The child slot of n that leads towards k.
Slot(n, k) == BranchBits(k, len[n])

Free == Addr \ (live \cup gc)

\* A successful try_add_child at slot b of node n for the new node a.
Publish(n, b, a, p, l, kids, v) ==
    /\ live'  = live \cup {a}
    /\ pfx'   = [pfx EXCEPT ![a] = p]
    /\ len'   = [len EXCEPT ![a] = l]
    /\ child' = [child EXCEPT ![a] = kids, ![n][b] = a]
    /\ val'   = [val EXCEPT ![a] = v]
    /\ valid' = [valid EXCEPT ![a] = FALSE]
    /\ hash'  = [hash EXCEPT ![a] = NoHash]
    /\ UNCHANGED <<gc, root, phase, done>>

\* The length of the node that goes between a parent and its child c, and
\* its address.
JoinLen(c, k, m) == MatchLen(pfx[c], len[c], k, m)
SplitAddr(c, k, m) == Malloc(Free, Truncate(k, JoinLen(c, k, m)), JoinLen(c, k, m))

\* A map node for the digits that child c shares with the first m digits of
\* k, with c as its only child: map_node_args_t{k, join_len} followed by
\* set_unique_child.
PublishSplit(n, c, k, m) ==
    LET join == JoinLen(c, k, m)
    IN  Publish(n, Slot(n, k), SplitAddr(c, k, m), Truncate(k, join), join,
                [NoChildren EXCEPT ![BranchBits(pfx[c], join)] = c], NoValue)

\* invalidate_hash.  A digest is only read where hash_valid is asserted, so
\* the model forgets it here.
InvalidateHash(n) ==
    /\ valid' = [valid EXCEPT ![n] = FALSE]
    /\ hash'  = [hash EXCEPT ![n] = NoHash]

\* Thread t has read c in the slot of cur[t] towards (k, m): recurse into c
\* when its prefix matches, otherwise try to replace it.
Observe(t, c, k, m, recurse, replace) ==
    IF c # NULL /\ Covers(c, k, m)
    THEN /\ pc'  = [pc EXCEPT ![t] = recurse]
         /\ cur' = [cur EXCEPT ![t] = c]
         /\ exp' = [exp EXCEPT ![t] = NULL]
    ELSE /\ pc'  = [pc EXCEPT ![t] = replace]
         /\ exp' = [exp EXCEPT ![t] = c]
         /\ UNCHANGED cur

-----------------------------------------------------------------------------
(* get_subnode_ref_and_invalidate_hash *)

Requesting == {"sub", "sub_cas", "inv"}
Working(t) == pc[t] # "idle"
AllIdle == \A t \in Threads : pc[t] = "idle"

\* The bound on memory: a call starts only when there are enough addresses
\* for every thread (a call publishes at most one node per length), so that
\* no thread is stuck inside a call for want of an address.
MemoryReserve == Cardinality(Free) >= KeyLen * Cardinality(Threads)

\* The bound on garbage: when the collector holds more than this, the callers
\* delete nothing more in this batch, and use do_gc or clear before the next.
Tidy == Cardinality(gc) <= MaxGarbage

Comparable(p, l, q, m) == IsPrefixOf(p, l, q, m) \/ IsPrefixOf(q, m, p, l)

\* The callers' contract.  With Disjoint the ranges of two threads never
\* overlap, which is how parallel_batch_value_modify partitions the work.
MayRequest(t, k, l) ==
    Disjoint => \A u \in Threads \ {t} :
                    Working(u) => ~Comparable(k, l, qk[u], ql[u])

\* root->get_or_make_subnode_ref(k, l) is called.
GetSubnode(t, k, l) ==
    /\ phase = "batch"
    /\ pc[t] = "idle"
    /\ MayRequest(t, k, l)
    /\ MemoryReserve
    /\ AllIdle => Tidy
    /\ pc'  = [pc EXCEPT ![t] = "sub"]
    /\ qk'  = [qk EXCEPT ![t] = Truncate(k, l)]
    /\ ql'  = [ql EXCEPT ![t] = l]
    /\ cur' = [cur EXCEPT ![t] = root]
    /\ UNCHANGED <<tree, hashes, ref, key, arg, exp, res>>

\* Mutant: the invalidation starts at the subnode.
GotSubnode_OnlyNode(t, n) ==
    /\ pc'  = [pc EXCEPT ![t] = "inv"]
    /\ ref' = [ref EXCEPT ![t] = n]
    /\ cur' = [cur EXCEPT ![t] = n]
    /\ exp' = [exp EXCEPT ![t] = NULL]
    /\ UNCHANGED <<qk, ql, key, arg, res>>

\* The subnode is n: invalidate_hash_to_node(n) starts at the root.
GotSubnode(t, n) ==
    /\ pc'  = [pc EXCEPT ![t] = "inv"]
    /\ ref' = [ref EXCEPT ![t] = n]
    /\ cur' = [cur EXCEPT ![t] = root]
    /\ exp' = [exp EXCEPT ![t] = NULL]
    /\ UNCHANGED <<qk, ql, key, arg, res>>

SubReturn(t) ==
    /\ pc[t] = "sub"
    /\ len[cur[t]] = ql[t]
    /\ GotSubnode(t, cur[t])
    /\ UNCHANGED <<tree, hashes>>

SubLoad(t) ==
    /\ pc[t] = "sub"
    /\ len[cur[t]] # ql[t]
    /\ Observe(t, child[cur[t]][Slot(cur[t], qk[t])], qk[t], ql[t],
               "sub", "sub_cas")
    /\ UNCHANGED <<tree, hashes, qk, ql, ref, key, arg, res>>

\* The slot is still empty: add an empty leaf or an empty map node.
SubAttach(t) ==
    /\ pc[t] = "sub_cas"
    /\ exp[t] = NULL
    /\ child[cur[t]][Slot(cur[t], qk[t])] = NULL
    /\ Free # {}
    /\ Publish(cur[t], Slot(cur[t], qk[t]), Malloc(Free, qk[t], ql[t]),
               qk[t], ql[t], NoChildren, NoValue)
    /\ GotSubnode(t, Malloc(Free, qk[t], ql[t]))

\* The slot still holds the child seen there: put an intermediate above it
\* and go on from the intermediate.
SubSplit(t) ==
    /\ pc[t] = "sub_cas"
    /\ exp[t] # NULL
    /\ child[cur[t]][Slot(cur[t], qk[t])] = exp[t]
    /\ Free # {}
    /\ PublishSplit(cur[t], exp[t], qk[t], ql[t])
    /\ pc'  = [pc EXCEPT ![t] = "sub"]
    /\ cur' = [cur EXCEPT ![t] = SplitAddr(exp[t], qk[t], ql[t])]
    /\ exp' = [exp EXCEPT ![t] = NULL]
    /\ UNCHANGED <<qk, ql, ref, key, arg, res>>

\* The compare_exchange fails and loads what is in the slot now.
SubRetry(t) ==
    /\ pc[t] = "sub_cas"
    /\ child[cur[t]][Slot(cur[t], qk[t])] # exp[t]
    /\ Observe(t, child[cur[t]][Slot(cur[t], qk[t])], qk[t], ql[t],
               "sub", "sub_cas")
    /\ UNCHANGED <<tree, hashes, qk, ql, ref, key, arg, res>>

\* One call of invalidate_hash_to_node.
InvalidateStep(t) ==
    /\ pc[t] = "inv"
    /\ InvalidateHash(cur[t])
    /\ IF cur[t] = ref[t]
       THEN /\ pc'  = [pc EXCEPT ![t] = "ready"]
            /\ cur' = [cur EXCEPT ![t] = NULL]
       ELSE /\ cur' = [cur EXCEPT ![t] =
                         child[cur[t]][Slot(cur[t], pfx[ref[t]])]]
            /\ UNCHANGED pc
    /\ UNCHANGED <<tree, phase, done, qk, ql, ref, key, arg, exp, res>>

\* The thread is finished with its subnode and drops the pointer.
Finish(t) ==
    /\ pc[t] = "ready"
    /\ pc'  = [pc EXCEPT ![t] = "idle"]
    /\ qk'  = [qk EXCEPT ![t] = ZeroKey]
    /\ ql'  = [ql EXCEPT ![t] = 0]
    /\ ref' = [ref EXCEPT ![t] = NULL]
    /\ res' = [res EXCEPT ![t] = NoValue]
    /\ UNCHANGED <<tree, hashes, key, arg, cur, exp>>

-----------------------------------------------------------------------------
(* insert<value_merge_fn>, called on the thread's subnode *)

InRange(t, k) == IsPrefixOf(qk[t], ql[t], k, KeyLen)

Call(t, op, k) ==
    /\ op \in Ops
    /\ pc[t] = "ready"
    /\ InRange(t, k)
    /\ MemoryReserve
    /\ pc'  = [pc EXCEPT ![t] = op]
    /\ key' = [key EXCEPT ![t] = k]
    /\ cur' = [cur EXCEPT ![t] = ref[t]]

Return(t) ==
    /\ pc'  = [pc EXCEPT ![t] = "ready"]
    /\ cur' = [cur EXCEPT ![t] = NULL]
    /\ exp' = [exp EXCEPT ![t] = NULL]
    /\ key' = [key EXCEPT ![t] = ZeroKey]
    /\ arg' = [arg EXCEPT ![t] = NoValue]

StartInsert(t, k, v) ==
    /\ Call(t, "ins", k)
    /\ arg' = [arg EXCEPT ![t] = v]
    /\ UNCHANGED <<tree, hashes, qk, ql, ref, exp, res>>

\* At a leaf that has a value: value_merge_fn, atomic by the callers'
\* contract.
InsertMerge(t) ==
    /\ pc[t] = "ins"
    /\ IsLeaf(cur[t])
    /\ val[cur[t]] # NoValue
    /\ InvalidateHash(cur[t])
    /\ val' = [val EXCEPT ![cur[t]] = Merge(@, arg[t])]
    /\ Return(t)
    /\ UNCHANGED <<live, gc, root, pfx, len, child, phase, done,
                   qk, ql, ref, res>>

\* At a leaf without a value: the test and the emplace are two accesses.
InsertFoundEmpty(t) ==
    /\ pc[t] = "ins"
    /\ IsLeaf(cur[t])
    /\ val[cur[t]] = NoValue
    /\ InvalidateHash(cur[t])
    /\ pc' = [pc EXCEPT ![t] = "ins_emplace"]
    /\ UNCHANGED <<tree, phase, done, qk, ql, ref, key, arg, cur, exp,
                   res>>

InsertEmplace(t) ==
    /\ pc[t] = "ins_emplace"
    /\ val' = [val EXCEPT ![cur[t]] = arg[t]]
    /\ Return(t)
    /\ UNCHANGED <<live, gc, root, pfx, len, child, hashes,
                   qk, ql, ref, res>>

\* Mutant: the node passed on the way down keeps its digest.
InsertLoad_KeepHash(t) ==
    /\ pc[t] = "ins"
    /\ ~IsLeaf(cur[t])
    /\ Observe(t, child[cur[t]][Slot(cur[t], key[t])], key[t], KeyLen,
               "ins", "ins_cas")
    /\ UNCHANGED <<tree, hashes, qk, ql, ref, key, arg, res>>

InsertLoad(t) ==
    /\ pc[t] = "ins"
    /\ ~IsLeaf(cur[t])
    /\ InvalidateHash(cur[t])
    /\ Observe(t, child[cur[t]][Slot(cur[t], key[t])], key[t], KeyLen,
               "ins", "ins_cas")
    /\ UNCHANGED <<tree, phase, done, qk, ql, ref, key, arg, res>>

\* Mutant: a plain store instead of the compare_exchange.
InsertAttach_Store(t) ==
    /\ pc[t] = "ins_cas"
    /\ exp[t] = NULL
    /\ Free # {}
    /\ Publish(cur[t], Slot(cur[t], key[t]), Malloc(Free, key[t], KeyLen),
               key[t], KeyLen, NoChildren, arg[t])
    /\ Return(t)
    /\ UNCHANGED <<qk, ql, ref, res>>

\* The slot is still empty: add the leaf, with its value.
InsertAttach(t) ==
    /\ pc[t] = "ins_cas"
    /\ exp[t] = NULL
    /\ child[cur[t]][Slot(cur[t], key[t])] = NULL
    /\ Free # {}
    /\ Publish(cur[t], Slot(cur[t], key[t]), Malloc(Free, key[t], KeyLen),
               key[t], KeyLen, NoChildren, arg[t])
    /\ Return(t)
    /\ UNCHANGED <<qk, ql, ref, res>>

InsertSplit(t) ==
    /\ pc[t] = "ins_cas"
    /\ exp[t] # NULL
    /\ child[cur[t]][Slot(cur[t], key[t])] = exp[t]
    /\ Free # {}
    /\ PublishSplit(cur[t], exp[t], key[t], KeyLen)
    /\ pc'  = [pc EXCEPT ![t] = "ins"]
    /\ cur' = [cur EXCEPT ![t] = SplitAddr(exp[t], key[t], KeyLen)]
    /\ exp' = [exp EXCEPT ![t] = NULL]
    /\ UNCHANGED <<qk, ql, ref, key, arg, res>>

\* Mutant: a failed compare_exchange counts as an insertion.
InsertRetry_GiveUp(t) ==
    /\ pc[t] = "ins_cas"
    /\ child[cur[t]][Slot(cur[t], key[t])] # exp[t]
    /\ Return(t)
    /\ UNCHANGED <<tree, hashes, qk, ql, ref, res>>

\* Mutant: a failed compare_exchange does not reload the slot.
InsertRetry_Stale(t) ==
    /\ pc[t] = "ins_cas"
    /\ child[cur[t]][Slot(cur[t], key[t])] # exp[t]
    /\ UNCHANGED vars

InsertRetry(t) ==
    /\ pc[t] = "ins_cas"
    /\ child[cur[t]][Slot(cur[t], key[t])] # exp[t]
    /\ Observe(t, child[cur[t]][Slot(cur[t], key[t])], key[t], KeyLen,
               "ins", "ins_cas")
    /\ UNCHANGED <<tree, hashes, qk, ql, ref, key, arg, res>>

-----------------------------------------------------------------------------
(* delete_value, called on the thread's subnode *)

Below(n) == {x \in live : IsPrefixOf(pfx[n], len[n], pfx[x], len[x])}
HasLeaf(k) == \E n \in live : IsLeaf(n) /\ pfx[n] = k

\* Every node goes back to its initial contents when its memory is released.
Release(A) ==
    /\ pfx'   = [a \in Addr |-> IF a \in A THEN ZeroKey ELSE pfx[a]]
    /\ len'   = [a \in Addr |-> IF a \in A THEN 0 ELSE len[a]]
    /\ child' = [a \in Addr |-> IF a \in A THEN NoChildren ELSE child[a]]
    /\ val'   = [a \in Addr |-> IF a \in A THEN NoValue ELSE val[a]]
    /\ valid' = [a \in Addr |-> IF a \in A THEN FALSE ELSE valid[a]]
    /\ hash'  = [a \in Addr |-> IF a \in A THEN NoHash ELSE hash[a]]

\* The callers delete keys that exist: delete_value asserts "must exist".
StartDelete(t, k) ==
    /\ HasLeaf(k)
    /\ Tidy
    /\ Call(t, "del", k)
    /\ UNCHANGED <<tree, hashes, qk, ql, ref, arg, exp, res>>

\* Mutant: the value is left in the leaf.
DeleteReset_KeepValue(t) ==
    /\ pc[t] = "del"
    /\ IsLeaf(cur[t])
    /\ InvalidateHash(cur[t])
    /\ Return(t)
    /\ UNCHANGED <<tree, phase, done, qk, ql, ref, res>>

\* The subnode is the leaf itself: value.reset().
DeleteReset(t) ==
    /\ pc[t] = "del"
    /\ IsLeaf(cur[t])
    /\ InvalidateHash(cur[t])
    /\ val' = [val EXCEPT ![cur[t]] = NoValue]
    /\ Return(t)
    /\ UNCHANGED <<live, gc, root, pfx, len, child, phase, done,
                   qk, ql, ref, res>>

\* Look at the child towards the key: the leaf to remove, or a node to
\* recurse into.
DeleteLoad(t) ==
    LET c == child[cur[t]][Slot(cur[t], key[t])]
    IN  /\ pc[t] = "del"
        /\ ~IsLeaf(cur[t])
        /\ c # NULL
        /\ InvalidateHash(cur[t])
        /\ IF IsLeaf(c) /\ pfx[c] = key[t]
           THEN /\ pc' = [pc EXCEPT ![t] = "del_exchange"]
                /\ UNCHANGED cur
           ELSE /\ cur' = [cur EXCEPT ![t] = c]
                /\ UNCHANGED pc
        /\ UNCHANGED <<tree, phase, done, qk, ql, ref, key, arg, exp, res>>

\* exchange(nullptr): whatever is in the slot now is left to the collector,
\* with everything below it.
DeleteExchange(t) ==
    LET b == Slot(cur[t], key[t])
        c == child[cur[t]][b]
    IN  /\ pc[t] = "del_exchange"
        /\ child' = [child EXCEPT ![cur[t]][b] = NULL]
        /\ IF c = NULL
           THEN UNCHANGED <<live, gc>>
           ELSE /\ live' = live \ Below(c)
                /\ gc'   = gc \cup Below(c)
        /\ Return(t)
        /\ UNCHANGED <<root, pfx, len, val, hashes, qk, ql, ref, res>>

-----------------------------------------------------------------------------
(* get_value, called on the thread's subnode *)

StartGet(t, k) ==
    /\ Call(t, "get", k)
    /\ res' = [res EXCEPT ![t] = NoValue]
    /\ UNCHANGED <<tree, hashes, qk, ql, ref, arg, exp>>

\* A leaf: its value, if it has one.
GetLeaf(t) ==
    /\ pc[t] = "get"
    /\ IsLeaf(cur[t])
    /\ res' = [res EXCEPT ![t] = val[cur[t]]]
    /\ Return(t)
    /\ UNCHANGED <<tree, hashes, qk, ql, ref>>

\* A map node: no child on the way to the key, or one for other keys (the
\* prefix of the child is constant, so the test may come with the load).
GetLoad(t) ==
    LET c == child[cur[t]][Slot(cur[t], key[t])]
    IN  /\ pc[t] = "get"
        /\ ~IsLeaf(cur[t])
        /\ IF c # NULL /\ Covers(c, key[t], KeyLen)
           THEN /\ cur' = [cur EXCEPT ![t] = c]
                /\ UNCHANGED <<pc, exp, key, arg, res>>
           ELSE /\ res' = [res EXCEPT ![t] = NoValue]
                /\ Return(t)
        /\ UNCHANGED <<tree, hashes, qk, ql, ref>>

-----------------------------------------------------------------------------
(* hash_and_normalize *)

Kids(n) == {b \in Branch : child[n][b] # NULL}

\* Mutant: has_opt_value in place of has_logical_value.
Empty_Opt(c) == IF IsLeaf(c) THEN val[c] = NoValue ELSE Kids(c) = {}

\* get_num_children() = 0: a leaf without a logical value, or a map node
\* whose children are all gone.
Empty(c)  == IF IsLeaf(c) THEN val[c] \notin Logical ELSE Kids(c) = {}
\* get_num_children() = 1, and extract_singlechild().
Single(c) == ~IsLeaf(c) /\ \E b \in Branch : Kids(c) = {b}
OnlyChild(c) == child[c][CHOOSE b \in Branch : Kids(c) = {b}]

\* Mutant: a node with one child stays.
Settled_NoSplice(n, b) ==
    IF child[n][b] # NULL /\ Empty(child[n][b]) THEN NULL ELSE child[n][b]

\* Mutant: a node with one child is erased like an empty one.
Settled_EraseSingle(n, b) ==
    LET c == child[n][b]
    IN  IF c # NULL /\ (Empty(c) \/ Single(c)) THEN NULL ELSE c

\* What the loop over the children of n leaves in slot b.
Settled(n, b) ==
    LET c == child[n][b]
    IN  CASE c = NULL  -> NULL
          [] c # NULL /\ Empty(c)  -> NULL
          [] c # NULL /\ Single(c) -> OnlyChild(c)
          [] OTHER -> c

\* The children that the loop frees.
Dropped(n) == {c \in live : /\ \E b \in Branch : child[n][b] = c
                            /\ Empty(c) \/ Single(c)}

\* Mutant: extract_singlechild leaves the pointer in the node it frees.
ChildrenAfter_NoExtract(n) ==
    [child EXCEPT ![n] = [b \in Branch |-> Settled(n, b)]]

\* The children pointers after the loop: extract_singlechild takes the only
\* child out of the node that is freed.
ChildrenAfter(n) ==
    [a \in Addr |-> CASE a = n -> [b \in Branch |-> Settled(n, b)]
                      [] a # n /\ a \in Dropped(n) -> NoChildren
                      [] OTHER -> child[a]]

\* The calls of compute_hash_and_normalize on the children of n have
\* returned, and the one on n has not.
Returned(c) == valid[c] \/ c \in done
Running(n) ==
    /\ n \in live
    /\ ~Returned(n)
    /\ \A m \in live : IsPrefixOf(pfx[m], len[m], pfx[n], len[n]) => ~valid[m]
    /\ \A b \in Kids(n) : Returned(child[n][b])

Digest(n, body) == [pfx |-> pfx[n], len |-> len[n], body |-> body]

\* hash_and_normalize is called while no thread works on the trie.
HashStart ==
    /\ phase = "batch"
    /\ AllIdle
    /\ Tidy
    /\ ~valid[root]
    /\ phase' = "hash"
    /\ UNCHANGED <<tree, valid, hash, done, threads>>

\* A leaf: its digest, or only hash_valid when there is no logical value.
HashLeaf(n) ==
    /\ phase = "hash"
    /\ Running(n)
    /\ IsLeaf(n)
    /\ valid' = [valid EXCEPT ![n] = TRUE]
    /\ hash'  = [hash EXCEPT ![n] = IF val[n] \in Logical
                                    THEN Digest(n, <<val[n]>>) ELSE @]
    /\ UNCHANGED <<tree, phase, done, threads>>

\* A map node: settle the children; hash unless the parent is going to
\* remove this node.  The call on the root ends hash_and_normalize.
HashMap(n) ==
    LET kids == [b \in Branch |-> Settled(n, b)]
        keep == \/ len[n] = 0
                \/ \E a, b \in Branch : a # b /\ kids[a] # NULL /\ kids[b] # NULL
        body == [b \in Branch |-> IF kids[b] = NULL THEN NoHash ELSE hash[kids[b]]]
    IN  /\ phase = "hash"
        /\ Running(n)
        /\ ~IsLeaf(n)
        /\ child' = ChildrenAfter(n)
        /\ live' = live \ Dropped(n)
        /\ gc'   = gc \cup Dropped(n)
        /\ IF keep
           THEN /\ valid' = [valid EXCEPT ![n] = TRUE]
                /\ hash'  = [hash EXCEPT ![n] = Digest(n, body)]
                /\ done'  = done \ Dropped(n)
           ELSE /\ done'  = (done \ Dropped(n)) \cup {n}
                /\ UNCHANGED <<valid, hash>>
        /\ phase' = IF n = root THEN "batch" ELSE "hash"
        /\ UNCHANGED <<root, pfx, len, val, threads>>

-----------------------------------------------------------------------------
(* do_gc and clear, called while no thread works on the trie *)

DoGC ==
    /\ phase = "batch"
    /\ AllIdle
    /\ gc # {}
    /\ Release(gc)
    /\ gc' = {}
    /\ UNCHANGED <<live, root, phase, done, threads>>

\* The old root goes to the collector and takes its children with it.  No
\* pointer to the old nodes is left, so any address will do for the new root.
Clear ==
    /\ phase = "batch"
    /\ AllIdle
    /\ live # {root}
    /\ Release(Addr)
    /\ root' = Malloc(Addr, ZeroKey, 0)
    /\ live' = {root'}
    /\ gc'   = {}
    /\ UNCHANGED <<phase, done, threads>>

-----------------------------------------------------------------------------
\* The constructor makes an empty root.
Init ==
    /\ root = Malloc(Addr, ZeroKey, 0)
    /\ live = {root}
    /\ gc = {}
    /\ pfx = [a \in Addr |-> ZeroKey]
    /\ len = [a \in Addr |-> 0]
    /\ child = [a \in Addr |-> NoChildren]
    /\ val = [a \in Addr |-> NoValue]
    /\ valid = [a \in Addr |-> FALSE]
    /\ hash = [a \in Addr |-> NoHash]
    /\ phase = "batch"
    /\ done = {}
    /\ pc = [t \in Threads |-> "idle"]
    /\ qk = [t \in Threads |-> ZeroKey]
    /\ ql = [t \in Threads |-> 0]
    /\ ref = [t \in Threads |-> NULL]
    /\ key = [t \in Threads |-> ZeroKey]
    /\ arg = [t \in Threads |-> NoValue]
    /\ cur = [t \in Threads |-> NULL]
    /\ exp = [t \in Threads |-> NULL]
    /\ res = [t \in Threads |-> NoValue]

\* The steps of a call that has started.
Proceed(t) ==
    \/ SubReturn(t) \/ SubLoad(t) \/ SubAttach(t) \/ SubSplit(t) \/ SubRetry(t)
    \/ InvalidateStep(t)
    \/ InsertMerge(t) \/ InsertFoundEmpty(t) \/ InsertEmplace(t)
    \/ InsertLoad(t) \/ InsertAttach(t) \/ InsertSplit(t) \/ InsertRetry(t)
    \/ DeleteReset(t) \/ DeleteLoad(t) \/ DeleteExchange(t)
    \/ GetLeaf(t) \/ GetLoad(t)

\* The calls of the users of the trie.
Start(t) ==
    \/ \E k \in Keys, l \in SubnodeLens : GetSubnode(t, k, l)
    \/ \E k \in Keys, v \in Value : StartInsert(t, k, v)
    \/ \E k \in Keys : StartDelete(t, k) \/ StartGet(t, k)
    \/ Finish(t)

HashStep == \E n \in Addr : HashLeaf(n) \/ HashMap(n)

Next ==
    \/ \E t \in Threads : Start(t) \/ Proceed(t)
    \/ HashStart \/ HashStep
    \/ DoGC \/ Clear

Spec == Init /\ [][Next]_vars

\* A thread that runs keeps running.
FairSpec ==
    /\ Spec
    /\ \A t \in Threads : WF_vars(Proceed(t))
    /\ WF_vars(HashStep)
=============================================================================
