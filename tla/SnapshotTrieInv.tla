-------------------------- MODULE SnapshotTrieInv ---------------------------
(***************************************************************************)
(* The correctness properties of the snapshot trie.                        *)
(***************************************************************************)
EXTENDS SnapshotTrie, TrieDigest

Above(m, n)  == IsPrefixOf(pfx[m], len[m], pfx[n], len[n])
Inside(t)    == pc[t] \in {"ins", "ins_emplace", "ins_cas", "del",
                           "del_exchange", "get"}
Given(t)     == pc[t] = "ready" \/ Inside(t)
CasPending(t) == pc[t] \in {"sub_cas", "ins_cas"}

\* Where thread t is going: the prefix of its subnode, or its key.
Goal(t)    == IF Inside(t) THEN key[t] ELSE qk[t]
GoalLen(t) == IF Inside(t) THEN KeyLen ELSE ql[t]

-----------------------------------------------------------------------------
\* Every variable has its type.
TypeOK ==
    /\ live \in SUBSET Addr /\ gc \in SUBSET Addr /\ done \in SUBSET Addr
    /\ root \in Addr
    /\ pfx \in [Addr -> Key]
    /\ len \in [Addr -> PrefixLen]
    /\ child \in [Addr -> [Branch -> Pointer]]
    /\ val \in [Addr -> Value \cup {NoValue}]
    /\ valid \in [Addr -> BOOLEAN]
    /\ phase \in {"batch", "hash"}
    /\ pc \in [Threads -> {"idle", "sub", "sub_cas", "inv", "ready", "ins",
                 "ins_emplace", "ins_cas", "del", "del_exchange", "get"}]
    /\ qk \in [Threads -> Key]
    /\ ql \in [Threads -> PrefixLen]
    /\ ref \in [Threads -> Pointer]
    /\ key \in [Threads -> Key]
    /\ arg \in [Threads -> Value \cup {NoValue}]
    /\ cur \in [Threads -> Pointer]
    /\ exp \in [Threads -> Pointer]
    /\ res \in [Threads -> Value \cup {NoValue}]

-----------------------------------------------------------------------------
\* A child extends the prefix of its parent by the digit of its slot, and
\* only nodes of the tree are children (try_add_child never publishes a node
\* in a slot that does not belong to it, and nothing keeps a pointer to a
\* node that was given to the collector).
EdgesDescend ==
    \A n \in live, b \in Branch :
        child[n][b] # NULL =>
            /\ child[n][b] \in live
            /\ len[n] < len[child[n][b]]
            /\ Above(n, child[n][b])
            /\ BranchBits(pfx[child[n][b]], len[n]) = b

\* From any node whose prefix fits, following the digits of the key leads to
\* every node of the tree: no split, attach, delete or splice cuts a node off.
PathsComplete ==
    \A n \in live, x \in live :
        Above(n, x) /\ len[n] < len[x] =>
            /\ child[n][Slot(n, pfx[x])] # NULL
            /\ Above(child[n][Slot(n, pfx[x])], x)

\* Two threads that insert the same key or ask for the same subnode at the
\* same time never create two nodes for the same digits.
NoDuplicates ==
    \A n \in live, x \in live : Above(n, x) /\ len[n] = len[x] => n = x

\* The tree is a trie at every step of every call: children sit below their
\* prefix, and concurrent splits, attaches, deletes and splices neither cut a
\* node off nor make one twice.
TreeOK == EdgesDescend /\ PathsComplete /\ NoDuplicates

PointersOK(t) ==
    /\ Given(t) \/ pc[t] = "inv" =>
          /\ ref[t] \in live
          /\ len[ref[t]] = ql[t]
          /\ IsPrefixOf(pfx[ref[t]], len[ref[t]], qk[t], ql[t])
    /\ Inside(t) \/ pc[t] \in Requesting =>
          /\ cur[t] \in live
          /\ IsPrefixOf(pfx[cur[t]], len[cur[t]], Goal(t), GoalLen(t))
    /\ CasPending(t) =>
          /\ len[cur[t]] < GoalLen(t)
          /\ exp[t] # NULL =>
                /\ exp[t] \in live \cup gc
                /\ ~Covers(exp[t], Goal(t), GoalLen(t))

\* The subnode a thread was given is still in the tree and still stands for
\* the prefix that was asked for, whatever the other threads split, delete
\* or insert around it; the node it is at is in the tree and leads to its
\* goal; and no pointer that a compare_exchange expects is ever recycled.
PointersStable == \A t \in Threads : PointersOK(t)

\* None of the trie_assert calls fails: "invalid insertion", "invalid
\* get_or_make_subnode_ref", "invalid invalidate", "found null child in
\* invalidate_hash_to_node", "must exist", "mismatch", "wrong ctor used" and
\* "invalid hash appended".
TrieAssertsHold ==
    /\ \A t \in Threads :
        /\ pc[t] = "ins" => Covers(cur[t], key[t], KeyLen)
        /\ pc[t] = "sub" => Covers(cur[t], qk[t], ql[t])
        /\ pc[t] = "inv" /\ cur[t] # ref[t] =>
              /\ Covers(cur[t], pfx[ref[t]], len[ref[t]])
              /\ child[cur[t]][Slot(cur[t], pfx[ref[t]])] # NULL
        /\ pc[t] = "del" =>
              IF IsLeaf(cur[t]) THEN pfx[cur[t]] = key[t]
              ELSE child[cur[t]][Slot(cur[t], key[t])] # NULL
        /\ CasPending(t) /\ exp[t] # NULL =>
              MatchLen(pfx[exp[t]], len[exp[t]], Goal(t), GoalLen(t)) < KeyLen
    /\ \A n \in Addr :
        phase = "hash" /\ Running(n) /\ ~IsLeaf(n) =>
            \/ \A b \in Branch : Settled(n, b) # NULL => valid[Settled(n, b)]
            \/ /\ len[n] # 0
               /\ \A a, b \in Branch :
                    Settled(n, a) # NULL /\ Settled(n, b) # NULL => a = b

\* The collector never owns a node that is still in use: what do_gc deletes
\* is not in the tree, and does not drag a node of the tree along.
CollectorSafe ==
    /\ gc \cap live = {}
    /\ \A g \in gc, b \in Branch : child[g][b] \notin live

-----------------------------------------------------------------------------
(* The inductive invariant: what PointersStable and TreeOK rest on *)

LocalsOK(t) ==
    /\ Inside(t) => /\ IsPrefixOf(qk[t], ql[t], key[t], KeyLen)
                    /\ ql[t] <= len[cur[t]]
    /\ pc[t] \in {"ins", "ins_emplace", "ins_cas"} => arg[t] \in Value
    /\ pc[t] = "ins_emplace" => IsLeaf(cur[t])
    /\ pc[t] = "del_exchange" => ~IsLeaf(cur[t])
    /\ pc[t] \in {"del", "del_exchange"} => "del" \in Ops
    /\ pc[t] = "del" => HasLeaf(key[t])

RangesOK ==
    Disjoint => \A t, u \in Threads :
        t # u /\ Working(t) /\ Working(u) =>
            ~Comparable(qk[t], ql[t], qk[u], ql[u])

MemoryOK ==
    /\ root \in live
    /\ len[root] = 0
    /\ gc \cap live = {}
    /\ phase = "hash" => AllIdle

\* The inductive invariant: besides the shape of the tree and the threads'
\* pointers, the calls keep to their ranges, a key being deleted is present,
\* and hash_and_normalize runs alone.
IndInv ==
    /\ TypeOK
    /\ TreeOK
    /\ PointersStable
    /\ MemoryOK
    /\ RangesOK
    /\ \A t \in Threads : LocalsOK(t)

-----------------------------------------------------------------------------
\* What the digest of n must be, given its value or its children.
DigestOf(n) ==
    IF IsLeaf(n)
    THEN IF val[n] \in Logical THEN Digest(n, <<val[n]>>) ELSE NoHash
    ELSE Digest(n, [b \in Branch |-> IF child[n][b] = NULL THEN NoHash
                                     ELSE hash[child[n][b]]])

\* A digest marked valid is the digest of what the node holds now, and so are
\* those of its children, unless a get_subnode_ref_and_invalidate_hash call is
\* under way that is going to invalidate it.
HashesFresh ==
    \A n \in live : valid[n] =>
        \/ /\ hash[n] = DigestOf(n)
           /\ \A b \in Kids(n) : valid[child[n][b]]
        \/ \E t \in Threads :
              /\ pc[t] \in Requesting
              /\ IsPrefixOf(pfx[n], len[n], qk[t], ql[t])

\* Once a thread has its subnode, no digest on the way from the root to the
\* node where it works is valid, also when another thread has put a node in
\* between since.
PathInvalidated ==
    \A t \in Threads, n \in live :
        /\ Given(t) /\ Above(n, ref[t]) => ~valid[n]
        /\ pc[t] \in {"ins", "del"} /\ Above(n, cur[t]) /\ n # cur[t] => ~valid[n]
        /\ pc[t] \in {"ins_cas", "ins_emplace", "del_exchange"} /\ Above(n, cur[t])
              => ~valid[n]

-----------------------------------------------------------------------------
(* The inductive invariant of the digests *)

\* What the collector holds is closed: a removed node only points to others.
GarbageClosed ==
    \A g \in gc, b \in Branch : child[g][b] \in gc \cup {NULL}

\* A node that is not marked valid has no digest to be taken for a valid one
\* (a leaf without a logical value is marked without computing one).
DigestsForgotten ==
    /\ DOMAIN hash = Addr
    /\ \A n \in live : ~valid[n] => hash[n] = NoHash

\* invalidate_hash_to_node has invalidated the part of the path above the
\* node it has reached, nodes that were put on it since included.
InvalidationReached ==
    \A t \in Threads, n \in live :
        pc[t] = "inv" /\ Above(n, ref[t]) /\ len[n] < len[cur[t]] => ~valid[n]

\* A map node whose compute_hash_and_normalize call returned without a digest
\* waits for its parent: it has at most one child, which has its digest, and
\* the calls on the nodes above it have not returned.
ReturnsPending ==
    /\ phase = "batch" => done = {}
    /\ \A m \in done :
        /\ m \in live /\ ~valid[m] /\ ~IsLeaf(m) /\ len[m] # 0
        /\ \A a, b \in Kids(m) : a = b
        /\ \A b \in Kids(m) : valid[child[m][b]]
        /\ \A n \in live : Above(n, m) /\ n # m => ~Returned(n)

\* The inductive invariant of the digests, given IndInv.
HashInv ==
    /\ GarbageClosed
    /\ DigestsForgotten
    /\ InvalidationReached
    /\ PathInvalidated
    /\ HashesFresh
    /\ ReturnsPending

-----------------------------------------------------------------------------
\* The map that the trie stores.
View == [k \in Keys |->
            IF HasLeaf(k)
            THEN val[CHOOSE n \in live : IsLeaf(n) /\ pfx[n] = k]
            ELSE NoValue]

\* The digest that hash_and_normalize returns depends only on the keys and
\* values in the trie, not on the history of inserts, deletes, subnode
\* requests and earlier hashes: it is the digest of the compressed trie.
RootHashCanonical ==
    phase = "batch" /\ AllIdle /\ valid[root] =>
        hash[root] = CanonicalDigest(View, NoValue, NoHash)

\* compute_hash_and_normalize leaves a normal form behind it: where a call has
\* returned, the children that are left have a logical value or two children
\* of their own, and a node that has its digest has two children unless it is
\* the root.  Whatever disturbs the form invalidates the digest first, or is
\* going to.
NormalForm ==
    \A n \in live :
        (\A t \in Threads : ~(/\ pc[t] \in Requesting
                              /\ IsPrefixOf(pfx[n], len[n], qk[t], ql[t]))) =>
            /\ Returned(n) => \A b \in Kids(n) : /\ ~Empty(child[n][b])
                                                 /\ ~Single(child[n][b])
            /\ valid[n] /\ len[n] # 0 /\ ~IsLeaf(n) => ~Empty(n) /\ ~Single(n)

\* Prefixes are zero beyond their length, and leaves are for keys of callers.
NodesNamed ==
    /\ \A n \in live :
          /\ pfx[n] = Truncate(pfx[n], len[n])
          /\ IsLeaf(n) => pfx[n] \in Keys
    /\ \A t \in Threads :
          /\ pc[t] \in Requesting => /\ qk[t] = Truncate(qk[t], ql[t])
                                     /\ ql[t] = KeyLen => qk[t] \in Keys
          /\ Inside(t) => key[t] \in Keys

\* The inductive invariant of the normal form, given IndInv and HashInv.
NormalInv == NormalForm /\ NodesNamed

Request(t) ==
    CASE pc[t] \in {"ins", "ins_emplace", "ins_cas"} ->
            [op |-> "ins", key |-> key[t], arg |-> arg[t]]
      [] pc[t] \in {"del", "del_exchange"} -> [op |-> "del", key |-> key[t]]
      [] pc[t] = "get" -> [op |-> "get", key |-> key[t]]
      [] OTHER -> [op |-> "none"]

KV == INSTANCE KVMap WITH kv <- View, req <- [t \in Threads |-> Request(t)]

\* insert, delete_value and get_value are atomic: the trie implements the
\* map, each call taking effect at one compare_exchange, exchange, load or
\* store, however the steps of the threads interleave; and normalisation
\* removes nothing but values that has_value_f rejects.
Linearizable == KV!Spec

\* What the calls under way rely on when they take effect: the key is one of
\* the callers', and, where the threads have their own ranges, a leaf found
\* empty stays empty until the value is emplaced, and the slot that
\* delete_value is going to empty holds the leaf it saw there.
EffectsReady ==
    \A t \in Threads :
        /\ Inside(t) => key[t] \in Keys
        /\ Disjoint /\ pc[t] = "ins_emplace" => val[cur[t]] = NoValue
        /\ pc[t] = "del_exchange" =>
              LET c == child[cur[t]][Slot(cur[t], key[t])]
              IN  c # NULL /\ IsLeaf(c) /\ pfx[c] = key[t]

CallsReturn ==
    \A t \in Threads : (Inside(t) \/ pc[t] \in Requesting) ~> (pc[t] = "ready")
HashReturns == (phase = "hash") ~> (phase = "batch")

\* A started call returns, whatever the other threads do to the slot it is
\* working on; and hash_and_normalize comes to an end.
Progress == CallsReturn /\ HashReturns
=============================================================================
