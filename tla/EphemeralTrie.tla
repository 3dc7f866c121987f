--------------------------- MODULE EphemeralTrie ----------------------------
(***************************************************************************)
(* The ephemeral trie: AtomicTrie, AtomicTrieNode and AtomicChildrenMap    *)
(* (include/mtt/ephemeral_trie/atomic_ephemeral_trie.h).                   *)
(*                                                                         *)
(* A child slot is one 64-bit word: the handle of the child in the upper   *)
(* half, the number of keys below it in the lower half.  insert publishes  *)
(* nodes by compare_exchange on whole words; when it has made a new leaf,  *)
(* bump_size walks down from the root once more and adds one to the word   *)
(* of every slot on the way.  Each step of a thread is one access to a     *)
(* word.  The node prepared for a compare_exchange that fails is seen by   *)
(* nobody else, so the model takes a handle (see EphemeralAllocator) in    *)
(* the step that publishes it.                                             *)
(*                                                                         *)
(* hash runs when no thread inserts; its workers hash disjoint subtries in *)
(* parallel and the caller the rest.  Each HashNode step is the part of a  *)
(* compute_hash call that follows the recursive calls, in any order that   *)
(* hashes children before their parent.                                    *)
(***************************************************************************)
EXTENDS TriePrefix, FiniteSets

CONSTANTS Threads,
          Addr,            \* handles of nodes, and the root
          Root,            \* the member root of the trie
          NULL,            \* the handle UINT32_MAX
          Keys,            \* the keys the callers use
          Value,           \* values of type ValueType
          NoValue,         \* a node without a value
          Inserts,         \* the pairs of key and value that are inserted
          Merge(_, _),     \* InsertFn::value_insert
          MovedFrom(_),    \* what std::move leaves behind in a value
          Malloc(_, _, _), \* the handle in a set for a node of this prefix
          Ops              \* the operations that are used: "ins", "get"

ASSUME AddrAssumption == NULL \notin Addr /\ Root \in Addr
ASSUME FiniteAssumption == IsFiniteSet(Threads) /\ IsFiniteSet(Branch)
ASSUME KeysAssumption == Keys \subseteq Key
ASSUME ValueAssumption ==
    /\ NoValue \notin Value
    /\ Inserts \subseteq Keys \X Value
    /\ \A v, w \in Value : Merge(v, w) \in Value
    /\ \A v \in Value : MovedFrom(v) \in Value
ASSUME MallocAssumption ==
    \A A \in SUBSET Addr, p \in Key, l \in PrefixLen :
        A # {} => Malloc(A, p, l) \in A

VARIABLES
    live,     \* the nodes of the tree
    pfx, len, \* prefix and prefix_len of a node
    word,     \* children: the word in each slot of a node
    val,      \* value of a leaf
    hash,     \* metadata.hash of a node, NoHash when not hash_valid
    phase,    \* "batch", or "hash" while hash runs
    hashed,   \* AtomicTrie::hashed
    pc,       \* where each thread is
    key, arg, \* key and value object of the call it runs
    given,    \* what the caller of insert put into the value object
    cur, exp, \* the node it is at, the word it last observed there
    res       \* the result of its last get_value

tree    == <<live, pfx, len, word, val>>
hashes  == <<hash, phase, hashed>>
threads == <<pc, key, arg, given, cur, exp, res>>
vars    == <<tree, hashes, threads>>

-----------------------------------------------------------------------------
(* Nodes *)

Pointer   == Addr \cup {NULL}
Word(p, s) == [ptr |-> p, sz |-> s]
EmptyWord == Word(NULL, 0)
NoChildren == [b \in Branch |-> EmptyWord]
NoHash    == [body |-> NULL]
ZeroKey   == [i \in 1 .. KeyLen |-> 0]

IsLeaf(n) == len[n] = KeyLen

\* insert_can_recurse: the node's whole prefix matches the key.
Covers(n, k) == MatchLen(pfx[n], len[n], k, KeyLen) >= len[n]

Slot(n, k) == BranchBits(k, len[n])
At(n, k)   == word[n][Slot(n, k)]

\* The bound on memory: the handles that are left.  A thread that needs one
\* when there is none does not go on (the allocator throws).
Free == Addr \ live

AllIdle == \A t \in Threads : pc[t] = "idle"

\* try_set succeeds at slot b of node n: the word w for the new node w.ptr.
Publish(n, b, w, p, l, kids, v) ==
    /\ live' = live \cup {w.ptr}
    /\ pfx'  = [pfx EXCEPT ![w.ptr] = p]
    /\ len'  = [len EXCEPT ![w.ptr] = l]
    /\ word' = [word EXCEPT ![w.ptr] = kids, ![n][b] = w]
    /\ val'  = [val EXCEPT ![w.ptr] = v]
    /\ hash' = [hash EXCEPT ![w.ptr] = NoHash]
    /\ UNCHANGED <<phase, hashed>>

\* Thread t has read word w in the slot of cur[t] towards its key: go on at
\* the child when its prefix matches, otherwise try to replace the word.
Observe(t, w) ==
    IF w.ptr # NULL /\ Covers(w.ptr, key[t])
    THEN /\ pc'  = [pc EXCEPT ![t] = "ins"]
         /\ cur' = [cur EXCEPT ![t] = w.ptr]
         /\ exp' = [exp EXCEPT ![t] = EmptyWord]
    ELSE /\ pc'  = [pc EXCEPT ![t] = "ins_cas"]
         /\ exp' = [exp EXCEPT ![t] = w]
         /\ UNCHANGED cur

-----------------------------------------------------------------------------
(* insert *)

Call(t, op, k) ==
    /\ op \in Ops
    /\ phase = "batch"
    /\ pc[t] = "idle"
    /\ pc'  = [pc EXCEPT ![t] = op]
    /\ key' = [key EXCEPT ![t] = k]
    /\ cur' = [cur EXCEPT ![t] = Root]

Return(t) ==
    /\ pc'  = [pc EXCEPT ![t] = "idle"]
    /\ cur' = [cur EXCEPT ![t] = NULL]
    /\ exp' = [exp EXCEPT ![t] = EmptyWord]
    /\ key' = [key EXCEPT ![t] = ZeroKey]
    /\ arg' = [arg EXCEPT ![t] = NoValue]
    /\ given' = [given EXCEPT ![t] = NoValue]

\* "cannot insert after hashing".
StartInsert(t, k, v) ==
    /\ ~hashed
    /\ Call(t, "ins", k)
    /\ arg' = [arg EXCEPT ![t] = v]
    /\ given' = [given EXCEPT ![t] = v]
    /\ res' = [res EXCEPT ![t] = NoValue]
    /\ UNCHANGED <<tree, hashes, exp>>

\* At a leaf: value_insert, threadsafe by the callers' contract.  insert
\* returns false.
InsertValue(t) ==
    /\ pc[t] = "ins"
    /\ IsLeaf(cur[t])
    /\ val' = [val EXCEPT ![cur[t]] = Merge(@, arg[t])]
    /\ Return(t)
    /\ UNCHANGED <<live, pfx, len, word, hashes, res>>

InsertLoad(t) ==
    /\ pc[t] = "ins"
    /\ ~IsLeaf(cur[t])
    /\ Observe(t, At(cur[t], key[t]))
    /\ UNCHANGED <<tree, hashes, key, arg, given, res>>

LeafAddr(k) == Malloc(Free, k, KeyLen)

\* set_as_new_value_leaf: value_insert into a fresh value leaves v there.  The
\* leaf is not counted yet.
PublishLeaf(n, k, v) ==
    Publish(n, Slot(n, k), Word(LeafAddr(k), 0), k, KeyLen, NoChildren, v)

\* The slot is still empty: add the leaf.  insert returns true, and bump_size
\* starts at the root.
InsertAttach(t) ==
    /\ pc[t] = "ins_cas"
    /\ exp[t].ptr = NULL
    /\ At(cur[t], key[t]) = exp[t]
    /\ Free # {}
    /\ PublishLeaf(cur[t], key[t], arg[t])
    /\ pc'  = [pc EXCEPT ![t] = "bump"]
    /\ cur' = [cur EXCEPT ![t] = Root]
    /\ UNCHANGED <<key, arg, given, exp, res>>

JoinLen(c, k) == MatchLen(pfx[c], len[c], k, KeyLen)
SplitAddr(c, k) == Malloc(Free, Truncate(k, JoinLen(c, k)), JoinLen(c, k))

\* set_as_new_branch_node: the old word becomes the only child of the new
\* node, and the new word takes over its size.
PublishSplit(n, w, k) ==
    LET join == JoinLen(w.ptr, k)
    IN  Publish(n, Slot(n, k), Word(SplitAddr(w.ptr, k), w.sz),
                Truncate(k, join), join,
                [NoChildren EXCEPT ![BranchBits(pfx[w.ptr], join)] = w], NoValue)

\* Mutant: the handles are compared, not the whole words.
InsertSplit_PtrOnly(t) ==
    /\ pc[t] = "ins_cas"
    /\ exp[t].ptr # NULL
    /\ At(cur[t], key[t]).ptr = exp[t].ptr
    /\ Free # {}
    /\ PublishSplit(cur[t], exp[t], key[t])
    /\ pc'  = [pc EXCEPT ![t] = "ins"]
    /\ cur' = [cur EXCEPT ![t] = SplitAddr(exp[t].ptr, key[t])]
    /\ exp' = [exp EXCEPT ![t] = EmptyWord]
    /\ UNCHANGED <<key, arg, given, res>>

\* The slot still holds the word: put the new node there, and insert below it.
InsertSplit(t) ==
    /\ pc[t] = "ins_cas"
    /\ exp[t].ptr # NULL
    /\ At(cur[t], key[t]) = exp[t]
    /\ Free # {}
    /\ PublishSplit(cur[t], exp[t], key[t])
    /\ pc'  = [pc EXCEPT ![t] = "ins"]
    /\ cur' = [cur EXCEPT ![t] = SplitAddr(exp[t].ptr, key[t])]
    /\ exp' = [exp EXCEPT ![t] = EmptyWord]
    /\ UNCHANGED <<key, arg, given, res>>

\* Mutant: the word that made the compare_exchange fail is not looked at.
InsertRetry_Stale(t) ==
    /\ pc[t] = "ins_cas"
    /\ arg' = [arg EXCEPT ![t] = IF exp[t].ptr = NULL THEN MovedFrom(@) ELSE @]
    /\ UNCHANGED <<tree, hashes, pc, key, given, cur, exp, res>>

\* The compare_exchange fails, because the word has changed or spuriously
\* (compare_exchange_weak), and loads the word there is now.  A value that
\* was moved into the leaf prepared for an empty slot stays there.
InsertRetry(t) ==
    /\ pc[t] = "ins_cas"
    /\ Observe(t, At(cur[t], key[t]))
    /\ arg' = [arg EXCEPT ![t] = IF exp[t].ptr = NULL THEN MovedFrom(@) ELSE @]
    /\ UNCHANGED <<tree, hashes, key, given, res>>

-----------------------------------------------------------------------------
(* bump_size *)

BumpReturn(t) ==
    /\ pc[t] = "bump"
    /\ IsLeaf(cur[t])
    /\ Return(t)
    /\ UNCHANGED <<tree, hashes, res>>

BumpLoad(t) ==
    /\ pc[t] = "bump"
    /\ ~IsLeaf(cur[t])
    /\ pc'  = [pc EXCEPT ![t] = "bump_cas"]
    /\ exp' = [exp EXCEPT ![t] = At(cur[t], key[t])]
    /\ UNCHANGED <<tree, hashes, key, arg, given, cur, res>>

\* Mutant: a store instead of the compare_exchange.
BumpSet_Store(t) ==
    /\ pc[t] = "bump_cas"
    /\ word' = [word EXCEPT ![cur[t]][Slot(cur[t], key[t])] =
                    Word(exp[t].ptr, exp[t].sz + 1)]
    /\ pc'   = [pc EXCEPT ![t] = "bump"]
    /\ cur'  = [cur EXCEPT ![t] = exp[t].ptr]
    /\ exp'  = [exp EXCEPT ![t] = EmptyWord]
    /\ UNCHANGED <<live, pfx, len, val, hashes, key, arg, given, res>>

BumpSet(t) ==
    /\ pc[t] = "bump_cas"
    /\ At(cur[t], key[t]) = exp[t]
    /\ word' = [word EXCEPT ![cur[t]][Slot(cur[t], key[t])] =
                    Word(exp[t].ptr, exp[t].sz + 1)]
    /\ pc'   = [pc EXCEPT ![t] = "bump"]
    /\ cur'  = [cur EXCEPT ![t] = exp[t].ptr]
    /\ exp'  = [exp EXCEPT ![t] = EmptyWord]
    /\ UNCHANGED <<live, pfx, len, val, hashes, key, arg, given, res>>

BumpRetry(t) ==
    /\ pc[t] = "bump_cas"
    /\ exp' = [exp EXCEPT ![t] = At(cur[t], key[t])]
    /\ UNCHANGED <<tree, hashes, pc, key, arg, given, cur, res>>

-----------------------------------------------------------------------------
(* get_value *)

StartGet(t, k) ==
    /\ Call(t, "get", k)
    /\ res' = [res EXCEPT ![t] = NoValue]
    /\ UNCHANGED <<tree, hashes, arg, given, exp>>

GetLeaf(t) ==
    /\ pc[t] = "get"
    /\ IsLeaf(cur[t])
    /\ res' = [res EXCEPT ![t] = val[cur[t]]]
    /\ Return(t)
    /\ UNCHANGED <<tree, hashes>>

\* Mutant: the prefix of the child is not compared with the key.
GetLoad_NoMatch(t) ==
    LET c == At(cur[t], key[t]).ptr
    IN  /\ pc[t] = "get"
        /\ ~IsLeaf(cur[t])
        /\ IF c # NULL
           THEN /\ cur' = [cur EXCEPT ![t] = c]
                /\ UNCHANGED <<pc, key, arg, given, exp>>
           ELSE Return(t)
        /\ UNCHANGED <<tree, hashes, res>>

\* No child, or a child with another prefix: there is no such key.
GetLoad(t) ==
    LET c == At(cur[t], key[t]).ptr
    IN  /\ pc[t] = "get"
        /\ ~IsLeaf(cur[t])
        /\ IF c # NULL /\ Covers(c, key[t])
           THEN /\ cur' = [cur EXCEPT ![t] = c]
                /\ UNCHANGED <<pc, key, arg, given, exp>>
           ELSE Return(t)
        /\ UNCHANGED <<tree, hashes, res>>

-----------------------------------------------------------------------------
(* hash and clear, called while no thread works on the trie *)

Kids(n) == {b \in Branch : word[n][b].ptr # NULL}

HashStart ==
    /\ phase = "batch"
    /\ AllIdle
    /\ ~hashed
    /\ phase' = "hash"
    /\ UNCHANGED <<tree, hash, hashed, threads>>

Digest(n, body) == [pfx |-> pfx[n], len |-> len[n], body |-> body]

\* What compute_hash puts into metadata.hash of node n.
HashOf(n) ==
    Digest(n, IF IsLeaf(n) THEN <<val[n]>>
              ELSE [b \in Branch |-> IF b \in Kids(n) THEN hash[word[n][b].ptr]
                                     ELSE NoHash])

Hashable(n) ==
    /\ n \in live
    /\ hash[n] = NoHash
    /\ IsLeaf(n) \/ \A b \in Kids(n) : hash[word[n][b].ptr] # NoHash

\* The part of compute_hash on node n that follows the calls on its children;
\* a node whose digest is valid is left alone.
HashNode(n) ==
    /\ phase = "hash"
    /\ Hashable(n)
    /\ hash' = [hash EXCEPT ![n] = HashOf(n)]
    /\ UNCHANGED <<tree, phase, hashed, threads>>

\* hash_serial returns once the root has a digest.
HashSerial ==
    /\ phase = "hash"
    /\ hash[Root] # NoHash
    /\ phase'  = "batch"
    /\ hashed' = TRUE
    /\ UNCHANGED <<tree, hash, threads>>

\* Mutant: the digest of the root is kept.
Clear_KeepHash ==
    /\ phase = "batch"
    /\ AllIdle
    /\ live # {Root} \/ hashed
    /\ live' = {Root}
    /\ pfx'  = [a \in Addr |-> ZeroKey]
    /\ len'  = [a \in Addr |-> 0]
    /\ word' = [a \in Addr |-> NoChildren]
    /\ val'  = [a \in Addr |-> NoValue]
    /\ hash' = [a \in Addr |-> IF a = Root THEN hash[a] ELSE NoHash]
    /\ hashed' = FALSE
    /\ UNCHANGED <<phase, threads>>

\* The root becomes an empty node and the allocator is reset: every handle
\* may be given out again.
Clear ==
    /\ phase = "batch"
    /\ AllIdle
    /\ live # {Root} \/ hashed
    /\ live' = {Root}
    /\ pfx'  = [a \in Addr |-> ZeroKey]
    /\ len'  = [a \in Addr |-> 0]
    /\ word' = [a \in Addr |-> NoChildren]
    /\ val'  = [a \in Addr |-> NoValue]
    /\ hash' = [a \in Addr |-> NoHash]
    /\ hashed' = FALSE
    /\ UNCHANGED <<phase, threads>>

-----------------------------------------------------------------------------
Init ==
    /\ live = {Root}
    /\ pfx = [a \in Addr |-> ZeroKey]
    /\ len = [a \in Addr |-> 0]
    /\ word = [a \in Addr |-> NoChildren]
    /\ val = [a \in Addr |-> NoValue]
    /\ hash = [a \in Addr |-> NoHash]
    /\ phase = "batch"
    /\ hashed = FALSE
    /\ pc = [t \in Threads |-> "idle"]
    /\ key = [t \in Threads |-> ZeroKey]
    /\ arg = [t \in Threads |-> NoValue]
    /\ given = [t \in Threads |-> NoValue]
    /\ cur = [t \in Threads |-> NULL]
    /\ exp = [t \in Threads |-> EmptyWord]
    /\ res = [t \in Threads |-> NoValue]

\* The steps of a call that has started.
Proceed(t) ==
    \/ InsertValue(t) \/ InsertLoad(t) \/ InsertAttach(t) \/ InsertSplit(t)
    \/ InsertRetry(t)
    \/ BumpReturn(t) \/ BumpLoad(t) \/ BumpSet(t) \/ BumpRetry(t)
    \/ GetLeaf(t) \/ GetLoad(t)

Start(t) == \/ \E p \in Inserts : StartInsert(t, p[1], p[2])
            \/ \E k \in Keys : StartGet(t, k)

HashStep == (\E n \in Addr : HashNode(n)) \/ HashSerial

Next ==
    \/ \E t \in Threads : Start(t) \/ Proceed(t)
    \/ HashStart \/ HashStep \/ Clear

Spec == Init /\ [][Next]_vars

\* A thread that runs keeps running, compare_exchange_weak does not fail for
\* ever on a word that no longer changes, and hash's workers get on.
FairSpec ==
    /\ Spec
    /\ \A t \in Threads :
          /\ WF_vars(Proceed(t))
          /\ WF_vars(InsertAttach(t) \/ InsertSplit(t))
          /\ WF_vars(BumpSet(t))
    /\ WF_vars(HashStep)
=============================================================================
