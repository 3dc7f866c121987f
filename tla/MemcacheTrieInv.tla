-------------------------- MODULE MemcacheTrieInv ---------------------------
(***************************************************************************)
(* Properties of the memcached snapshot trie.                              *)
(***************************************************************************)
EXTENDS MemcacheTrie, TrieDigest

Reasons == {"none", "assert", "variant", "missing", "misread", "concurrency", "overwrite"}

TypeOK ==
    /\ \A n \in DOMAIN node :
          /\ node[n].kind \in {"value", "map", "ptr", "free"} /\ node[n].ts \in 0 .. MaxRound
          /\ node[n].kind = "ptr" => node[n].valid /\ node[n].hash # NoHash
          /\ \A b \in Branch : node[n].kids[b] \in 0 .. Len(node)
    /\ \A p \in DOMAIN log : p.timestamp \in 0 .. MaxRound /\ log[p].prev.timestamp <= p.timestamp
    /\ gc \subseteq DOMAIN node
    /\ failed \in Reasons /\ kv \in [Keys -> Value \cup {NoValue}]

\* Behind a pair that is not the key of an entry of the node that it stands
\* for, anything may be found.
Stray == Value \cup {NoValue}

\* What get_value may find for key k in entry tsp of the log.
RECURSIVE InLog(_, _)
InLog(tsp, k) ==
    LET e == log[tsp]
        b == BranchBits(k, e.len)
    IN  CASE tsp \notin DOMAIN log -> {}
          [] tsp \in DOMAIN log /\ e.type = "value" -> {IF e.pfx = k THEN e.value ELSE NoValue}
          [] tsp \in DOMAIN log /\ e.type = "map" ->
                CASE ~IsPrefixOf(e.pfx, e.len, k, KeyLen) \/ b \notin DOMAIN e.kids -> {NoValue}
                  [] b \in e.stray -> Stray
                  [] OTHER -> InLog(e.kids[b], k)
          [] OTHER -> {}

\* What get_value may find for key k from node n on, in memory or in the log.
RECURSIVE InCache(_, _)
InCache(n, k) ==
    LET x == node[n]
    IN  CASE n = Null -> {NoValue}
          [] n # Null /\ x.kind = "ptr" -> IF x.logged THEN InLog(x.tsp, k) ELSE Stray
          [] n # Null /\ x.kind = "value" -> {IF x.pfx = k THEN x.value ELSE NoValue}
          [] n # Null /\ x.kind = "map" ->
                IF Covers(x, k) THEN InCache(x.kids[Bits(x, k)], k) ELSE {NoValue}
          [] OTHER -> {}

\* Evicted or not, reloaded by whom and when, every key has the value that was
\* last inserted: an evicted node is in the log, no thread's reload undoes
\* another's insertion, and nothing is freed that is in use.  One case is
\* exempt, in which the code breaks the rule at its constructor for evicted
\* nodes ("pointer node must have been logged at time args.tsp.timestamp"): a
\* leaf that was reloaded has a new address, is not logged under it when it
\* does not change, and is evicted again.
EvictedReadable == failed = "none" => \A k \in Keys : kv[k] \in InCache(Root, k)

\* The log holds the trie as it was when it was last hashed, whatever has been
\* inserted, deleted, evicted, reloaded or freed since: a restart loses
\* nothing that was hashed, except leaves that are named by the address they
\* were reloaded to and were not logged there.
LogRestores ==
    failed = "none" /\ round > 1 =>
        \A k \in Keys : snap[k] \in InLog(node[Root].prev, k)

\* The entries of the log that the trie needs.
RECURSIVE Needed(_)
Needed(tsp) ==
    {tsp} \cup UNION {Needed(log[tsp].kids[b]) : b \in DOMAIN log[tsp].kids \ log[tsp].stray}

\* Right after a hash, the entries that are needed are not named by any entry
\* as the one it replaces, and all others are, but for deletion markers: what
\* durable_interface.h wants the previous pointers for.  The exception are
\* entries from which a node was reloaded: load_evicted_ptr gives the node
\* the previous of that entry and not its key, so nothing ever replaces them.
PrunableExactly ==
    LET unreplaced == {p \in DOMAIN log : log[p].type # "delete"} \ {log[p].prev : p \in DOMAIN log}
        needed == Needed(node[Root].prev)
    IN  failed = "none" /\ node[Root].valid =>
            needed \subseteq unreplaced /\ unreplaced \ needed \subseteq loaded

\* Addresses are used again, but pairs of timestamp and pointer name one entry
\* each, as durable_interface.h promises, if the collector runs only between a
\* hash and the next change and as long as no node was reloaded.
KeysUnique == failed = "overwrite" => early \/ loaded # {}

\* A valid hash of the root is that of the compressed trie of what was
\* inserted, through any history of evictions and reloads.
HashCanonical ==
    node[Root].valid => node[Root].hash = CanonicalDigest(kv, NoValue, NoHash)

\* Nothing is lost to eviction: the trie reads as what was inserted, and its
\* log as what was last hashed.
NothingForgotten == TypeOK /\ EvictedReadable /\ LogRestores

\* The log can be pruned: its entries are written once, and those that no
\* entry replaces are the ones that are needed.
LogPrunable == KeysUnique /\ PrunableExactly
=============================================================================
