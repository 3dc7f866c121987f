--------------------------- MODULE MerkleTrieInv ----------------------------
(***************************************************************************)
(* What the Merkle trie with metadata guarantees its callers.              *)
(***************************************************************************)
EXTENDS MerkleTrie

CONSTANT Queries   \* the keys that are asked for

ASSUME QueriesAssumption == Queries \subseteq Key

Root(t) == trie[t].root

\* Every node has a prefix that is zero beyond its length and metadata of
\* integers; leaves have values and no children.
TypeOK ==
    /\ steps \in 0 .. MaxSteps /\ stale \subseteq Tries /\ raw \subseteq Keys
    /\ failed \in {"none", "insert"} /\ calls \in Families
    /\ overlapped \in BOOLEAN /\ (marking # Null => marking.delta \in {-1, 1} /\ marking.up # << >>)
    /\ \A t \in Tries :
          /\ trie[t].hash_valid \in BOOLEAN /\ unhashed[t] \subseteq Keys
          /\ \A x \in NodesOf(Root(t)) :
                /\ x.len \in PrefixLen /\ x.pfx \in Key /\ x.pfx = Truncate(x.pfx, x.len)
                /\ x.meta \in Metadata /\ x.valid \in BOOLEAN /\ DOMAIN x.kids \subseteq Branch
                /\ is_leaf(x) => x.kids = NoKids /\ x.value # NoValue

\* The leaves of each trie, in key order, are the offers that the calls should
\* have left in it, with their values, deletion marks and rollback marks:
\* whatever was merged, split off, contracted or rolled back, and between the
\* steps of a mark and of clear_marked_deletions too.  (What a rollback is to
\* remove is RolledBack's subject.)
ContentExact ==
    \A t \in Tries :
        LET ls == Leaves(Root(t))
        IN  /\ \A i, j \in DOMAIN ls : i < j => Less(ls[i].pfx, ls[j].pfx)
            /\ {l.pfx : l \in ToSet(ls)} = KeysOf(kv[t])
            /\ \A l \in ToSet(ls) :
                  kv[t][l.pfx] = [value |-> l.value, deleted |-> l.meta.deleted,
                                  rollback |-> l.meta.rollback]

\* What a mark that is under way is still to add to the count of a node.
Due(t, x) == IF t = "main" /\ marking # Null /\ Name(x) \in ToSet(marking.up) THEN marking.delta ELSE 0

\* The metadata that each node caches are the sums over the leaves below it,
\* although every call only passes differences up; while a mark is under way,
\* but for the change that the nodes above are due.  The counts of marked
\* leaves are exempt while clear_marked_deletions runs, and for good once it
\* has run while something was marked or unmarked: it holds hash_modify_mtx
\* shared and locks no node (merkle_trie.h:1366, 3039 "ok bc root gets
\* exclusive lock"), although line 774 says that "All methods should be
\* threadsafe".
MetadataExact ==
    \A t \in Tries : \A x \in NodesOf(Root(t)) :
        LET ls == ToSet(Leaves(x))
            sum(f) == MapThenSumSet(LAMBDA l : IF f \in {"size", "endow"} THEN new_metadata(l.value, FALSE)[f]
                                               ELSE kv[t][l.pfx][f], ls)
        IN  /\ \A f \in MetaFields \ {"deleted"} : x.meta[f] = sum(f)
            /\ (clearing = << >> /\ ~ overlapped) => x.meta.deleted + Due(t, x) = sum("deleted")

\* Every node that is not a leaf has at least two children, which extend its
\* prefix by their digits, except in a trie that was split off and not
\* cleaned up yet, and in an empty one.  _insert relies on it.
Compressed ==
    \A t \in Tries : \A x \in NodesOf(Root(t)) :
        /\ \A b \in DOMAIN x.kids :
              IsPrefixOf(x.pfx, x.len, x.kids[b].pfx, x.kids[b].len - 1)
              /\ BranchBits(x.kids[b].pfx, x.len) = b
        /\ (Clean(t) /\ KeysOf(kv[t]) # {} /\ ~ is_leaf(x)) => Cardinality(DOMAIN x.kids) >= 2

\* A cached root hash is that of the offers that are not marked, as if the
\* marked ones were already gone, unless do_rollback or modify_value_nolocks
\* left it behind or clear_marked_deletions left hashes of nodes, or counts of
\* marked leaves, behind.
RootHashCanonical ==
    \A t \in Tries :
        LET live == {k \in KeysOf(kv[t]) : kv[t][k].deleted = 0}
            vals == [k \in live |-> kv[t][k].value]
        IN  (trie[t].hash_valid /\ t \notin stale /\ unhashed[t] = {} /\ ~ overlapped) =>
                trie[t].root_hash = [count |-> Cardinality(live),
                                     hash |-> Digests(vals, NoValue, NoHash)[live]]

\* _insert throws only after do_rollback has removed all of a trie whose keys
\* share a digit.
InsertsSucceed ==
    failed = "insert" => \E t \in Tries : KeysOf(kv[t]) = {} /\ Root(t).len > 0

\* What the queries return is what a search of the offers would.
Endowment(t, K) == MapThenSumSet(LAMBDA k : kv[t][k].value.endow, K)
Below(t, k) == {j \in KeysOf(kv[t]) : Less(j, k)}

\* The nodes whose prefix the first len digits of k extend.
Above(t, k, len) == {x \in NodesOf(Root(t)) : IsPrefixOf(x.pfx, x.len, k, len)}

\* get_value, contains_key, endow_lt_key, apply_lt_key and uncached_size agree
\* with the offers, for keys that are present and keys that are not, and
\* get_subnode_ref_nolocks finds the longest node that the query extends.
QueriesExact ==
    \A t \in Tries :
        /\ uncached_size(Root(t)) = Cardinality(KeysOf(kv[t]))
        /\ \A k \in Queries :
              LET present == k \in KeysOf(kv[t])
                  low == apply_lt_key(Root(t), k)
              IN  /\ contains_key(Root(t), k) <=> present
                  /\ get_value(Root(t), k) = IF present THEN kv[t][k].value ELSE NoValue
                  /\ endow_lt_key(Root(t), k) = Endowment(t, Below(t, k))
                  /\ {l.pfx : l \in ToSet(low)} = Below(t, k)
                  /\ Len(low) = Cardinality(Below(t, k))
                  /\ \A len \in PrefixLen :
                        LET n == get_subnode_ref_nolocks(Root(t), Truncate(k, len), len)
                        IN  IF n = Null THEN Above(t, k, len) = {}
                            ELSE n \in Above(t, k, len) /\ \A x \in Above(t, k, len) : x.len <= n.len

\* metadata_traversal lists the groups of keys that share the given number of
\* digits, in order, each with the endowment up to its end, in a trie that is
\* not empty and was not just split off.
TraversalExact ==
    \A t \in Tries : \A len \in 1 .. KeyLen :
        LET vec == metadata_traversal(Root(t), len)
            groups == {Truncate(k, len) : k \in KeysOf(kv[t])}
        IN  (KeysOf(kv[t]) # {} /\ Clean(t)) =>
            /\ Len(vec) = Cardinality(groups)
            /\ \A i \in DOMAIN vec :
                  LET g == {k \in KeysOf(kv[t]) : Truncate(k, len) = Truncate(vec[i].key, len)}
                      upto == {k \in KeysOf(kv[t]) : ~ Less(Truncate(vec[i].key, len), Truncate(k, len))}
                  IN  /\ g # {} /\ vec[i].key = Truncate(CHOOSE k \in g : TRUE, SharedLen(g))
                      /\ vec[i].endow = Endowment(t, upto)

\* However the ranges are split, accumulate_values_parallel writes the leaves
\* to their places in key order, and parallel_apply meets each once.  (In a
\* trie that was split off and not cleaned up, accumulating may throw.)
RangesExact ==
    \A t \in Tries : Root(t).meta.size > 0 =>
        /\ LET ls == Leaves(Root(t))
               vec == accumulate_values_parallel(Root(t))
           IN  vec = {<<i, ls[i]>> : i \in DOMAIN ls} \/ (vec = Null /\ ~ Clean(t))
        /\ \A k \in KeysOf(kv[t]) : parallel_apply(Root(t), k) = 1

\* endow_split takes the lowest offers, with at most the endowment asked for,
\* and no fewer than it can: the next one would be too much, or nothing is
\* left of the endowment.
SplitRoundsDown ==
    \A e \in 1 .. trie["main"].root.meta.endow : EndowSplit(e) =>
        LET K    == {k \in Keys : kv'["other"][k] # NoEntry}
            rest == KeysOf(kv["main"]) \ K
            sum  == Endowment("main", K)
        IN  /\ \A j \in K, k \in rest : Less(j, k)
            /\ sum <= e
            /\ sum = e \/ \A k \in rest : sum + Endowment("main", {j \in rest : ~ Less(k, j)}) > e

\* do_rollback removes every offer that was inserted with a rollback mark and
\* no other ("we want to delete all the ones marked as "rollback"",
\* metadata.h:262), with one exception: a trie that is a single leaf keeps it,
\* marked as it is, since MerkleTrie::do_rollback does not look at whether
\* its root is to be removed (merkle_trie.h:1445).
RolledBack ==
    DoRollback("main") =>
        LET left == {l.pfx : l \in ToSet(Leaves(trie'["main"].root))}
        IN  left = KeysOf(kv["main"]) \ KeysWith(kv["main"], "rollback")
            \/ (is_leaf(Root("main")) /\ left = KeysOf(kv["main"]))

\* Of the offers, endow_split takes the lowest ones up to the endowment asked
\* for, and do_rollback the marked ones, but for a single leaf.
TakenExactly == [][SplitRoundsDown /\ RolledBack]_vars

\* The structure that _insert relies on: through contractions, rollbacks and
\* clean-ups every node keeps two children, so that insertions do not throw.
WellFormed == TypeOK /\ Compressed /\ InsertsSucceed

\* The read-only calls, by key, by prefix, by group and in parallel ranges,
\* return what a search of all offers would.
AnswersExact == QueriesExact /\ TraversalExact /\ RangesExact
=============================================================================
