--------------------------- MODULE MCSnapshotTrie ---------------------------
(***************************************************************************)
(* Small instances of the snapshot trie for TLC: binary keys of length 2.  *)
(***************************************************************************)
EXTENDS SnapshotTrieInv, FiniteSetsExt, TLC

MCKeys3 == {<<0, 0>>, <<0, 1>>, <<1, 1>>}

MCKeys2 == {<<0, 0>>, <<0, 1>>}

\* One address for each prefix, used whenever it is free, and a second one
\* for each leaf, used while its predecessor is with the collector: the same
\* tree then mostly has the same addresses, however it was built.
Home(p, l) == CASE l = 0 -> 0
                [] l = 1 -> 1 + p[1]
                [] l = 2 -> 3 + 2 * p[1] + p[2]
Second(p, l) == 10 + Home(p, l)
MCAddr == 0 .. 6 \cup {Second(k, KeyLen) : k \in Keys}
MCMalloc(A, p, l) ==
    CASE Home(p, l) \in A -> Home(p, l)
      [] Home(p, l) \notin A /\ Second(p, l) \in A -> Second(p, l)
      [] OTHER -> Max(A)

\* value_merge_fn by overwriting; the value 0 is one that has_value_f rejects.
Overwrite(v, w) == w

ThreadSymmetry == Permutations(Threads)
=============================================================================
