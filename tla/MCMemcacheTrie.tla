--------------------------- MODULE MCMemcacheTrie ---------------------------
(***************************************************************************)
(* Small instances of the memcached snapshot trie for TLC.                 *)
(***************************************************************************)
EXTENDS MemcacheTrieInv, MemcacheProof

MCKeys2 == {<<0, 0>>, <<0, 1>>}
MCKeys3 == MCKeys2 \cup {<<1, 1>>}

\* Threads and values are interchangeable.
Interchangeable == Permutations(Threads) \cup Permutations(Value)
=============================================================================
