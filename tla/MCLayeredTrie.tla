---------------------------- MODULE MCLayeredTrie ---------------------------
(***************************************************************************)
(* Small instances of the layered trie for TLC.                            *)
(***************************************************************************)
EXTENDS LayeredTrieInv, TLC

MCKeys2 == {<<0, 0>>, <<0, 1>>}
MCKeys3 == MCKeys2 \cup {<<1, 1>>}

\* Two insertions in each layer, and one in the last, which is never sealed.
MCMaxCalls == [y \in 0 .. MaxLayer |-> IF y < MaxLayer THEN 2 ELSE 1]

ThreadSymmetry == Permutations(Threads)
=============================================================================
