---------------------------- MODULE MCMerkleTrie ----------------------------
(***************************************************************************)
(* Small instances of the Merkle trie with metadata for TLC.               *)
(***************************************************************************)
EXTENDS MerkleTrieInv

MCKeys == {<<0, 0, 0>>, <<0, 0, 1>>, <<1, 0, 0>>, <<2, 0, 0>>}

\* The four keys are found at two depths; one offer has no endowment.
MCEndow(k) == CASE k = <<0, 0, 1>> -> 0 [] k = <<1, 0, 0>> -> 2 [] OTHER -> 1
\* Of the single offers one will do, and one of <<1, 0, 0>> and <<2, 0, 0>> with
\* one other.
MCSets == {K \in SUBSET MCKeys : Cardinality(K) \in {1, 2} => <<2, 0, 0>> \notin K}
MCLoads == {[k \in K |-> MCEndow(k)] : K \in {L \in MCSets : Cardinality(L) # 1 \/ <<0, 0, 0>> \in L}}
MCOthers == {[k \in K |-> MCEndow(k) + 1] : K \in {L \in SUBSET MCKeys : Cardinality(L) \notin {1, 2}}}

\* Keys below, between and above the nodes of the trie as well.
MCQueries == MCKeys \cup {<<0, 1, 0>>, <<2, 2, 2>>}

MCFamilies == {
    {"hash", "mark", "unmark", "perform_marked", "clear_marked", "delete"},
    {"hash", "mark", "modify", "insert", "clear"},
    {"hash", "insert", "rollback", "clear_rollback"},
    {"insert", "merge", "rollback"},
    {"hash", "insert", "merge", "split"},
    {"hash", "mark", "split", "merge", "perform_marked"}}
=============================================================================
