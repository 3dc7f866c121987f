---------------------------- MODULE MCMerkleBatch ----------------------------
(***************************************************************************)
(* Small instances of batch_merge_in for TLC.                              *)
(***************************************************************************)
EXTENDS MerkleBatchMerge

\* Main tries with branches at several depths: two children, three, a child
\* that skips a digit, a chain of branches.
MCMains == {{<<0, 0, 0>>, <<0, 0, 1>>, <<1, 0, 0>>, <<2, 0, 0>>},
            {<<0, 0, 0>>, <<0, 1, 0>>, <<0, 1, 1>>, <<1, 0, 0>>},
            {<<0, 0, 0>>, <<0, 0, 1>>, <<0, 1, 0>>},
            {<<0, 0, 0>>, <<0, 0, 1>>, <<1, 0, 0>>, <<1, 0, 1>>, <<1, 1, 1>>}}

\* Tries that lie below one branch of the main trie, or span several.
MCPieces == {{<<0, 0, 0>>, <<0, 0, 2>>}, {<<0, 0, 2>>, <<0, 1, 0>>, <<1, 0, 0>>},
             {<<0, 0, 1>>}, {<<0, 1, 1>>, <<0, 1, 2>>, <<2, 0, 1>>}, {<<0, 1, 1>>, <<0, 1, 2>>},
             {<<0, 0, 0>>, <<0, 0, 1>>, <<0, 2, 0>>, <<1, 0, 1>>},
             {<<0, 0, 1>>, <<0, 1, 0>>}, {<<1, 0, 1>>, <<1, 1, 0>>}}
MCSmall == {w \in MCPieces : Cardinality(w) <= 2}
MCBatches == {<<x, y>> : x, y \in MCPieces} \cup {<<x, y, z>> : x \in MCSmall, y, z \in MCPieces \ MCSmall}
=============================================================================
