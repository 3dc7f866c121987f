----------------------------- MODULE MCRecycling -----------------------------
(***************************************************************************)
(* Small instances of the recycling trie for TLC.                          *)
(***************************************************************************)
EXTENDS RecyclingTrie

MCKeys == {<<0, 0, 0>>, <<0, 0, 1>>, <<0, 1, 0>>, <<0, 1, 1>>, <<1, 0, 0>>, <<1, 1, 0>>}

\* Nothing yet; a main trie whose memory can be used again; or a main trie that
\* a batch can be merged into, and tries that meet it in every way.
MCMains == {<< <<0, 0, 0>>, <<0, 0, 1>>, <<1, 0, 0>> >>,
            << <<0, 1, 0>>, <<0, 1, 1>>, <<0, 0, 0>> >>,
            << <<1, 1, 0>>, <<0, 1, 1>>, <<0, 0, 1>>, <<1, 0, 0>> >>}
MCTries == {<< <<0, 1, 0>>, <<0, 1, 1>> >>,
            << <<0, 0, 1>>, <<0, 1, 1>>, <<1, 1, 0>> >>,
            << <<1, 0, 0>>, <<1, 1, 0>>, <<0, 0, 0>> >>,
            << <<0, 0, 1>>, <<1, 1, 0>> >>}
MCUsed  == << <<0, 0, 0>>, <<0, 1, 1>> >>
MCFills == {[main |-> << >>, tries |-> << >>, calls |-> 0],
            [main |-> MCUsed, tries |-> << >>, calls |-> 0]}
           \cup {[main |-> m, tries |-> <<v, w>>, calls |-> 2] : m \in MCMains, v, w \in MCTries}
           \cup {[main |-> m, tries |-> << << >>, w>>, calls |-> 1] : m \in MCMains, w \in MCTries}
=============================================================================
