--------------------------- MODULE MCEphemeralTrie --------------------------
(***************************************************************************)
(* Small instances of the ephemeral trie for TLC: binary keys of length 3. *)
(***************************************************************************)
EXTENDS EphemeralProof, FiniteSetsExt

\* Keys whose branches are made in either order, the second one below or
\* above the first.  One key is overwritten with another value.
MCKeys    == {<<0, 0, 0>>, <<0, 0, 1>>, <<0, 1, 0>>, <<1, 0, 0>>}
MCInserts == (MCKeys \X {1}) \cup {<<<<0, 0, 0>>, 2>>}

\* One address for each prefix: 1 followed by its digits, read in binary.
Home(p, l) == FoldSet(LAMBDA i, x : x + p[i] * 2 ^ (l - i), 2 ^ l, 1 .. l)
MCRoot == 1
MCAddr == 1 .. 2 ^ (KeyLen + 1) - 1
MCMalloc(A, p, l) == IF Home(p, l) \in A THEN Home(p, l) ELSE Max(A)

Overwrite(v, w) == w

\* Moving from a value copies it, as for a plain struct.
MoveCopies(v) == v
=============================================================================
