----------------------------- MODULE TrieDigest -----------------------------
(***************************************************************************)
(* The digest a Merkle trie should have for the map it stores: that of the *)
(* compressed trie with exactly these leaves, in which every node but the  *)
(* root has a value or at least two children.  A reference definition that *)
(* knows nothing of how the trie was built.                                *)
(*                                                                         *)
(* The hash function is taken to be injective, so a digest is the record   *)
(* of what is hashed: the header with prefix and length, and a body that   *)
(* is the value or the digests of the children.                            *)
(***************************************************************************)
EXTENDS TriePrefix

\* The number of digits that all keys of K have in common.
SharedLen(K) == CHOOSE l \in PrefixLen :
                    /\ \A j, k \in K : \A i \in 1 .. l : j[i] = k[i]
                    /\ l < KeyLen => \E j, k \in K : j[l + 1] # k[l + 1]

Towards(K, l, b) == {k \in K : k[l + 1] = b}

Active(kv, none) == {k \in DOMAIN kv : kv[k] # none}

\* The digest of the trie whose leaves are the keys K, from those of smaller
\* sets of keys; nohash stands for no trie.
DigestFrom(kv, nohash, K, smaller) ==
    LET l == SharedLen(K)
        k == CHOOSE j \in K : TRUE
    IN  IF K = {} THEN nohash
        ELSE [pfx |-> Truncate(k, l), len |-> l,
              body |-> IF l = KeyLen THEN <<kv[k]>>
                       ELSE [b \in Branch |-> smaller[Towards(K, l, b)]]]

\* For every set of keys that kv maps to something other than none, the digest
\* of the trie that has just these leaves.
Digests(kv, none, nohash) ==
    LET digest[K \in SUBSET Active(kv, none)] == DigestFrom(kv, nohash, K, digest)
    IN  digest

\* The digest of all of kv, below a root of length 0.
CanonicalDigest(kv, none, nohash) ==
    [pfx |-> [i \in 1 .. KeyLen |-> 0], len |-> 0,
     body |-> [b \in Branch |-> Digests(kv, none, nohash)[Towards(Active(kv, none), 0, b)]]]
=============================================================================
