--------------------------- MODULE EphemeralProof ---------------------------
(***************************************************************************)
(* Proofs of what an ephemeral trie holds: make_proof and verify_proof     *)
(* (include/mtt/ephemeral_trie/atomic_ephemeral_trie.h, common/proof.h).   *)
(*                                                                         *)
(* make_proof reads the digests of a trie that was hashed.  A proof is a   *)
(* stack of layers, from the node where the search for the key ends up to  *)
(* the root; verify_proof recomputes the digests upwards from the key and  *)
(* the layers alone.                                                       *)
(***************************************************************************)
EXTENDS EphemeralTrieInv, Sequences

-----------------------------------------------------------------------------
(* make_proof *)

Layer(l, bv, data) == [len |-> l, bv |-> bv, child_data |-> data]

ChildHash(n, b) == hash[word[n][b].ptr]

\* The layer where the search ends: a value, or all the children.
BaseLayer(n) ==
    IF IsLeaf(n) THEN Layer(KeyLen, {}, <<val[n]>>)
    ELSE Layer(len[n], Kids(n), [b \in Kids(n) |-> ChildHash(n, b)])

\* A layer above: all children but the one on the way.
PathLayer(n, bb) ==
    Layer(len[n], Kids(n), [b \in Kids(n) \ {bb} |-> ChildHash(n, b)])

\* The search ends at node n.
EndsAt(n, q, l) ==
    \/ ~Covers(n, q)
    \/ len[n] >= min(l, KeyLen)
    \/ Slot(n, q) \notin Kids(n)

\* The layers that the call on node n pushes, from those of the call on a child.
LayersFrom(q, l, n, stack) ==
    IF EndsAt(n, q, l) THEN <<BaseLayer(n)>>
    ELSE Append(stack[At(n, q).ptr], PathLayer(n, Slot(n, q)))

\* The proof stack when the call on each node returns.
ProofStack(q, l) ==
    LET stack[n \in live] == LayersFrom(q, l, n, stack) IN stack

make_proof(q, l) == [proved_prefix |-> q, proof_stack |-> ProofStack(q, l)[Root]]

-----------------------------------------------------------------------------
(* verify_proof *)

ValueDigest(k, v) == [pfx |-> k, len |-> KeyLen, body |-> <<v>>]

\* The bit vector and the digests of the children.
MapDigest(k, l, kids) == [pfx |-> Truncate(k, l), len |-> l, body |-> kids]

\* What is carried from layer to layer.
NoneYet   == [ok |-> TRUE, meta |-> NoHash, len |-> KeyLen]
Rejected  == [ok |-> FALSE, meta |-> NoHash, len |-> KeyLen]
Carry(d, l) == [ok |-> TRUE, meta |-> d, len |-> l]

LeafLayer(q, c, layer) ==
    IF c.meta # NoHash \/ layer.bv # {} \/ Len(layer.child_data) # 1 THEN Rejected
    ELSE Carry(ValueDigest(q, layer.child_data[1]), layer.len)

\* Mutant: a first layer that needs a carried digest for the key's own digit
\* uses the one that was listed.
MapLayer_Listed(q, c, layer) ==
    LET bb == BranchBits(q, layer.len)
        missing == layer.bv \ DOMAIN layer.child_data
    IN  IF missing \subseteq {bb} /\ (missing # {} => c.meta # NoHash)
        THEN Carry(MapDigest(q, layer.len,
                       [b \in Branch |->
                           IF b \notin layer.bv THEN NoHash
                           ELSE IF b = bb /\ c.meta # NoHash THEN c.meta
                           ELSE layer.child_data[b]]), layer.len)
        ELSE Rejected

MapLayer(q, c, layer) ==
    LET bb == BranchBits(q, layer.len)
        badLen  == c.meta # NoHash /\ c.len <= layer.len
        noCarry == bb \in layer.bv /\ c.meta = NoHash
        unused  == c.meta # NoHash /\ bb \notin layer.bv
        missing == ~(layer.bv \ {bb} \subseteq DOMAIN layer.child_data)
    IN  IF badLen \/ noCarry \/ unused \/ missing THEN Rejected
        ELSE Carry(MapDigest(q, layer.len,
                       [b \in Branch |->
                           IF b \notin layer.bv THEN NoHash
                           ELSE IF b = bb THEN c.meta
                           ELSE layer.child_data[b]]), layer.len)

VerifyLayer(q, c, layer) ==
    IF ~c.ok THEN c
    ELSE IF layer.len = KeyLen THEN LeafLayer(q, c, layer)
    ELSE MapLayer(q, c, layer)

\* What is carried after each layer of a stack.
Carries(q, stack) ==
    LET carry[i \in 0 .. Len(stack)] ==
            IF i = 0 THEN NoneYet ELSE VerifyLayer(q, carry[i - 1], stack[i])
    IN  carry

verify_proof(p, root_hash) ==
    LET end == Carries(p.proved_prefix, p.proof_stack)[Len(p.proof_stack)]
    IN  end.ok /\ end.meta = root_hash

-----------------------------------------------------------------------------
(* Properties *)

\* The proofs of any key, of any length.
Made == {make_proof(j, l).proof_stack : j \in Keys, l \in PrefixLen}

\* The proofs with another value in them, as if made in an earlier batch.
Altered(made) == UNION {{[s EXCEPT ![1] = Layer(KeyLen, {}, <<v>>)] : v \in Value} :
                            s \in {x \in made : x[1].len = KeyLen}}

\* The proofs without their first layer.
Shortened(made) == {Tail(s) : s \in made}

\* What may be presented as a proof for key k.
Presented(k) ==
    LET made == Made
    IN  [proved_prefix : {k}, proof_stack : made \cup Altered(made) \cup Shortened(made)]

\* What an accepted proof says: a leaf layer carries the value of the key,
\* and a proof that starts higher up shows that the key is not there.
Says(p) ==
    LET base == Head(p.proof_stack)
    IN  IF base.len = KeyLen THEN base.child_data[1] ELSE NoValue

\* An accepted proof says what the trie holds, whichever key or value it was
\* made for.
ProofsSound ==
    \A k \in Keys : \A p \in Presented(k) :
        verify_proof(p, hash[Root]) => Says(p) = View[k]

\* The search for key k ends at a node on its path, whose slot is empty.
SlotEmpty(k) ==
    \E n \in live : ~IsLeaf(n) /\ Covers(n, k) /\ Slot(n, k) \notin Kids(n)

\* The proof for a key that the trie holds is accepted, and so is the one for
\* a key whose slot is empty.
ProofsComplete ==
    \A k \in Keys : View[k] # NoValue \/ SlotEmpty(k) =>
        verify_proof(make_proof(k, KeyLen), hash[Root])

\* On a hashed trie verify_proof accepts what make_proof produces for a key
\* that is there or whose slot is empty, and nothing presented to it that
\* says something else than what the trie holds.
ProofsExact == hashed /\ AllIdle => ProofsSound /\ ProofsComplete
=============================================================================
