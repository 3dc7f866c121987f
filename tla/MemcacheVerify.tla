--------------------------- MODULE MemcacheVerify ---------------------------
(***************************************************************************)
(* verify_proof of the memcached snapshot trie: a static member, which     *)
(* knows a key, a stack of layers and a root hash, and no trie.            *)
(***************************************************************************)
EXTENDS TriePrefix, Sequences

CONSTANTS NoValue,  \* std::nullopt
          NoHash    \* a hash that was not computed

Header(k, len, body) == [pfx |-> Truncate(k, len), len |-> len, body |-> body]

\* What is carried from layer to layer.
NoneYet == [ok |-> TRUE, hash |-> NoHash, len |-> KeyLen]
Rejected == [ok |-> FALSE, hash |-> NoHash, len |-> KeyLen]
Carry(hash, len) == [ok |-> TRUE, hash |-> hash, len |-> len]

LeafLayer(k, c, layer) ==
    IF c.hash # NoHash \/ Len(layer.child_data) # 1 \/ layer.bv # {} THEN Rejected
    ELSE Carry(Header(k, layer.len, <<layer.child_data[1]>>), layer.len)

\* The hashes of the children, of which the one on the way is carried.
Body(c, layer, bb) ==
    [b \in Branch |-> IF b \notin layer.bv THEN NoHash
                      ELSE IF b = bb THEN c.hash ELSE layer.child_data[b]]

\* Mutant: a first layer may list the child on the way.
MapLayer_Listed(k, c, layer) ==
    LET bb == BranchBits(k, layer.len)
        missing == layer.bv \ DOMAIN layer.child_data
        body == [b \in Branch |-> IF b \notin layer.bv THEN NoHash
                                  ELSE IF b = bb /\ c.hash # NoHash THEN c.hash
                                  ELSE layer.child_data[b]]
    IN  IF missing \subseteq {bb} /\ (missing # {} => c.hash # NoHash)
        THEN Carry(Header(k, layer.len, body), layer.len)
        ELSE Rejected

MapLayer(k, c, layer) ==
    LET bb == BranchBits(k, layer.len)
        notAbove == c.hash # NoHash /\ c.len <= layer.len
        noCarry  == bb \in layer.bv /\ c.hash = NoHash
        unused   == bb \notin layer.bv /\ c.hash # NoHash
        missing  == ~(layer.bv \ {bb} \subseteq DOMAIN layer.child_data)
    IN  IF notAbove \/ noCarry \/ unused \/ missing THEN Rejected
        ELSE Carry(Header(k, layer.len, Body(c, layer, bb)), layer.len)

\* One round of the loop.
VerifyLayer(k, c, layer) ==
    IF ~c.ok THEN c
    ELSE IF layer.len = KeyLen THEN LeafLayer(k, c, layer)
    ELSE MapLayer(k, c, layer)

\* What is carried after each layer of a stack.
Carries(k, stack) ==
    LET carry[i \in 0 .. Len(stack)] ==
            IF i = 0 THEN NoneYet ELSE VerifyLayer(k, carry[i - 1], stack[i])
    IN  carry

verify_proof(k, stack, root_hash) ==
    LET end == Carries(k, stack)[Len(stack)]
    IN  end.ok /\ end.hash # NoHash /\ end.hash = root_hash

\* What an accepted stack says of its key: the value in a leaf, or none when
\* the stack starts higher up.
Proves(stack) ==
    IF stack[1].len = KeyLen THEN stack[1].child_data[1] ELSE NoValue
=============================================================================
