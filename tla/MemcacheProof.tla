---------------------------- MODULE MemcacheProof ---------------------------
(***************************************************************************)
(* Proofs that a key has a value, or has none: make_proof of the memcached *)
(* snapshot trie, and what verify_proof makes of its results.              *)
(***************************************************************************)
EXTENDS MemcacheTrie

Verifier == INSTANCE MemcacheVerify

\* bv are the children of a node, child_data the hashes of those that are
\* listed, or the value.
Layer(len, bv, data) == [len |-> len, bv |-> bv, child_data |-> data]

KidsOf(x) == {b \in Branch : x.kids[b] # Null}

\* What a layer lists of the children in D.
Listed(x, D) == [b \in D |-> node[x.kids[b]].hash]

BaseLayer(x) ==
    IF is_leaf(x) THEN Layer(x.len, {}, <<x.value>>)
    ELSE Layer(x.len, KidsOf(x), Listed(x, KidsOf(x)))

\* The bits of a layer include the child on the way, whose data it leaves out.
PathLayer(x, k) == Layer(x.len, KidsOf(x), Listed(x, KidsOf(x) \ {Bits(x, k)}))

\* query_len may be shorter than a key: then the proof ends at a node of that
\* length or longer.
EndsAt(x, k, query_len) ==
    ~Covers(x, k) \/ x.len >= query_len \/ is_leaf(x) \/ x.kids[Bits(x, k)] = Null

\* The nodes of PathTo(k) up to the one at which make_proof ends.
ProofPath(k, query_len) ==
    LET p == PathTo(k)
        S == {i \in DOMAIN p : ~is_evicted(node[p[i]]) /\ EndsAt(node[p[i]], k, query_len)}
    IN  IF S = {} THEN <<>> ELSE SubSeq(p, 1, CHOOSE i \in S : \A j \in S : i <= j)

\* make_proof throws for nodes on its way that are evicted, not hashed, or
\* leaves without a value, and for children to list that are not hashed.
MakesProof(k, query_len) ==
    LET p == ProofPath(k, query_len)
        listed(x) == {x.kids[b] : b \in Branch} \ ({Null} \cup Range(p))
    IN  p # <<>> /\ \A i \in DOMAIN p : LET x == node[p[i]] IN
            /\ x.valid
            /\ x.kind = "value" => x.value # NoValue
            /\ \A c \in listed(x) : node[c].valid

\* The layers, the deepest first.
make_proof(k, query_len) ==
    LET p == ProofPath(k, query_len)
        layer(i) == IF i = Len(p) THEN BaseLayer(node[p[i]]) ELSE PathLayer(node[p[i]], k)
    IN  Reverse([i \in DOMAIN p |-> layer(i)])

-----------------------------------------------------------------------------
(* Properties *)

\* What may be presented as a proof for a key: the proof of any key and any
\* length, also with another value, or without its first layer.
Presented(j, len) ==
    LET p == make_proof(j, len)
    IN  {p, Tail(p)} \cup
        (IF p[1].len = KeyLen THEN {[p EXCEPT ![1].child_data = <<v>>] : v \in Value} ELSE {})

\* A proof that is accepted for the current root hash says what the trie
\* holds, whichever key, length or value it was made for.
ProofsSound ==
    failed = "none" /\ node[Root].valid =>
        \A j, k \in Keys, len \in PrefixLen : MakesProof(j, len) =>
            \A p \in Presented(j, len) :
                Verifier!verify_proof(k, p, node[Root].hash) => p # <<>> /\ Verifier!Proves(p) = kv[k]

\* The proof made for a whole key that is there, and in memory, is accepted.
ProofsComplete ==
    failed = "none" /\ node[Root].valid =>
        \A k \in Keys : MakesProof(k, KeyLen) /\ kv[k] # NoValue =>
            Verifier!verify_proof(k, make_proof(k, KeyLen), node[Root].hash)

\* verify_proof accepts what make_proof produces for a key that is there, and
\* nothing that says something else than what the trie holds.
ProofsExact == ProofsSound /\ ProofsComplete
=============================================================================
