--------------------------- MODULE LayeredTrieInv ---------------------------
(***************************************************************************)
(* Properties of the layered trie.                                         *)
(***************************************************************************)
EXTENDS LayeredTrie, TrieDigest, TrieShapes

\* The map that the tree of a layer holds.
Content(y) ==
    [k \in Keys |->
        LET S == {n \in Reach(Root(y)) : is_leaf(n) /\ n.pfx = k}
        IN  IF S = {} THEN Inactive ELSE node[CHOOSE n \in S : TRUE].value]

Quiet == \A t \in Threads : pc[t] = "idle"

TypeOK ==
    /\ roots \subseteq Layers /\ active_layer \in Layers /\ freeable_lowerbound \in Layers
    /\ pc \in [Threads -> {"idle", "at", "try", "mark"}]
    /\ \A t \in Threads : arg[t].layer \in Layers \cup {NoLayer}
    /\ kv \in [Keys -> Value] /\ failed \in BOOLEAN
    /\ \A n \in DOMAIN node :
          /\ node[n].active_children \in 0 .. Cardinality(Branch)
          /\ node[n].value \in Value
          /\ node[n].superseded_in_layer \in 1 .. MaxLayer \cup {Never}

\* A sealed layer that was not freed holds what it held when it was sealed,
\* whatever is inserted, collected or freed afterwards.
SealedUnchanged ==
    \A y \in roots : y < active_layer => Content(y) = sealed[y]

\* The active layer holds the values given to the keys: copying, collapsing
\* chains and collecting inactive leaves lose nothing.
ActiveComplete ==
    ~failed /\ Quiet /\ active_layer \in roots => Content(active_layer) = kv

\* No node is freed that a layer or a thread can still reach: a thread only
\* follows pointers to nodes in memory, replaced ones included.
NoUseAfterFree ==
    /\ \A y \in roots : Reach(Root(y)) \subseteq DOMAIN node
    /\ \A t \in Threads : \A n \in {cur[t], exp[t], old[t]} \ {Null} : Reach(n) \subseteq DOMAIN node

\* Between calls each node has exactly one node whose destructor frees it, or
\* is the root of a layer: nothing leaks and nothing is freed twice.
OneOwner ==
    ~failed /\ Quiet =>
        \A n \in DOMAIN node :
            IF n.len = 0 THEN n.layer \in roots
            ELSE Cardinality({m \in DOMAIN node : n \in ChildrenOf(m) /\ Owned(m, n)}) = 1

\* active_children counts the children, so that chains are recognised.
CountsExact ==
    \A n \in DOMAIN node : node[n].active_children = Cardinality(ChildrenOf(n))

\* The hash of a sealed layer, once computed, is that of the compressed trie of
\* the active leaves it was sealed with, although it is put together from
\* digests that the hashing of other layers left in shared nodes; inactive
\* leaves and nodes with one child do not show.
LayerDigest(m) ==
    LET D == CanonicalDigest(m, Inactive, NoHash)
        B == {b \in Branch : D.body[b] # NoHash}
    IN  IF B = {} THEN NoHash
        ELSE IF Cardinality(B) = 1 THEN D.body[CHOOSE b \in B : TRUE]
        ELSE D
HashCanonical ==
    \A y \in roots : y < active_layer /\ Root(y) \in DOMAIN metadata =>
        metadata[Root(y)] = LayerDigest(sealed[y])

\* The comment in raise_gc_lowerbound: "Cannot free active layer or the layer
\* immediately below it".
RecentKept == {active_layer, active_layer - 1} \cap Nat \subseteq roots

\* That holds from layer 2 on, where active_layer - 2 does not wrap.
LastTwoStay == active_layer >= 2 => RecentKept

\* No assertion of insert fails, and no destructor terminates the process or
\* reads a freed node.
LayeredAssertsHold == ~failed

\* Memory is managed right while layers share nodes, threads replace them and
\* old layers are freed: nothing is freed that is in use, between calls every
\* node has one owner, from layer 2 on the two newest layers stay, and counts
\* are exact.
MemorySafe == TypeOK /\ NoUseAfterFree /\ OneOwner /\ LastTwoStay /\ CountsExact

-----------------------------------------------------------------------------
(* The inductive invariant *)

NodeName == [pfx : Key, len : PrefixLen, layer : Layers]
NodeBody == [children : [Branch -> NodeName \cup {Null}], active_children : Nat,
             value : Value, superseded_in_layer : 1 .. MaxLayer \cup {Never}]

\* The nodes that were replaced and are about to be marked.
ChainSet(n) == {Chain(n)[i] : i \in 1 .. Len(Chain(n))}
Pending == UNION {ChainSet(old[t]) : t \in {u \in Threads : pc[u] = "mark"}}

\* The nodes of layer y: those of this layer or an older one that nothing
\* has replaced up to layer y.
Tree(y) ==
    {n \in DOMAIN node :
        /\ n.layer <= y
        /\ y < node[n].superseded_in_layer
        /\ y = active_layer => n \notin Pending}

Pfxs == [n \in DOMAIN node |-> n.pfx]
Lens == [n \in DOMAIN node |-> n.len]
Kids == [n \in DOMAIN node |-> node[n].children]

\* Every layer that exists is a trie of its own, within the shared nodes.
LayersOK ==
    \A y \in roots :
        /\ Root(y) \in Tree(y)
        /\ TrieShape(Tree(y), Pfxs, Lens, Kids, Null)

\* A node is newer than what is below it and older than what replaced it, and
\* it is kept for the last layer that has it.
NodesOK ==
    /\ DOMAIN node \subseteq NodeName
    /\ \A n \in DOMAIN node :
          /\ node[n] \in NodeBody /\ n.pfx = Truncate(n.pfx, n.len)
          /\ is_leaf(n) => node[n].children = NoKids
          /\ n.layer <= active_layer
          /\ n.layer < node[n].superseded_in_layer
          /\ \/ node[n].superseded_in_layer = Never
             \/ /\ node[n].superseded_in_layer <= active_layer
                /\ node[n].superseded_in_layer - 1 \in roots
          /\ node[n].active_children = Cardinality(ChildrenOf(n))
          /\ \A c \in ChildrenOf(n) : c.layer <= n.layer

BoundsOK ==
    /\ roots \subseteq 0 .. active_layer
    /\ active_layer \in Layers /\ freeable_lowerbound \in Layers
    /\ active_layer \in roots /\ LastTwoStay
    /\ active_layer < 2 => freeable_lowerbound = 0
    /\ failed \in BOOLEAN

\* Layer 0 has nothing but its root.
LayerZero == \A n \in DOMAIN node : n.layer = 0 => n.len = 0

\* The pointers that threads hold: cur belongs to the active layer; the others
\* may have been replaced in it, not earlier.
Recent(n) == n \in DOMAIN node /\ n.layer # 0 /\ node[n].superseded_in_layer >= active_layer
CallOK(t) ==
    /\ arg[t].layer = active_layer /\ active_layer > 0
    /\ arg[t].key \in Keys /\ arg[t].value \in Value /\ arg[t].do_gc \in BOOLEAN
    /\ cur[t] \in DOMAIN node /\ cur[t].layer = active_layer
    /\ exp[t] # Null => Recent(exp[t])
    /\ pc[t] = "at" /\ Matches(cur[t], arg[t].key) => is_leaf(cur[t])
    /\ pc[t] \in {"try", "mark"} => ~is_leaf(cur[t]) /\ Matches(cur[t], arg[t].key)
    /\ pc[t] = "mark" =>
          /\ active_layer >= 2
          /\ old[t] \in Tree(active_layer - 1) /\ ChainSet(old[t]) \subseteq Tree(active_layer - 1)
          /\ exp[t] # Null => exp[t].layer = active_layer
CallsOK ==
    /\ pc \in [Threads -> {"idle", "at", "try", "mark"}]
    /\ arg \in [Threads -> [layer : Layers \cup {NoLayer}, key : Key, value : Value, do_gc : BOOLEAN]]
    /\ cur \in [Threads -> NodeName \cup {Null}]
    /\ exp \in [Threads -> NodeName \cup {Null}]
    /\ old \in [Threads -> NodeName \cup {Null}]
    /\ \A t \in Threads :
          IF pc[t] = "idle" THEN arg[t] = NoArg /\ cur[t] = Null /\ exp[t] = Null ELSE CallOK(t)
    /\ \A t \in Threads : old[t] # Null <=> pc[t] = "mark"

\* The leaves of layer y hold the map m.
Holds(y, m) ==
    /\ \A n \in Tree(y) : is_leaf(n) /\ n.pfx \in Keys => node[n].value = m[n.pfx]
    /\ \A k \in Keys : (\A n \in Tree(y) : ~(is_leaf(n) /\ n.pfx = k)) => m[k] = Inactive
ContentsOK ==
    /\ kv \in [Keys -> Value] /\ sealed \in [Layers -> [Keys -> Value]]
    /\ Holds(active_layer, kv)
    /\ \A y \in roots : y < active_layer => Holds(y, sealed[y])

\* Only keys of callers have leaves.
LeafKeys == \A n \in DOMAIN node : is_leaf(n) => n.pfx \in Keys

\* Each layer is a trie in the nodes it shares with the others, with a mark
\* counted as done from the moment a node is replaced.
LayerInv == NodesOK /\ BoundsOK /\ LayerZero /\ LayersOK /\ CallsOK /\ ContentsOK

\* raise_gc_lowerbound was called below layer 2 and freed the active layer:
\* there is nothing left, and bump_active_layer and get_layer throw.
Emptied ==
    /\ roots = {} /\ DOMAIN node = {} /\ DOMAIN metadata = {}
    /\ active_layer \in Layers /\ active_layer < 2
    /\ freeable_lowerbound \in Layers /\ failed \in BOOLEAN
    /\ pc = [t \in Threads |-> "idle"] /\ arg = [t \in Threads |-> NoArg]
    /\ \A t \in Threads : cur[t] = Null /\ exp[t] = Null /\ old[t] = Null
    /\ kv \in [Keys -> Value]

\* The digest that a node has is the one that its children's yield; only nodes
\* of sealed layers have one, and then all that is below them.
MetadataOK ==
    \A n \in DOMAIN metadata :
        /\ n \in DOMAIN node /\ n.layer < active_layer
        /\ ChildrenOf(n) \subseteq DOMAIN metadata
        /\ metadata[n] = HashFrom(n, metadata)

LayeredInv == Emptied \/ (LayerInv /\ LeafKeys /\ MetadataOK)
=============================================================================
