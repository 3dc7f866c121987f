----------------------------- MODULE LayeredTrie ----------------------------
(***************************************************************************)
(* The layered trie (include/mtt/layered_trie/layered_trie.h): one root    *)
(* per layer, nodes shared between layers and copied on write.             *)
(*                                                                         *)
(* Threads insert into the active layer, all at once; sealed layers are    *)
(* only read and hashed.  A node that the active layer replaces is marked  *)
(* with the layer that supersedes it, and the destructor of a layer's root *)
(* frees the nodes below it that were superseded together with their       *)
(* parent.  One action models one access to a child pointer.               *)
(***************************************************************************)
EXTENDS TriePrefix, Sequences, FiniteSets

CONSTANTS Threads,
          Keys,       \* the keys in use
          Value,      \* what a lambda may leave in a value
          Inactive,   \* the value of value_t(), for which is_active() fails
          MaxLayer,   \* how many layers there may be
          MaxCalls,   \* how many insertions each layer may see
          WordSize,   \* the number of values of a uint64_t
          Ops,        \* which of "ins", "gc" the callers use
          Back,       \* how far below the active layer callers raise the bound
          Hashed,     \* the layers that callers hash
          Null,       \* nullptr
          NoHash      \* the hash of nothing: compute_hash returns nullptr

ASSUME KeysAssumption  == Keys \subseteq Key
ASSUME ValueAssumption == Inactive \in Value
ASSUME LayerAssumption == MaxLayer \in Nat /\ WordSize \in Nat /\ MaxLayer + 1 < WordSize
ASSUME CallsAssumption == MaxCalls \in [0 .. MaxLayer -> Nat]
ASSUME NullAssumption  == Null \notin [pfx : Key, len : PrefixLen, layer : Nat]
ASSUME FiniteAssumption == IsFiniteSet(Branch)
ASSUME BackAssumption  == Back \subseteq Nat
ASSUME OpsAssumption   == Ops \subseteq {"ins", "gc"}

VARIABLES node,  \* the nodes in memory
          roots, \* LayeredTrie::roots: the layers that exist
          active_layer,
          freeable_lowerbound,
          metadata, \* the nodes whose metadata has hash_valid or return_null
                    \* set, and what compute_hash returns for them from then on
          pc,    \* where each thread is
          arg,   \* the arguments of its insert call, with the layer of the
                 \* WeakLayerReference it is made through
          cur,   \* the node it is at
          exp,   \* the child pointer it expects
          old,   \* the node it has replaced
          kv,    \* the value that was last given to each key
          sealed, \* kv at the end of each layer that exists
          calls, \* the insertions into the active layer so far
          failed \* an assertion failed, or the process was terminated

trie_vars   == <<node, roots, active_layer, freeable_lowerbound, metadata>>
thread_vars == <<pc, arg, cur, exp, old>>
ghosts      == <<kv, sealed, calls>>
vars == <<trie_vars, thread_vars, ghosts, failed>>

-----------------------------------------------------------------------------
(* Nodes.  No layer has two nodes for one prefix, so a node is named by its *)
(* prefix, its length and its layer.                                        *)

Name(k, l, y) == [pfx |-> Truncate(k, l), len |-> l, layer |-> y]
ZeroKey == [i \in 1 .. KeyLen |-> 0]
Root(y) == Name(ZeroKey, 0, y)

NoMap   == [k \in Keys |-> Inactive]
Layers  == 0 .. MaxLayer
NoLayer == -1
Never   == WordSize - 1    \* UINT64_MAX: superseded by nothing
NoKids  == [b \in Branch |-> Null]

Fields(kids, cnt, val, sup) ==
    [children |-> kids, active_children |-> cnt, value |-> val,
     superseded_in_layer |-> sup]

\* Memory mem with node n in it.
Put(mem, n, fields) == [m \in DOMAIN mem \cup {n} |-> IF m = n THEN fields ELSE mem[m]]

is_leaf(n)  == n.len = KeyLen
Bits(n, k)  == BranchBits(k, n.len)
ChildrenOf(n) == IF is_leaf(n) THEN {}
                 ELSE {node[n].children[b] : b \in Branch} \ {Null}
is_active_leaf(n) == is_leaf(n) /\ node[n].value # Inactive

\* The nodes of S and the ones that follow them along kids, and what is reached
\* from n in KeyLen + 1 such steps.
Follow(S, kids) == S \cup UNION {kids[m] : m \in S \cap DOMAIN kids}
Closure(n, kids) ==
    LET step[i \in 0 .. KeyLen + 1] ==
            IF i = 0 THEN {n} ELSE Follow(step[i - 1], kids)
    IN  step[KeyLen + 1]

\* The nodes below node n, itself included.
ChildMap == [m \in DOMAIN node |-> ChildrenOf(m)]
Reach(n) == Closure(n, ChildMap)

\* The nodes from n on, as long as there is a next one.
Longer(s, next) == IF s[Len(s)] \in DOMAIN next THEN Append(s, next[s[Len(s)]]) ELSE s
Path(n, next) ==
    LET walk[i \in 0 .. KeyLen] == IF i = 0 THEN <<n>> ELSE Longer(walk[i - 1], next)
    IN  walk[KeyLen]

\* get_unique_child, followed while a node has one active child: the chain,
\* and the node at its end.
get_unique_child(n) == CHOOSE c \in ChildrenOf(n) : TRUE
UniqueChild == [m \in {x \in DOMAIN node : node[x].active_children = 1} |-> get_unique_child(m)]
Chain(n) == Path(n, UniqueChild)
ChainEnd(n) == Chain(n)[Len(Chain(n))]

-----------------------------------------------------------------------------
(* Layers *)

\* The superseding constructor: a copy of node n for layer y, with metadata of
\* its own.
Superseding(n, y) ==
    Fields(node[n].children, node[n].active_children, node[n].value, Never)

\* Mutant: finalize_layer does not wait.
bump_active_layer_NoLock ==
    LET y == active_layer + 1
    IN  /\ y \in Layers
        /\ active_layer \in roots
        /\ active_layer' = y
        /\ roots' = roots \cup {y}
        /\ node' = Put([node EXCEPT ![Root(active_layer)].superseded_in_layer = y],
                       Root(y), Superseding(Root(active_layer), y))
        /\ sealed' = [sealed EXCEPT ![active_layer] = kv]
        /\ calls' = 0
        /\ UNCHANGED <<freeable_lowerbound, metadata, thread_vars, kv, failed>>

\* bump_active_layer: finalize_layer waits for the references to the active
\* layer to be given up, and the new root takes the children of the old one.
bump_active_layer ==
    LET y == active_layer + 1
    IN  /\ y \in Layers
        /\ active_layer \in roots
        /\ \A t \in Threads : arg[t].layer # active_layer
        /\ active_layer' = y
        /\ roots' = roots \cup {y}
        /\ node' = Put([node EXCEPT ![Root(active_layer)].superseded_in_layer = y],
                       Root(y), Superseding(Root(active_layer), y))
        /\ sealed' = [sealed EXCEPT ![active_layer] = kv]
        /\ calls' = 0
        /\ UNCHANGED <<freeable_lowerbound, metadata, thread_vars, kv, failed>>

\* The nodes that the destructor of node n frees: itself, and below it what
\* was superseded in the same layer as its parent.
Owned(n, m) == node[n].superseded_in_layer # 0
               /\ node[n].superseded_in_layer = node[m].superseded_in_layer
OwnedMap == [m \in DOMAIN node |-> {c \in ChildrenOf(m) \cap DOMAIN node : Owned(m, c)}]
Destroyed(n) == Closure(n, OwnedMap)

\* It reads a child that is gone, or finds one that was superseded earlier
\* than its parent and terminates the process.
DestructorFails(D) ==
    \E m \in D : \E c \in ChildrenOf(m) :
        \/ c \notin DOMAIN node
        \/ node[m].superseded_in_layer > node[c].superseded_in_layer

\* a - b in unsigned words: it wraps.
WordMinus(a, b) == IF a >= b THEN a - b ELSE WordSize + a - b

\* What raise_gc_lowerbound frees.  Below layer 2 the difference wraps, and
\* only the bound limits it.
Freeable(bound) == min(bound, WordMinus(active_layer, 2))

\* raise_gc_lowerbound erases the layers up to the bound.  References to
\* layers up to the requested one are invalid from now on, so the callers
\* have given them up.
raise_gc_lowerbound(layer) ==
    LET bound == IF layer > freeable_lowerbound THEN layer ELSE freeable_lowerbound
        gone  == {y \in roots : y <= Freeable(bound)}
        D     == UNION {Destroyed(Root(y)) : y \in gone}
    IN  /\ layer > freeable_lowerbound \/ gone # {}
        /\ \A t \in Threads : arg[t].layer = NoLayer \/ arg[t].layer > layer
        /\ freeable_lowerbound' = bound
        /\ roots' = roots \ gone
        /\ failed' = DestructorFails(D)
        /\ node' = [n \in DOMAIN node \ D |-> node[n]]
        /\ metadata' = [n \in DOMAIN metadata \ D |-> metadata[n]]
        /\ sealed' = [y \in Layers |-> IF y \in gone THEN NoMap ELSE sealed[y]]
        /\ UNCHANGED <<active_layer, thread_vars, kv, calls>>

-----------------------------------------------------------------------------
(* insert and gc_inactive_leaf *)

NoArg == [layer |-> NoLayer, key |-> ZeroKey, value |-> Inactive, do_gc |-> FALSE]

Return(t) ==
    /\ pc'  = [pc EXCEPT ![t] = "idle"]
    /\ arg' = [arg EXCEPT ![t] = NoArg]
    /\ cur' = [cur EXCEPT ![t] = Null]
    /\ exp' = [exp EXCEPT ![t] = Null]
    /\ old' = [old EXCEPT ![t] = Null]

Matches(n, k) == MatchLen(n.pfx, n.len, k, KeyLen) = n.len

\* The assertions at the head of insert, for a call with arguments a.
InPlace(n, a) == n.layer = a.layer /\ Matches(n, a.key)

\* insert is called on node n, when memory is mem: it loads the child on the
\* way to the key.  (A thread that were to load it later would see what a
\* failing compare_exchange tells it.)
GoTo(t, n, a, mem) ==
    LET reads == InPlace(n, a) /\ ~is_leaf(n)
    IN  /\ pc'  = [pc EXCEPT ![t] = IF reads THEN "try" ELSE "at"]
        /\ arg' = [arg EXCEPT ![t] = a]
        /\ cur' = [cur EXCEPT ![t] = n]
        /\ exp' = [exp EXCEPT ![t] = IF reads THEN mem[n].children[Bits(n, a.key)] ELSE Null]
        /\ old' = [old EXCEPT ![t] = Null]

\* A call on the active layer, through a WeakLayerReference that is given up
\* when it returns: holding one longer only keeps layers from changing.  The
\* root of layer 0 never gets children.
StartInsert(t, k, v, gc) ==
    /\ pc[t] = "idle"
    /\ active_layer \in roots /\ active_layer > 0
    /\ calls < MaxCalls[active_layer]
    /\ calls' = calls + 1
    /\ (IF gc THEN "gc" ELSE "ins") \in Ops
    /\ GoTo(t, Root(active_layer),
            [layer |-> active_layer, key |-> k, value |-> v, do_gc |-> gc], node)
    /\ UNCHANGED <<trie_vars, kv, sealed, failed>>

AssertFails(t) ==
    /\ pc[t] = "at" /\ ~InPlace(cur[t], arg[t])
    /\ failed' = TRUE
    /\ UNCHANGED <<trie_vars, thread_vars, ghosts>>

\* modify_lambda on the value of a leaf; it does nothing for do_gc.
Modify(t) ==
    /\ pc[t] = "at" /\ InPlace(cur[t], arg[t]) /\ is_leaf(cur[t])
    /\ IF arg[t].do_gc THEN UNCHANGED <<node, kv>>
       ELSE /\ node' = [node EXCEPT ![cur[t]].value = arg[t].value]
            /\ kv'   = [kv EXCEPT ![arg[t].key] = arg[t].value]
    /\ Return(t)
    /\ UNCHANGED <<roots, active_layer, freeable_lowerbound, metadata, sealed, calls, failed>>

\* What the thread decides from the child it expects.
Absent(t)     == exp[t] = Null
Diverges(t)   == exp[t] # Null /\ ~Matches(exp[t], arg[t].key)
Below(t)      == exp[t] # Null /\ Matches(exp[t], arg[t].key)
OldLayer(t)   == Below(t) /\ exp[t].layer # arg[t].layer

\* Mutant: an active leaf counts as unused.
Unused_Leaf(n) == node[n].active_children = 0
Unused(n) == node[n].active_children = 0 /\ ~is_active_leaf(n)

SlotUnchanged(t) == node[cur[t]].children[Bits(cur[t], arg[t].key)] = exp[t]

\* try_add_child: the compare_exchange succeeds; the new node, if there is
\* one, has been prepared with the given fields.
Publish(t, new, fields) ==
    LET b == Bits(cur[t], arg[t].key)
        change == (IF exp[t] = Null THEN 1 ELSE 0) - (IF new = Null THEN 1 ELSE 0)
        linked == [node EXCEPT ![cur[t]] =
                      Fields([@.children EXCEPT ![b] = new], @.active_children + change,
                             @.value, @.superseded_in_layer)]
    IN  /\ SlotUnchanged(t)
        /\ node' = IF new = Null THEN linked ELSE Put(linked, new, fields)
        /\ UNCHANGED <<roots, active_layer, freeable_lowerbound, metadata, ghosts, failed>>

Leaf(t) == Name(arg[t].key, KeyLen, arg[t].layer)

EmptyLeaf == Fields(NoKids, 0, Inactive, Never)

\* Nothing to collect.
GcReturns(t) ==
    /\ pc[t] = "try" /\ arg[t].do_gc
    /\ Absent(t) \/ Diverges(t)
    /\ Return(t)
    /\ UNCHANGED <<trie_vars, ghosts, failed>>

InsertAttach(t) ==
    /\ pc[t] = "try" /\ Absent(t) /\ ~arg[t].do_gc
    /\ Publish(t, Leaf(t), EmptyLeaf)
    /\ GoTo(t, Leaf(t), arg[t], node')

InsertDescend(t) ==
    /\ pc[t] = "try" /\ Below(t) /\ ~OldLayer(t)
    /\ GoTo(t, exp[t], arg[t], node)
    /\ UNCHANGED <<trie_vars, ghosts, failed>>

\* A node between the current one and the child, whose key diverges.
InsertSplit(t) ==
    LET l   == MatchLen(exp[t].pfx, exp[t].len, arg[t].key, KeyLen)
        new == Name(arg[t].key, l, arg[t].layer)
    IN  /\ pc[t] = "try" /\ Diverges(t) /\ ~arg[t].do_gc
        /\ Publish(t, new, Fields([NoKids EXCEPT ![BranchBits(exp[t].pfx, l)] = exp[t]],
                                  1, Inactive, Never))
        /\ GoTo(t, new, arg[t], node')

\* Replace a child of an older layer: by nothing, by a new leaf, or by a copy
\* of the node at the end of its chain.
Replacement(t) ==
    CASE Unused(exp[t]) /\ arg[t].do_gc  -> [name |-> Null, fields |-> EmptyLeaf]
      [] Unused(exp[t]) /\ ~arg[t].do_gc -> [name |-> Leaf(t), fields |-> EmptyLeaf]
      [] OTHER -> LET n == ChainEnd(exp[t])
                  IN  [name |-> Name(n.pfx, n.len, arg[t].layer), fields |-> Superseding(n, arg[t].layer)]

\* Mutant: a copy takes over the metadata of the node it replaces.
InsertSupersede_CopyMetadata(t) ==
    LET r == Replacement(t)
        e == ChainEnd(exp[t])
        copied == r.name # Null /\ ~Unused(exp[t]) /\ e \in DOMAIN metadata
    IN  /\ pc[t] = "try" /\ OldLayer(t) /\ SlotUnchanged(t)
        /\ LET b == Bits(cur[t], arg[t].key)
               linked == [node EXCEPT ![cur[t]].children[b] = r.name,
                                      ![cur[t]].active_children = @ - (IF r.name = Null THEN 1 ELSE 0)]
           IN  node' = IF r.name = Null THEN linked ELSE Put(linked, r.name, r.fields)
        /\ metadata' = IF copied THEN Put(metadata, r.name, metadata[e]) ELSE metadata
        /\ pc'  = [pc EXCEPT ![t] = "mark"]
        /\ old' = [old EXCEPT ![t] = exp[t]]
        /\ exp' = [exp EXCEPT ![t] = r.name]
        /\ UNCHANGED <<arg, cur, roots, active_layer, freeable_lowerbound, ghosts, failed>>

InsertSupersede(t) ==
    LET r == Replacement(t)
    IN  /\ pc[t] = "try" /\ OldLayer(t)
        /\ Publish(t, r.name, r.fields)
        /\ pc'  = [pc EXCEPT ![t] = "mark"]
        /\ old' = [old EXCEPT ![t] = exp[t]]
        /\ exp' = [exp EXCEPT ![t] = r.name]
        /\ UNCHANGED <<arg, cur>>

\* Mutant: only the node that was replaced is marked, not its chain.
MarkSuperseded_First(t) ==
    /\ pc[t] = "mark"
    /\ node' = [node EXCEPT ![old[t]].superseded_in_layer = arg[t].layer]
    /\ IF exp[t] = Null THEN Return(t)
       ELSE GoTo(t, exp[t], arg[t], node')
    /\ UNCHANGED <<roots, active_layer, freeable_lowerbound, metadata, ghosts, failed>>

\* set_superseded_layer along the chain of the replaced child.
MarkSuperseded(t) ==
    LET chain == {Chain(old[t])[i] : i \in 1 .. Len(Chain(old[t]))}
    IN  /\ pc[t] = "mark"
        /\ node' = [n \in DOMAIN node |->
                       IF n \in chain THEN [node[n] EXCEPT !.superseded_in_layer = arg[t].layer]
                       ELSE node[n]]
        /\ IF exp[t] = Null THEN Return(t)
           ELSE GoTo(t, exp[t], arg[t], node')
        /\ UNCHANGED <<roots, active_layer, freeable_lowerbound, metadata, ghosts, failed>>

\* The compare_exchange fails and yields the child that is there.
InsertRetry(t) ==
    /\ pc[t] = "try" /\ ~SlotUnchanged(t)
    /\ OldLayer(t) \/ (~arg[t].do_gc /\ ~Below(t))
    /\ exp' = [exp EXCEPT ![t] = node[cur[t]].children[Bits(cur[t], arg[t].key)]]
    /\ UNCHANGED <<trie_vars, pc, arg, cur, old, ghosts, failed>>

-----------------------------------------------------------------------------
(* compute_hash *)

Header(m, body) == [pfx |-> m.pfx, len |-> m.len, body |-> body]

\* The digest of node m whose children have the digests of: a node with a
\* single child that has one takes over that child's.
HashKids(m, of) ==
    LET found == {b \in Branch : of[b] # NoHash}
    IN  IF found = {} THEN NoHash
        ELSE IF Cardinality(found) = 1 THEN of[CHOOSE b \in found : TRUE]
        ELSE Header(m, of)

\* The digest of node m, of its value or from those of its children.
HashFrom(m, digest) ==
    IF is_leaf(m)
    THEN IF is_active_leaf(m) THEN Header(m, <<node[m].value>>) ELSE NoHash
    ELSE HashKids(m, [b \in Branch |-> IF node[m].children[b] = Null THEN NoHash
                                       ELSE digest[node[m].children[b]]])

\* compute_hash on the root of a sealed layer.  It leaves its result in every
\* node it visits, for all the layers that share the node, and takes the result
\* of a node that has one.  Nodes of sealed layers keep their children and
\* values, so that the walk is one step; what is below a node with a result
\* has been visited before.
compute_hash(y) ==
    LET digest[m \in DOMAIN node] ==
            IF m \in DOMAIN metadata THEN metadata[m] ELSE HashFrom(m, digest)
    IN  /\ y < active_layer
        /\ Root(y) \notin DOMAIN metadata
        /\ metadata' = [m \in DOMAIN metadata \cup Reach(Root(y)) |-> digest[m]]
        /\ UNCHANGED <<node, roots, active_layer, freeable_lowerbound, thread_vars, ghosts, failed>>

-----------------------------------------------------------------------------
Init ==
    /\ node = [n \in {Root(0)} |-> Fields(NoKids, 0, Inactive, Never)]
    /\ roots = {0}
    /\ active_layer = 0
    /\ freeable_lowerbound = 0
    /\ metadata = [n \in {} |-> NoHash]
    /\ pc  = [t \in Threads |-> "idle"]
    /\ arg = [t \in Threads |-> NoArg]
    /\ cur = [t \in Threads |-> Null]
    /\ exp = [t \in Threads |-> Null]
    /\ old = [t \in Threads |-> Null]
    /\ kv = NoMap
    /\ sealed = [y \in Layers |-> NoMap]
    /\ calls = 0
    /\ failed = FALSE

InsertStep(t) ==
    \/ AssertFails(t) \/ Modify(t) \/ GcReturns(t)
    \/ InsertAttach(t) \/ InsertDescend(t) \/ InsertSplit(t)
    \/ InsertSupersede(t) \/ MarkSuperseded(t) \/ InsertRetry(t)

Call(t) ==
    \/ \E k \in Keys, v \in Value : StartInsert(t, k, v, FALSE)
    \/ \E k \in Keys : StartInsert(t, k, Inactive, TRUE)

\* Nothing happens after a failure.
Next ==
    /\ ~failed
    /\ \/ bump_active_layer
       \/ \E y \in {active_layer - d : d \in Back} \cap Nat : raise_gc_lowerbound(y)
       \/ \E y \in roots \cap Hashed : compute_hash(y)
       \/ \E t \in Threads : Call(t) \/ InsertStep(t)

Spec == Init /\ [][Next]_vars
=============================================================================
