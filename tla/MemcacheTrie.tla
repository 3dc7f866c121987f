---------------------------- MODULE MemcacheTrie ----------------------------
(***************************************************************************)
(* The memcached snapshot trie                                             *)
(* (include/mtt/memcached_snapshot_trie/memcache_trie.h): a snapshot trie  *)
(* that writes every node it hashes to a log, evicts nodes that were not   *)
(* modified for long, and reloads them when they are needed.               *)
(*                                                                         *)
(* Threads insert and read at once, one access to a child pointer at a     *)
(* time; hashing, deletion and subnode references are used by a caller     *)
(* that has the trie to itself (SnapshotTrie has their interleavings).     *)
(* The log is that of InMemoryInterface.                                   *)
(***************************************************************************)
EXTENDS TriePrefix, Sequences, FiniteSets, SequencesExt

CONSTANTS Threads,
          Keys,         \* the keys in use
          Value,        \* the values that are inserted
          NoValue,      \* std::nullopt
          NoHash,       \* a hash that was not computed
          SubLen,       \* the lengths of the subnodes that are asked for
          MaxRound,     \* how often the trie is hashed
          MaxCalls      \* how many calls are made in all

ASSUME KeysAssumption  == Keys \subseteq Key /\ SubLen \subseteq PrefixLen
ASSUME ValueAssumption == NoValue \notin Value
ASSUME BoundAssumption == MaxRound \in Nat /\ MaxCalls \in Nat

VARIABLES node,   \* the nodes, by address
          gc,     \* the nodes that are left to the collector
          log,    \* InMemoryInterface::values
          failed, \* why an exception was thrown, or "none"; or that another
                  \* node's data were read, which ends a behaviour as well
          round,  \* the timestamp of the current calls
          pc, arg, cur, exp, \* where each thread is, its call, node and child
          kv,     \* what was last inserted for each key
          snap,   \* kv when the trie was last hashed
          calls,
          loaded, \* the entries of the log from which nodes were reloaded
          early   \* has the collector run between a change and its hash?

mem_vars    == <<node, gc, log, failed>>
thread_vars == <<pc, arg, cur, exp>>
ghosts      == <<kv, snap, calls, loaded, early>>
vars == <<mem_vars, round, thread_vars, ghosts>>

-----------------------------------------------------------------------------
(* Nodes *)

Null     == 0
Root     == 1
ZeroKey  == [i \in 1 .. KeyLen |-> 0]
NoKids   == [b \in Branch |-> Null]
Digits   == SetToSortSeq(Branch, <)

\* TimestampPointerPair, and its null.
Pair(ts, ptr) == [timestamp |-> ts, ptr |-> ptr]
NullPair == Pair(0, Null)

\* owned is children_owned.  logged tells whether the pair of a node is the
\* key under which the node itself was logged; no code reads it.
Node(kind, p, len, ts, prev) ==
    [kind |-> kind, pfx |-> Truncate(p, len), len |-> len, valid |-> FALSE, ts |-> ts,
     prev |-> prev, value |-> NoValue, kids |-> NoKids, tsp |-> NullPair, hash |-> NoHash,
     owned |-> FALSE, logged |-> FALSE]
ValueNode(k, ts, prev, v) == [Node("value", k, KeyLen, ts, prev) EXCEPT !.value = v]
MapNode(p, len, ts, prev) == Node("map", p, len, ts, prev)

\* A node whose data are in the log.
PtrNode(tsp, p, len, hash, logged) ==
    [Node("ptr", p, len, tsp.timestamp, NullPair) EXCEPT
        !.tsp = tsp, !.hash = hash, !.valid = TRUE, !.logged = logged]

is_leaf(x)    == x.len = KeyLen
is_evicted(x) == x.kind = "ptr"
Covers(x, k)  == MatchLen(x.pfx, x.len, k, KeyLen) = x.len
Bits(x, k)    == BranchBits(k, x.len)

\* Memory that was freed, and malloc: it takes the freed address a, or, if
\* there is none, an address that was never used.  The addresses of nodes of
\* kind "ptr" are not seen in the log; they are always new.
Freed == Node("free", ZeroKey, 0, 0, NullPair)
FreedAddresses == {a \in DOMAIN node : node[a] = Freed}
Places == IF FreedAddresses = {} THEN {Null} ELSE FreedAddresses
Malloc(m, a) == IF a # Null /\ m[a] = Freed THEN a ELSE Len(m) + 1
Put(m, a, x) == IF a \in DOMAIN m THEN [m EXCEPT ![a] = x] ELSE Append(m, x)

invalidate_hash(m, n) == [m EXCEPT ![n].valid = FALSE, ![n].ts = round]

-----------------------------------------------------------------------------
(* The log.  s has the nodes, the log and the failure that a computation   *)
(* has reached; after a failure nothing changes.                           *)

Memory == [node |-> node, gc |-> gc, log |-> log, failed |-> failed]
Fail(s, why) == [s EXCEPT !.failed = why]
Ok(s) == s.failed = "none"

get_ts_ptr(s, n) == IF is_evicted(s.node[n]) THEN s.node[n].tsp ELSE Pair(s.node[n].ts, n)

Value_t(x) == [type |-> "value", pfx |-> x.pfx, len |-> KeyLen, hash |-> x.hash,
               prev |-> x.prev, value |-> x.value, kids |-> <<>>, stray |-> {}]
\* stray: the children whose pairs are not keys of entries of theirs.
Map_t(s, x) == [type |-> "map", pfx |-> x.pfx, len |-> x.len, hash |-> x.hash, prev |-> x.prev,
                value |-> NoValue,
                kids |-> [b \in {d \in Branch : x.kids[d] # Null} |-> get_ts_ptr(s, x.kids[b])],
                stray |-> {b \in Branch : x.kids[b] # Null /\ ~s.node[x.kids[b]].logged}]
Delete_t(prev) == [type |-> "delete", pfx |-> ZeroKey, len |-> 0, hash |-> NoHash,
                   prev |-> prev, value |-> NoValue, kids |-> <<>>, stray |-> {}]

\* log_durable_value and update_previous_ts_ptr, after the check that the
\* node was modified since it was last logged.
WriteLog(s, n, entry) ==
    LET tsp == get_ts_ptr(s, n)
    IN  IF tsp = s.node[n].prev \/ tsp \in DOMAIN s.log THEN Fail(s, "overwrite")
        ELSE [s EXCEPT !.log = (tsp :> entry) @@ s.log, !.node[n].prev = tsp, !.node[n].logged = TRUE]

log_self_active(s, n) ==
    WriteLog(s, n, IF is_leaf(s.node[n]) THEN Value_t(s.node[n]) ELSE Map_t(s, s.node[n]))

\* Mutant: a removed node is not logged.
log_self_deleted_Not(s, n) == s

log_self_deleted(s, n) ==
    LET prev == s.node[n].prev
    IN  IF is_evicted(s.node[n]) THEN Fail(s, "assert")
        ELSE IF prev = NullPair THEN s
        ELSE WriteLog(s, n, Delete_t(prev))

\* load_evicted_ptr for the evicted node n; the new node gets the address a.
\* A map takes its timestamp from the version before, and its children are
\* given the prefix of the map itself.  Both take their prev from the entry,
\* and neither is logged under its new pair.
load_evicted_ptr(s, n, a) ==
    LET tsp == s.node[n].tsp
        e  == s.log[tsp]
        ds == SelectSeq(Digits, LAMBDA b : b \in DOMAIN e.kids)
        leaf == [ValueNode(e.pfx, tsp.timestamp, e.prev, e.value) EXCEPT !.valid = TRUE, !.hash = e.hash]
        kid(b) == PtrNode(e.kids[b], e.pfx, e.len, s.log[e.kids[b]].hash, TRUE)
        top == Len(Put(s.node, a, Freed))
        map == [MapNode(e.pfx, e.len, e.prev.timestamp, e.prev) EXCEPT
                   !.kids = [b \in Branch |-> IF b \in DOMAIN e.kids
                                              THEN top + CHOOSE i \in DOMAIN ds : ds[i] = b ELSE Null]]
    IN  CASE tsp \notin DOMAIN s.log -> Fail(s, "missing")
          [] tsp \in DOMAIN s.log /\ ~s.node[n].logged -> Fail(s, "misread")
          [] OTHER ->
             CASE e.type = "delete" -> Fail(s, "assert")
               [] e.type = "value" -> [s EXCEPT !.node = Put(@, a, leaf)]
               [] OTHER ->
                    IF \E b \in DOMAIN e.kids : e.kids[b] \notin DOMAIN s.log THEN Fail(s, "missing")
                    ELSE IF e.stray # {} THEN Fail(s, "misread")
                    ELSE [s EXCEPT !.node = Put(@, a, map) \o [i \in DOMAIN ds |-> kid(ds[i])]]

-----------------------------------------------------------------------------
(* compute_hash_and_normalize *)

get_num_children(x) ==
    IF is_leaf(x) THEN (IF x.value = NoValue THEN 0 ELSE 255)
    ELSE Cardinality({b \in Branch : x.kids[b] # Null})
OnlyDigit(x) == CHOOSE b \in Branch : x.kids[b] # Null

Digest(s, x) ==
    [pfx |-> x.pfx, len |-> x.len,
     body |-> IF is_leaf(x) THEN <<x.value>>
              ELSE [b \in Branch |-> IF x.kids[b] = Null THEN NoHash ELSE s.node[x.kids[b]].hash]]

SetHash(s, n) ==
    log_self_active([s EXCEPT !.node[n].hash = Digest(s, s.node[n]), !.node[n].valid = TRUE], n)

HashLeaf(s, n) ==
    IF s.node[n].value = NoValue THEN [s EXCEPT !.node[n].valid = TRUE] ELSE SetHash(s, n)

\* A node other than the root with fewer than two children is left to its
\* parent.
HashMap(s, n) ==
    LET x == s.node[n]
    IN  IF ~Ok(s) \/ (get_num_children(x) <= 1 /\ x.len # 0) THEN s
        ELSE IF \E b \in Branch : x.kids[b] # Null /\ ~s.node[x.kids[b]].valid THEN Fail(s, "assert")
        ELSE SetHash(s, n)

\* Remove child c of node n if it is empty, or replace it by its only child.
Settle(s, n, b, c) ==
    LET x == s.node[c]
        d == OnlyDigit(x)
        t == log_self_deleted(s, c)
    IN  CASE ~Ok(s) -> s
          [] is_evicted(x) -> Fail(s, "variant")
          [] get_num_children(x) = 0 -> IF Ok(t) THEN [t EXCEPT !.node[n].kids[b] = Null, !.gc = @ \cup {c}] ELSE t
          [] get_num_children(x) = 1 ->
                IF Ok(t) THEN [t EXCEPT !.node[n].kids[b] = x.kids[d], !.node[c].kids[d] = Null,
                                        !.gc = @ \cup {c}]
                ELSE t
          [] OTHER -> s

\* evict_self, for the child that was there before Settle.
Evict(s, n, b, c, threshold) ==
    LET x == s.node[c]
    IN  IF ~Ok(s) \/ x.ts >= threshold THEN s
        ELSE IF is_leaf(x) /\ x.value = NoValue THEN Fail(s, "assert")
        ELSE IF s.node[n].kids[b] # c THEN Fail(s, "concurrency")
        ELSE [s EXCEPT !.node = Append([@ EXCEPT ![n].kids[b] = Len(s.node) + 1],
                                       PtrNode(get_ts_ptr(s, c), x.pfx, x.len, x.hash, x.logged)),
                       !.gc = @ \cup {c}]

RECURSIVE compute_hash_and_normalize(_, _, _)
compute_hash_and_normalize(s, n, threshold) ==
    LET x == s.node[n]
        child(t, b) ==
            LET c == t.node[n].kids[b]
                u == compute_hash_and_normalize(t, c, threshold)
            IN  IF c = Null THEN t ELSE Evict(Settle(u, n, b, c), n, b, c, threshold)
    IN  CASE ~Ok(s) \/ x.valid -> s
          [] ~x.valid /\ is_evicted(x) -> Fail(s, "assert")
          [] ~x.valid /\ x.kind = "value" -> HashLeaf(s, n)
          [] OTHER -> HashMap(FoldLeft(child, s, Digits), n)

Quiet == \A t \in Threads : pc[t] = "idle"

SetMemory(s) == node' = s.node /\ gc' = s.gc /\ log' = s.log /\ failed' = s.failed

\* hash_and_normalize.  Timestamps grow from one hash to the next.
hash_and_normalize(threshold) ==
    LET s == compute_hash_and_normalize(Memory, Root, threshold)
    IN  /\ Quiet /\ round < MaxRound
        /\ SetMemory(s)
        /\ round' = round + 1
        /\ snap' = kv
        /\ UNCHANGED <<thread_vars, kv, calls, loaded, early>>

\* The destructor takes the children along that the node owns.
RECURSIVE Destroyed(_)
Destroyed(n) ==
    {n} \cup (IF node[n].owned THEN UNION {Destroyed(c) : c \in Range(node[n].kids) \ {Null}} ELSE {})

\* do_gc.
do_gc ==
    LET D == UNION {Destroyed(n) : n \in gc}
    IN  /\ Quiet /\ gc # {}
        /\ node' = [n \in DOMAIN node |-> IF n \in D THEN Freed ELSE node[n]]
        /\ gc' = {}
        /\ early' = (early \/ ~node[Root].valid)
        /\ UNCHANGED <<log, failed, round, thread_vars, kv, snap, calls, loaded>>

-----------------------------------------------------------------------------
(* insert and get_value *)

NoArg == [op |-> "none", key |-> ZeroKey, value |-> NoValue]
MayCall == calls < MaxCalls /\ calls' = calls + 1

SetThread(t, p, a, n, e) ==
    /\ pc'  = [pc EXCEPT ![t] = p]
    /\ arg' = [arg EXCEPT ![t] = a]
    /\ cur' = [cur EXCEPT ![t] = n]
    /\ exp' = [exp EXCEPT ![t] = e]
Return(t) == SetThread(t, "idle", NoArg, Null, Null)

\* Call a is made on node n of memory m: insert marks the node, both load the
\* child on the way to the key.  get_value ends at a leaf or a node that does
\* not cover the key.
Arrive(t, a, n, m) ==
    LET x == m[n]
    IN  /\ node' = IF a.op = "ins" THEN invalidate_hash(m, n) ELSE m
        /\ IF Covers(x, a.key) \/ a.op = "get" THEN failed' = failed ELSE failed' = "assert"
        /\ CASE a.op = "get" /\ (is_leaf(x) \/ ~Covers(x, a.key)) -> Return(t)
             [] a.op = "ins" /\ (is_leaf(x) \/ ~Covers(x, a.key)) -> SetThread(t, "leaf", a, n, Null)
             [] OTHER -> SetThread(t, "try", a, n, x.kids[Bits(x, a.key)])

StartInsert(t, k, v) ==
    /\ pc[t] = "idle" /\ MayCall
    /\ Arrive(t, [op |-> "ins", key |-> k, value |-> v], Root, node)
    /\ UNCHANGED <<gc, log, round, kv, snap, loaded, early>>

StartGet(t, k) ==
    /\ pc[t] = "idle" /\ MayCall
    /\ Arrive(t, [op |-> "get", key |-> k, value |-> NoValue], Root, node)
    /\ UNCHANGED <<gc, log, round, kv, snap, loaded, early>>

\* value_merge_fn, which overwrites, or emplace.
InsertMerge(t) ==
    /\ pc[t] = "leaf"
    /\ node' = [node EXCEPT ![cur[t]].value = arg[t].value]
    /\ kv'   = [kv EXCEPT ![arg[t].key] = arg[t].value]
    /\ Return(t)
    /\ UNCHANGED <<gc, log, failed, round, snap, calls, loaded, early>>

Slot(t) == Bits(node[cur[t]], arg[t].key)
SlotUnchanged(t) == node[cur[t]].kids[Slot(t)] = exp[t]

\* The nodes after the compare_exchange, which succeeds.
Swap(t, m, new) == [m EXCEPT ![cur[t]].kids[Slot(t)] = new]

GetAbsent(t) ==
    /\ pc[t] = "try" /\ arg[t].op = "get" /\ exp[t] = Null
    /\ Return(t)
    /\ UNCHANGED <<mem_vars, round, ghosts>>

InsertAttach(t, place) ==
    LET leaf == ValueNode(arg[t].key, round, NullPair, arg[t].value)
        a    == Malloc(node, place)
    IN  /\ pc[t] = "try" /\ arg[t].op = "ins" /\ exp[t] = Null
        /\ SlotUnchanged(t)
        /\ node' = Swap(t, Put(node, a, leaf), a)
        /\ kv' = [kv EXCEPT ![arg[t].key] = arg[t].value]
        /\ Return(t)
        /\ UNCHANGED <<gc, log, failed, round, snap, calls, loaded, early>>

\* get_value does not compare prefixes before it goes down.
Enters(t) == exp[t] # Null /\ (arg[t].op = "get" \/ Covers(node[exp[t]], arg[t].key))

Descend(t) ==
    /\ pc[t] = "try" /\ Enters(t) /\ ~is_evicted(node[exp[t]])
    /\ Arrive(t, arg[t], exp[t], node)
    /\ UNCHANGED <<gc, log, round, ghosts>>

\* Mutant: a reload is published without looking at the slot again.
Reload_Store(t, place) ==
    LET a == Malloc(node, place)
        s == load_evicted_ptr(Memory, exp[t], a)
        m == Swap(t, s.node, a)
    IN  /\ pc[t] = "try" /\ Enters(t) /\ is_evicted(node[exp[t]])
        /\ IF Ok(s) THEN Arrive(t, arg[t], a, m)
           ELSE failed' = s.failed /\ UNCHANGED <<node, thread_vars>>
        /\ loaded' = loaded \cup {node[exp[t]].tsp}
        /\ UNCHANGED <<gc, log, round, kv, snap, calls, early>>

Reload(t, place) ==
    LET a == Malloc(node, place)
        s == load_evicted_ptr(Memory, exp[t], a)
        m == Swap(t, s.node, a)
    IN  /\ pc[t] = "try" /\ Enters(t) /\ is_evicted(node[exp[t]])
        /\ SlotUnchanged(t)
        /\ IF Ok(s) THEN Arrive(t, arg[t], a, m)
           ELSE failed' = s.failed /\ UNCHANGED <<node, thread_vars>>
        /\ loaded' = loaded \cup {node[exp[t]].tsp}
        /\ UNCHANGED <<gc, log, round, kv, snap, calls, early>>

InsertSplit(t, place) ==
    LET a   == Malloc(node, place)
        c   == node[exp[t]]
        l   == MatchLen(c.pfx, c.len, arg[t].key, KeyLen)
        new == [MapNode(arg[t].key, l, round, NullPair) EXCEPT
                   !.kids[BranchBits(c.pfx, l)] = exp[t], !.owned = TRUE]
    IN  /\ pc[t] = "try" /\ exp[t] # Null /\ ~Enters(t)
        /\ SlotUnchanged(t)
        /\ Arrive(t, arg[t], a, Swap(t, Put(node, a, new), a))
        /\ UNCHANGED <<gc, log, round, ghosts>>

\* A compare_exchange fails and the thread goes on with what it finds.
Retry(t) ==
    /\ pc[t] = "try" /\ ~SlotUnchanged(t)
    /\ exp[t] = Null => arg[t].op = "ins"
    /\ Enters(t) => is_evicted(node[exp[t]])
    /\ exp' = [exp EXCEPT ![t] = node[cur[t]].kids[Slot(t)]]
    /\ UNCHANGED <<mem_vars, round, pc, arg, cur, ghosts>>

-----------------------------------------------------------------------------
(* delete_value and subnode references *)

\* The nodes on the way to key k, as far as they are in memory.
PathTo(k) ==
    LET walk[i \in 0 .. KeyLen] ==
            IF i = 0 THEN <<Root>>
            ELSE LET p == walk[i - 1]
                     x == node[p[Len(p)]]
                     c == IF is_leaf(x) \/ is_evicted(x) THEN Null ELSE x.kids[Bits(x, k)]
                 IN  IF c = Null THEN p ELSE Append(p, c)
    IN  walk[KeyLen]
Found(k) == LET x == node[PathTo(k)[Len(PathTo(k))]] IN x.kind = "value" /\ x.pfx = k

\* Mutant: the hashes on the way stay valid.
Invalidated_TsOnly(m, path) == [n \in DOMAIN m |->
    IF n \in Range(path) THEN [m[n] EXCEPT !.ts = round] ELSE m[n]]

Invalidated(m, path) == [n \in DOMAIN m |->
    IF n \in Range(path) THEN [m[n] EXCEPT !.valid = FALSE, !.ts = round] ELSE m[n]]

\* delete_value from the root; the leaf has been loaded before.
delete_value(k) ==
    LET p == PathTo(k)
        leaf == p[Len(p)]
        up == p[Len(p) - 1]
        m == [Invalidated(node, p) EXCEPT ![up].kids[Bits(node[up], k)] = Null]
        s == log_self_deleted([Memory EXCEPT !.node = m], leaf)
    IN  /\ Quiet /\ MayCall /\ Found(k)
        /\ SetMemory(IF Ok(s) THEN [s EXCEPT !.gc = @ \cup {leaf}] ELSE s)
        /\ kv' = [kv EXCEPT ![k] = NoValue]
        /\ UNCHANGED <<round, thread_vars, snap, loaded, early>>

\* delete_value on a leaf that is a subnode, then invalidate_hash_to_node.
ResetSubnode(k) ==
    /\ Quiet /\ MayCall /\ Found(k)
    /\ node' = [Invalidated(node, PathTo(k)) EXCEPT ![PathTo(k)[Len(PathTo(k))]].value = NoValue]
    /\ kv' = [kv EXCEPT ![k] = NoValue]
    /\ UNCHANGED <<gc, log, failed, round, thread_vars, snap, loaded, early>>

\* get_or_make_subnode_ref on node n.
RECURSIVE Subnode(_, _, _, _, _)
Subnode(s, n, k, len, place) ==
    LET x == s.node[n]
        m == invalidate_hash(s.node, n)
        b == Bits(x, k)
        c == x.kids[b]
        l == MatchLen(s.node[c].pfx, s.node[c].len, k, len)
        at  == Malloc(m, place)
        new == IF len = KeyLen THEN ValueNode(k, round, NullPair, NoValue)
               ELSE [MapNode(k, len, round, NullPair) EXCEPT !.owned = TRUE]
        mid == [MapNode(k, l, round, NullPair) EXCEPT
                   !.kids[BranchBits(s.node[c].pfx, l)] = c, !.owned = TRUE]
        grown(y) == [s EXCEPT !.node = Put([m EXCEPT ![n].kids[b] = at], at, y)]
    IN  CASE is_evicted(x) -> Fail(s, "assert")
          [] ~is_evicted(x) /\ x.len = len -> [s EXCEPT !.node = m]
          [] ~is_evicted(x) /\ x.len # len /\ c = Null -> grown(new)
          [] OTHER -> IF l = s.node[c].len THEN Subnode([s EXCEPT !.node = m], c, k, len, place)
                      ELSE Subnode(grown(mid), at, k, len, place)

\* Callers do not ask for subnodes in parts that are evicted.
get_subnode_ref_and_invalidate_hash(k, len, place) ==
    LET s == Subnode(Memory, Root, k, len, place)
    IN  /\ Quiet /\ MayCall /\ Ok(s)
        /\ SetMemory(s)
        /\ UNCHANGED <<round, thread_vars, kv, snap, loaded, early>>

-----------------------------------------------------------------------------
NoMap == [k \in Keys |-> NoValue]

Init ==
    /\ node = <<[MapNode(ZeroKey, 0, 0, NullPair) EXCEPT !.owned = TRUE]>>
    /\ gc = {}
    /\ log = <<>>
    /\ failed = "none"
    /\ round = 1
    /\ pc  = [t \in Threads |-> "idle"]
    /\ arg = [t \in Threads |-> NoArg]
    /\ cur = [t \in Threads |-> Null]
    /\ exp = [t \in Threads |-> Null]
    /\ kv = NoMap
    /\ snap = NoMap
    /\ calls = 0
    /\ loaded = {}
    /\ early = FALSE

Step(t) ==
    \/ \E k \in Keys, v \in Value : StartInsert(t, k, v)
    \/ \E k \in Keys : StartGet(t, k)
    \/ InsertMerge(t) \/ GetAbsent(t) \/ Descend(t) \/ Retry(t)
    \/ \E a \in Places : InsertAttach(t, a) \/ InsertSplit(t, a) \/ Reload(t, a)

\* Nothing happens after an exception, or once another node's data were read.
Next ==
    /\ failed = "none"
    /\ \/ \E t \in Threads : Step(t)
       \/ \E threshold \in {0, round, round + 1} : hash_and_normalize(threshold)
       \/ \E k \in Keys : delete_value(k) \/ ResetSubnode(k)
       \/ \E k \in Keys, len \in SubLen, a \in Places : get_subnode_ref_and_invalidate_hash(k, len, a)
       \/ do_gc

Spec == Init /\ [][Next]_vars
=============================================================================
