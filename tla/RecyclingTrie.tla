---------------------------- MODULE RecyclingTrie ----------------------------
(***************************************************************************)
(* The recycling trie (include/mtt/trie/recycling_impl/): threads fill     *)
(* serial tries of their own, in allocation contexts of their own; the     *)
(* main trie merges them in, one by one (merge_in) or all at once          *)
(* (batch_merge_in, a TBB reduction over a RecyclingBatchMergeRange);      *)
(* clear gives all memory back at once, to be used again as it is.         *)
(*                                                                         *)
(* The calls of the main trie hold its mutex.  Within batch_merge_in the   *)
(* steps are those of MerkleBatchMerge: a split, a merge at an entry point *)
(* and a propagation, each of which locks nodes downwards.                 *)
(***************************************************************************)
EXTENDS RecyclingNode, TrieDigest

CONSTANTS Threads,    \* 1 .. n: the threads, each with its serial trie
          Keys,       \* the keys that calls insert
          Fills,      \* what the tries may hold at first: the sequences of keys
                      \* of the main trie and of each thread, and the calls
                      \* that this counts for
          BufSize,    \* handles of a buffer
          BatchSize,  \* the 256 of batch_merge_in
          Divisible,  \* the 100 of is_divisible
          Slack,      \* the 10 of the splitting constructor
          Modulus,    \* num_children is a uint64_t
          MaxCalls    \* how many calls there are

ASSUME RecyclingAssumption ==
    /\ {BufSize, Divisible, Slack, Modulus, MaxCalls, BatchSize} \subseteq Nat
    /\ Threads = 1 .. Cardinality(Threads)

VARIABLES H,           \* the memory
          buffers,     \* how many buffers were given to contexts
          root,        \* of the main trie
          tries,       \* the roots of the serial tries; Null: not opened
          hash_valid,  \* of the main trie, as
          root_hash,
          stale,       \* the keys whose values parallel_apply has changed below
                       \* hashes that were valid
          ranges,      \* of a batch_merge_in under way
          kv,          \* what the main trie should hold: for each key the values
                       \* that it may have
          given,       \* what each serial trie should hold
          calls        \* how many calls were made

vars == <<H, buffers, root, tries, hash_valid, root_hash, stale, ranges, kv, given, calls>>

\* What the operations work on.
Memory == [h |-> H, buffers |-> buffers, root |-> root, tries |-> tries]
Becomes(s) == H' = s.h /\ buffers' = s.buffers /\ root' = s.root /\ tries' = s.tries

Nothing  == [k \in Keys |-> {}]
KeysOf(f) == {k \in Keys : f[k] # {}}
Over(f, g) == [k \in Keys |-> IF g[k] # {} THEN g[k] ELSE f[k]]
Either(f, g) == [k \in Keys |-> f[k] \cup g[k]]

\* SerialRecyclingTrie: a context with a buffer of its own, and a root.
\* (The handle 0 is that of the first root.)
Opened(s, t) ==
    LET h == [s.h EXCEPT !.pos[t] = s.buffers * BufSize, !.vpos[t] = s.buffers * BufSize]
    IN  [s EXCEPT !.h = init_root_node(h, t), !.tries[t] = h.pos[t], !.buffers = @ + 1]

\* cache.get: the trie of a thread is made when it is first needed.
Got(s, t) == IF s.tries[t] = Null THEN Opened(s, t) ELSE s

acquire_new_root(s, t) == [s EXCEPT !.h = init_root_node(@, t), !.tries[t] = s.h.pos[t]]

Inserted(s, t, k, v) == [s EXCEPT !.h = insert(@, s.tries[t], k, v, t).h]

merge_in_nolock(s, t) ==
    IF get_object(s.h, s.tries[t]).size = 0 THEN s
    ELSE IF s.root = Null THEN acquire_new_root([s EXCEPT !.root = s.tries[t]], t)
    ELSE acquire_new_root([s EXCEPT !.h = merge_in(@, s.root, s.tries[t], t).h], t)

\* A trie that got the keys of w.
Filled(s, t, w) == IF w = << >> THEN s
                   ELSE FoldLeft(LAMBDA x, k : Inserted(x, t, k, t), Got(s, t), w)
Holds(w, v) == [k \in Keys |-> IF k \in ToSet(w) THEN {v} ELSE {}]

-----------------------------------------------------------------------------
(* RecyclingBatchMergeRange.  started, executing, delta: execute has begun, *)
(* the entry point whose tries are merged, what these merges returned.     *)

Range_(entry_points, banned, num) ==
    [entry_points |-> entry_points, banned_branches |-> banned, num_children |-> num,
     started |-> FALSE, executing |-> Null, delta |-> 0]
Drop(f, e) == [d \in DOMAIN f \ {e} |-> f[d]]
empty(r) == DOMAIN r.entry_points = {}
is_divisible(r) == r.num_children >= Divisible /\ ~ empty(r)

\* The splitting constructor: s.other is split, s.new constructed.  It takes
\* whole entry points, in whatever order the unordered map has them.
RECURSIVE TakeEntries(_, _)
TakeEntries(s, half) ==
    IF s.new.num_children >= half \/ Cardinality(DOMAIN s.other.entry_points) <= 1 THEN {s}
    ELSE UNION {LET n == get_object(s.h, e).size
                IN  TakeEntries([s EXCEPT
                        !.new.entry_points = (e :> s.other.entry_points[e]) @@ @,
                        !.new.num_children = @ + n,
                        !.other.entry_points = Drop(@, e),
                        !.other.num_children = (@ - n) % Modulus], half)
                : e \in DOMAIN s.other.entry_points}

StealPrefix(theft_root, b) == [theft_root.pfx EXCEPT ![theft_root.len + 1] = b]

\* What belongs to the child of theft_root with digit b is stolen from one of
\* the tries; the thread t provides memory.
StealFrom(a, q, theft_root, b, t) ==
    LET r == destructive_steal_child(a.h, q, StealPrefix(theft_root, b), theft_root.len + 1, t)
    IN  [h |-> r.h, stolen |-> IF r.ptr = Null THEN a.stolen ELSE Append(a.stolen, r.ptr)]

\* The child becomes an entry point of the new range, a banned branch of the
\* other.
Steal(s, theft_root, e, b, t) ==
    LET candidate == ChildPtr(theft_root, b)
        a == FoldLeft(LAMBDA x, q : StealFrom(x, q, theft_root, b, t),
                      [h |-> s.h, stolen |-> << >>], s.other.entry_points[e])
        size == get_object(s.h, candidate).size
    IN  [s EXCEPT !.h = a.h,
                  !.new = IF a.stolen = << >> THEN @
                          ELSE [@ EXCEPT !.entry_points = (candidate :> a.stolen) @@ @,
                                         !.num_children = @ + size],
                  !.other = [@ EXCEPT !.banned_branches = @ \cup {candidate},
                                      !.num_children = (@ - size) % Modulus]]

\* While the new range has less, the last of the stealable children is stolen;
\* the one that is left becomes the next theft_root.
RECURSIVE StealLoop(_, _, _, _, _)
StealLoop(s, p, e, stealable, t) ==
    LET theft_root == get_object(s.h, p)
        next == IF stealable = << >> THEN p ELSE ChildPtr(theft_root, stealable[1])
        now  == get_object(s.h, next)
        open == SelectSeq(DigitsOf(now), LAMBDA b : ChildPtr(now, b) \notin s.other.banned_branches)
    IN  IF s.new.num_children + Slack >= s.other.num_children THEN s
        ELSE IF Len(stealable) > 1
        THEN StealLoop(Steal(s, theft_root, e, Last(stealable), t), p, e, Front(stealable), t)
        ELSE IF is_leaf(now) THEN s
        ELSE IF open = << >> THEN [s EXCEPT !.h = Thrown(@)]
        ELSE StealLoop(s, next, e, open, t)

\* All results that splitting the range r may have, in the thread t.
Splits(r, h, t) ==
    LET half == r.num_children \div 2
        theft(s) == CHOOSE e \in DOMAIN s.other.entry_points : TRUE
    IN  {IF s.new.num_children >= half THEN s ELSE StealLoop(s, theft(s), theft(s), << >>, t) :
            s \in TakeEntries([new |-> Range_(<< >>, r.banned_branches, 0), other |-> r, h |-> h], half)}

-----------------------------------------------------------------------------
Start == [h |-> [mem |-> << >>, vals |-> << >>, pos |-> [t \in Threads |-> 0],
                 vpos |-> [t \in Threads |-> 0], thrown |-> FALSE],
          buffers |-> 0, root |-> Null, tries |-> [t \in Threads |-> Null]]

\* The first thread has filled the main trie, then each its own.
Init == \E f \in Fills :
    LET main == IF f.main = << >> THEN Start ELSE merge_in_nolock(Filled(Start, 1, f.main), 1)
        s == FoldLeft(LAMBDA x, t : Filled(x, t, f.tries[t]), main, [i \in 1 .. Len(f.tries) |-> i])
    IN  /\ H = s.h /\ buffers = s.buffers /\ root = s.root /\ tries = s.tries
        /\ hash_valid = FALSE /\ root_hash = NoHash /\ stale = {} /\ ranges = << >>
        /\ kv = Holds(f.main, 1)
        /\ given = [t \in Threads |-> IF t <= Len(f.tries) THEN Holds(f.tries[t], t) ELSE Nothing]
        /\ calls = f.calls

Idle == ranges = << >> /\ ~ H.thrown
Call == Idle /\ calls < MaxCalls /\ calls' = calls + 1

\* open_serial_subsidiary, or the cache's get.
Open(t) ==
    /\ Call /\ tries[t] = Null
    /\ Becomes(Opened(Memory, t))
    /\ UNCHANGED <<stale, hash_valid, root_hash, ranges, kv, given>>

Insert(t, k, v) ==
    /\ Call /\ tries[t] # Null
    /\ Becomes(Inserted(Memory, t, k, v))
    /\ given' = [given EXCEPT ![t][k] = {v}]
    /\ UNCHANGED <<stale, hash_valid, root_hash, ranges, kv>>

\* A trie that is empty changes nothing.
MergeIn(t) ==
    /\ Call /\ tries[t] # Null
    /\ get_object(H, tries[t]).size > 0
    /\ Becomes(merge_in_nolock(Memory, t))
    /\ hash_valid' = FALSE /\ stale' = stale \ KeysOf(given[t])
    /\ kv' = Over(kv, given[t]) /\ given' = [given EXCEPT ![t] = Nothing]
    /\ UNCHANGED <<root_hash, ranges>>

\* The loop of batch_merge_in over the cache: small tries are merged in, and
\* when the main trie is large the roots of the others are collected.
Collected(a, t) ==
    IF a.s.tries[t] = Null THEN a
    ELSE IF a.s.root # Null /\ get_object(a.s.h, a.s.root).size >= BatchSize
    THEN [a EXCEPT !.s = acquire_new_root(@, t), !.ptrs = Append(@, a.s.tries[t]),
                   !.late = Either(@, given[t])]
    ELSE [a EXCEPT !.s = merge_in_nolock(@, t), !.kv = Over(@, given[t])]

\* Without roots the call is over, and the cache is cleared.
BatchMergeIn ==
    LET a == FoldLeft(Collected, [s |-> Memory, ptrs |-> << >>, kv |-> kv, late |-> Nothing],
                      [i \in 1 .. Cardinality(Threads) |-> i])
        none == a.ptrs = << >>
    IN  /\ Call
        /\ Becomes(IF none THEN [a.s EXCEPT !.tries = [t \in Threads |-> Null]] ELSE a.s)
        /\ hash_valid' = FALSE /\ stale' = stale \ UNION {KeysOf(given[t]) : t \in Threads}
        /\ ranges' = IF none THEN << >>
                     ELSE <<Range_(a.s.root :> a.ptrs, {}, get_object(a.s.h, a.s.root).size)>>
        /\ kv' = Over(a.kv, a.late) /\ given' = [t \in Threads |-> Nothing]
        /\ UNCHANGED root_hash

\* The range i is the thread i's.
SplitRange(i) ==
    LET g == Got(Memory, i)
    IN  /\ ~ H.thrown /\ Len(ranges) < Cardinality(Threads)
        /\ ~ ranges[i].started /\ is_divisible(ranges[i])
        /\ \E s \in Splits(ranges[i], g.h, i) :
              /\ Becomes([g EXCEPT !.h = s.h])
              /\ ranges' = Append([ranges EXCEPT ![i] = s.other], s.new)
        /\ UNCHANGED <<stale, hash_valid, root_hash, kv, given, calls>>

\* execute: the next trie of the entry point e.
Merge(i, e) ==
    LET r == ranges[i]
        q == Head(r.entry_points[e])
        g == Got(Memory, i)
        m == IF get_object(H, q).size = 0 THEN Changed(g.h, 0) ELSE merge_in(g.h, e, q, i)
    IN  /\ ~ H.thrown /\ r.executing \in {Null, e}
        /\ r.entry_points[e] # << >>
        /\ Becomes([g EXCEPT !.h = m.h])
        /\ ranges' = [ranges EXCEPT ![i] = [@ EXCEPT !.started = TRUE, !.executing = e,
                                                     !.entry_points[e] = Tail(@),
                                                     !.delta = @ + m.delta]]
        /\ UNCHANGED <<stale, hash_valid, root_hash, kv, given, calls>>

\* execute: when the tries of an entry point are merged.
Propagate(i) ==
    LET r == ranges[i]
    IN  /\ ~ H.thrown /\ r.executing # Null
        /\ r.entry_points[r.executing] = << >>
        /\ H' = propagate_sz_delta(H, root, r.executing, r.delta)
        /\ ranges' = [ranges EXCEPT ![i] = [@ EXCEPT !.executing = Null, !.delta = 0,
                                                     !.entry_points = Drop(@, r.executing)]]
        /\ UNCHANGED <<buffers, root, tries, stale, hash_valid, root_hash, kv, given, calls>>

\* parallel_reduce returns, and the cache is cleared.
BatchReturn ==
    /\ ~ H.thrown /\ ranges # << >> /\ \A i \in DOMAIN ranges : empty(ranges[i])
    /\ ranges' = << >> /\ tries' = [t \in Threads |-> Null]
    /\ UNCHANGED <<H, buffers, root, stale, hash_valid, root_hash, kv, given, calls>>

\* hash and get_root_hash; the serial tries have no hashes.
Hash ==
    LET h == IF root = Null THEN H ELSE compute_hash(H, root)
        n == get_object(h, root)
    IN  /\ Call /\ ~ hash_valid
        /\ H' = h /\ hash_valid' = TRUE
        /\ root_hash' = IF root = Null THEN NoHash ELSE [size |-> n.size, hash |-> n.hash]
        /\ UNCHANGED <<buffers, root, tries, stale, ranges, kv, given>>

\* parallel_apply, with a function that changes every value.  It invalidates
\* no hash.
NewValue(v) == v + 10
ParallelApply ==
    LET leaves == {get_object(H, p) : p \in ToSet(Leaves(H, root))}
        at == {l.children.ptr : l \in leaves}
    IN  /\ Call /\ root # Null
        /\ stale' = stale \cup {l.pfx : l \in {n \in leaves : n.valid}}
        /\ H' = [H EXCEPT !.vals = [p \in DOMAIN @ |-> IF p \in at THEN NewValue(@[p]) ELSE @[p]]]
        /\ kv' = [k \in Keys |-> {NewValue(v) : v \in kv[k]}]
        /\ UNCHANGED <<buffers, root, tries, hash_valid, root_hash, ranges, given>>

\* clear: all buffers can be given out again; nobody uses a context from
\* before.
Clear ==
    /\ Call
    /\ buffers' = 0 /\ root' = Null /\ hash_valid' = FALSE /\ stale' = {}
    /\ tries' = [t \in Threads |-> Null]
    /\ kv' = Nothing /\ given' = [t \in Threads |-> Nothing]
    /\ UNCHANGED <<H, root_hash, ranges>>

Next ==
    \/ \E t \in Threads : Open(t) \/ MergeIn(t) \/ \E k \in Keys : Insert(t, k, t)
    \/ BatchMergeIn \/ BatchReturn \/ Hash \/ ParallelApply \/ Clear
    \/ \E i \in DOMAIN ranges :
          \/ SplitRange(i)
          \/ \E e \in DOMAIN ranges[i].entry_points : Merge(i, e)
          \/ Propagate(i)

Spec == Init /\ [][Next]_vars

-----------------------------------------------------------------------------
\* The roots of the tries that wait to be merged.
Waiting == UNION {UNION {ToSet(ranges[i].entry_points[e]) : e \in DOMAIN ranges[i].entry_points} :
                     i \in DOMAIN ranges}

\* All tries there are.
Roots == {p \in {root} \cup {tries[t] : t \in Threads} \cup Waiting : p # Null}

\* The handles below p, as often as they are reached; the lengths grow.
RECURSIVE Reached(_), ReachedFrom(_)
Reached(p) ==
    LET n == get_object(H, p)
        ds == SelectSeq(DigitsOf(n), LAMBDA b : get_object(H, ChildPtr(n, b)).len > n.len)
    IN  <<p>> \o ReachedFrom([i \in DOMAIN ds |-> ChildPtr(n, ds[i])])
ReachedFrom(w) == IF w = << >> THEN << >> ELSE Reached(Head(w)) \o ReachedFrom(Tail(w))

InUse == UNION {ToSet(Reached(p)) : p \in Roots}

\* No exception: nothing is merged from a stolen node, no child is taken that
\* is not there, no node with one child is inserted into, and so on.
NothingThrown == ~ H.thrown

\* No handle is part of two tries, or of one trie twice; no two leaves share
\* the handle of a value; nothing that is in use was stolen or cleared; slots
\* have what their digits say; and no call throws.
HandlesOwned ==
    LET count(p) == Len(Reached(p))
        leaves == {p \in InUse : is_leaf(get_object(H, p))}
    IN  /\ NothingThrown
        /\ Cardinality(InUse) = MapThenSumSet(count, Roots)
        /\ \A p \in InUse :
              LET n == get_object(H, p)
              IN  /\ n.children.tag = (CASE is_leaf(n) -> "VALUE"
                                         [] n.len = 0 /\ n.size = 0 /\ Children(n) = {} -> n.children.tag
                                         [] OTHER -> "MAP")
                  /\ ~ IsStolen(n)
                  /\ \A b \in Children(n) :
                        LET c == get_object(H, ChildPtr(n, b))
                        IN  c.len > n.len /\ IsPrefixOf(n.pfx, n.len, c.pfx, c.len) /\ BranchBits(c.pfx, n.len) = b
        /\ Cardinality({get_object(H, p).children.ptr : p \in leaves}) = Cardinality(leaves)

\* What a trie holds is what was put into it.
Exactly(p, f) ==
    /\ \A k \in Keys : IF f[k] = {} THEN p = Null \/ get_value(H, p, k) = NoValue
                       ELSE p # Null /\ get_value(H, p, k) \in f[k]
    /\ p # Null => /\ Len(Leaves(H, p)) = Cardinality({k \in Keys : f[k] # {}})
                   /\ get_object(H, p).size = Len(Leaves(H, p))

\* Between the calls each trie, the main trie and the serial ones, holds what
\* the calls have put into it, whatever its memory was used for before.
ContentsExact ==
    Idle => Exactly(root, kv) /\ \A t \in Threads : tries[t] # Null => Exactly(tries[t], given[t])

\* During batch_merge_in a key is in the main trie or in a trie that waits, and
\* the sizes in the main trie are exact, but for what is yet to be propagated.
BatchAccounted ==
    ranges # << >> =>
        /\ \A k \in Keys : kv[k] # {} =>
              \E p \in {root} \cup Waiting : \E l \in ToSet(Leaves(H, p)) : get_object(H, l).pfx = k
        /\ \A p \in ToSet(Reached(root)) :
              LET due == {i \in DOMAIN ranges : ranges[i].executing \in ToSet(Reached(p)) \ {p}}
              IN  get_object(H, p).size + MapThenSumSet(LAMBDA i : ranges[i].delta, due) = Len(Leaves(H, p))

\* A valid root hash is that of what the main trie holds, although the hashes
\* of nodes are kept over merges, moved along with nodes, and left in memory
\* that is used again.  The exception are tries with values that were changed
\* below valid hashes: parallel_apply and parallel_batch_value_modify
\* (recycling_impl/trie.h:802-830) invalidate neither the hashes of the nodes
\* nor that of the trie, until a merge overwrites the keys or clear is called.
RootHashCanonical ==
    (hash_valid /\ root # Null /\ stale = {}) =>
        LET K == {get_object(H, p).pfx : p \in ToSet(Leaves(H, root))}
        IN  root_hash = [size |-> Cardinality(K),
                         hash |-> Digests([k \in K |-> get_value(H, root, k)], NoValue, NoHash)[K]]
=============================================================================
