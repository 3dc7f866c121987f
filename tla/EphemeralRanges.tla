--------------------------- MODULE EphemeralRanges --------------------------
(***************************************************************************)
(* Parallel work on a finished ephemeral trie: the TBB ranges of           *)
(* include/mtt/ephemeral_trie/ranges.h and the loops over them in          *)
(* accumulate_values_parallel, parallel_batch_value_modify and hash.       *)
(*                                                                         *)
(* No thread inserts while these run, so the trie is the compressed trie   *)
(* of its set of keys (see EphemeralTrieInv), and a node is represented by *)
(* the keys below it and its length; the size in its child word is their   *)
(* number.  The scheduler splits a divisible range or executes it, as it   *)
(* likes.                                                                  *)
(***************************************************************************)
EXTENDS TrieDigest, Sequences, FiniteSets

CONSTANTS Keys,          \* the keys a trie may have
          Kinds,         \* which of "accumulate", "apply", "hash" are used
          GrainSize,     \* GRAIN_SIZE
          HashGrain,     \* the threshold of EphemeralTrieHashRange, 1000
          MaxSplitLen    \* max_split_len

ASSUME KeysAssumption  == Keys \subseteq Key /\ IsFiniteSet(Keys)
ASSUME KindsAssumption == Kinds \subseteq {"accumulate", "apply", "hash"}
ASSUME GrainAssumption == GrainSize \in Nat \ {0} /\ HashGrain \in Nat \ {0}
ASSUME SplitAssumption == MaxSplitLen \in PrefixLen

VARIABLES trie,    \* the keys of the trie
          kind,    \* the parallel_for that runs, or "none"
          pool,    \* the ranges that exist and were not executed
          out,     \* accumulate: what was written to each place of the vector
          visited, \* how often each key was visited
          failed   \* an assertion of a splitting constructor failed, or it did not end

vars == <<trie, kind, pool, out, visited, failed>>

-----------------------------------------------------------------------------
(* Nodes *)

\* The root, and the node of a compressed trie above the keys S.
Root    == [keys |-> trie, len |-> 0]
Node(S) == [keys |-> S, len |-> SharedLen(S)]
Size(n) == Cardinality(n.keys)

\* children_list and children_and_sizes_list: the children that exist, in the
\* order of their digits.
Digits(n) == {b \in Branch : Towards(n.keys, n.len, b) # {}}
Nth(D, i) == CHOOSE b \in D : Cardinality({d \in D : d < b}) = i - 1

Children(n) ==
    IF n.len = KeyLen THEN << >>
    ELSE [i \in 1 .. Cardinality(Digits(n)) |->
             Node(Towards(n.keys, n.len, Nth(Digits(n), i)))]

\* The keys below the nodes of a work list.
KeysOf(w) == UNION {w[i].keys : i \in DOMAIN w}

\* accumulate_values_parallel_worker: how far after the place given to node n
\* it puts the value of key k.  On the way it adds the sizes of the children
\* that it passes before the one it goes down into.
Passed(S, l, k) == {j \in S : j[l + 1] < k[l + 1]}

Place(n, k) ==
    LET place[S \in {T \in SUBSET n.keys : k \in T}] ==
            LET l == SharedLen(S)
            IN  IF l = KeyLen THEN 0
                ELSE Cardinality(Passed(S, l, k)) + place[Towards(S, l, k[l + 1])]
    IN  place[n.keys]

-----------------------------------------------------------------------------
(* Ranges *)

NewRange(w, size, offset) ==
    [work_list |-> w, work_size |-> size, vector_offset |-> offset,
     splittable |-> TRUE]

\* The range that covers the whole trie.
WholeRange(kd) ==
    NewRange(IF kd = "hash" THEN <<Root>> ELSE Children(Root), Cardinality(trie), 0)

\* Mutant: a range that cannot be split is divisible.
is_divisible_Always(r) ==
    r.work_size > (IF kind = "hash" THEN HashGrain ELSE GrainSize)

is_divisible(r) ==
    CASE kind = "accumulate" -> r.work_size > GrainSize
      [] kind = "apply"      -> r.work_size > GrainSize /\ r.splittable
      [] kind = "hash"       -> r.work_size > HashGrain

\* A splitting constructor at work: the new range, the other one, whether its
\* assertions have held.
Split(new, other, ok) == [new |-> new, other |-> other, ok |-> ok]

\* The same range with other work.
WithWork(r, w, size, offset) ==
    [work_list |-> w, work_size |-> size, vector_offset |-> offset,
     splittable |-> r.splittable]

\* Mutant: the other range keeps its offset.
MoveFirst_KeepOffset(new, other) ==
    LET c == Head(other.work_list)
        n == Size(c)
    IN  Split(WithWork(new, Append(new.work_list, c), new.work_size + n, new.vector_offset),
              WithWork(other, Tail(other.work_list), other.work_size - n, other.vector_offset),
              TRUE)

\* The first node of the other work list goes to the new range.
MoveFirst(new, other) ==
    LET c == Head(other.work_list)
        n == Size(c)
    IN  Split(WithWork(new, Append(new.work_list, c), new.work_size + n, new.vector_offset),
              WithWork(other, Tail(other.work_list), other.work_size - n, other.vector_offset + n),
              TRUE)

\* EphemeralTrieApplyRange opens no node of length max_split_len or more.
MayOpen(n) == n.len < MaxSplitLen

\* A single node is replaced by its children.
Opened(w) == IF Len(w) = 1 THEN Children(w[1]) ELSE w
WithList(r, w) == [r EXCEPT !.work_list = w]

\* One round of the loops of the three splitting constructors.
AccumulateRound(s) ==
    LET other == WithList(s.other, Opened(s.other.work_list))
    IN  IF Len(other.work_list) \in {0, 1} THEN Split(s.new, other, FALSE)
        ELSE MoveFirst(s.new, other)

ApplyRound(s) ==
    LET w == s.other.work_list
    IN  CASE Len(w) = 0 -> Split(s.new, s.other, FALSE)
          [] Len(w) = 1 ->
                IF MayOpen(w[1])
                THEN Split(s.new, WithList(s.other, Children(w[1])), TRUE)
                ELSE Split(s.new, [s.other EXCEPT !.splittable = FALSE], TRUE)
          [] OTHER -> MoveFirst(s.new, s.other)

HashRound(s) ==
    LET other == WithList(s.other, Opened(s.other.work_list))
    IN  IF Len(other.work_list) = 0 THEN Split(s.new, other, FALSE)
        ELSE MoveFirst(s.new, other)

\* The loops end when the new range has half of the work; a failed assertion
\* and the early return of EphemeralTrieApplyRange end them as well.
Ended(s, half) == s.new.work_size >= half \/ ~s.ok \/ ~s.other.splittable

Round(s, half) ==
    IF Ended(s, half) THEN s
    ELSE CASE kind = "accumulate" -> AccumulateRound(s)
           [] kind = "apply"      -> ApplyRound(s)
           [] kind = "hash"       -> HashRound(s)

\* The whole loop; work_size rounds are enough for it to end (see AssertsHold).
SplitRange(r) ==
    LET half == r.work_size \div 2
        run[i \in 0 .. r.work_size] ==
            IF i = 0 THEN Split(NewRange(<< >>, 0, r.vector_offset), r, TRUE)
            ELSE Round(run[i - 1], half)
    IN  run[r.work_size]

-----------------------------------------------------------------------------
NoKey == << >>

\* A parallel_for starts; it does nothing with an empty range.  resize gives
\* the vector size() places.
Start(kd) ==
    /\ kind = "none"
    /\ kind' = kd
    /\ pool' = IF trie = {} THEN {} ELSE {WholeRange(kd)}
    /\ out'  = [i \in 1 .. (IF kd = "accumulate" THEN Cardinality(trie) ELSE 0)
                    |-> NoKey]
    /\ visited' = [k \in Keys |-> 0]
    /\ UNCHANGED <<trie, failed>>

\* TBB divides a range.
Divide(r) ==
    /\ r \in pool
    /\ is_divisible(r)
    /\ LET s == SplitRange(r)
       IN  /\ pool' = (pool \ {r}) \cup {s.new, s.other}
           /\ failed' = (failed \/ ~s.ok \/ ~Ended(s, r.work_size \div 2))
    /\ UNCHANGED <<trie, kind, out, visited>>

\* What the loop over a work list has added to the offset before node q.
Advance(w, q) ==
    LET sum[p \in 1 .. Len(w)] == IF p = 1 THEN 0 ELSE sum[p - 1] + Size(w[p - 1])
    IN  sum[q]

\* The places that accumulate writes, with what it writes there.
Writes(r) ==
    UNION {{[at |-> r.vector_offset + Advance(r.work_list, q) + Place(r.work_list[q], k) + 1,
             key |-> k] : k \in r.work_list[q].keys} : q \in DOMAIN r.work_list}

\* The body of the parallel_for runs on a range.
Execute(r) ==
    /\ r \in pool
    /\ pool' = pool \ {r}
    /\ LET writes == Writes(r)
       IN  out' = [i \in DOMAIN out |->
                      IF \E x \in writes : x.at = i
                      THEN (CHOOSE x \in writes : x.at = i).key ELSE out[i]]
    /\ visited' = [k \in Keys |->
                      visited[k] + Cardinality({q \in DOMAIN r.work_list :
                                                   k \in r.work_list[q].keys})]
    /\ UNCHANGED <<trie, kind, failed>>

Finish ==
    /\ kind # "none"
    /\ pool = {}
    /\ kind' = "none"
    /\ visited' = [k \in Keys |-> 0]
    /\ out' = << >>
    /\ UNCHANGED <<trie, pool, failed>>

Init ==
    /\ trie \in SUBSET Keys
    /\ kind = "none"
    /\ pool = {}
    /\ out = << >>
    /\ visited = [k \in Keys |-> 0]
    /\ failed = FALSE

Next ==
    \/ \E kd \in Kinds : Start(kd)
    \/ \E r \in pool : Divide(r) \/ Execute(r)
    \/ Finish

Spec == Init /\ [][Next]_vars

\* The scheduler gets on with the ranges there are.
FairSpec == Spec /\ WF_vars(\E r \in pool : Divide(r) \/ Execute(r))
                 /\ WF_vars(Finish)

-----------------------------------------------------------------------------
\* The work of all ranges and what was visited already are the keys of the
\* trie, each exactly once, and the size of each range is the number of its
\* keys: no split drops a subtrie or gives it to two workers.
Partition ==
    kind # "none" =>
        /\ \A r \in pool : r.work_size = Cardinality(KeysOf(r.work_list))
        /\ \A k \in Keys :
              visited[k] + Cardinality({ri \in UNION {{r} \X DOMAIN r.work_list : r \in pool} :
                                            k \in ri[1].work_list[ri[2]].keys})
                  = IF k \in trie THEN 1 ELSE 0

\* LexBefore: the order of the keys.
LexBefore(j, k) == \E i \in 1 .. KeyLen : j[i] < k[i] /\ \A h \in 1 .. i - 1 : j[h] = k[h]

\* When accumulate_values_parallel is done, the vector holds every key of the
\* trie, in order, although ranges were split and executed in any order: the
\* offsets that the ranges carry fit together.
VectorSorted ==
    kind = "accumulate" /\ pool = {} =>
        /\ {out[i] : i \in DOMAIN out} = trie
        /\ \A i \in 1 .. Len(out) - 1 : LexBefore(out[i], out[i + 1])

\* Two nodes that different workers of parallel_batch_value_modify hold have
\* different prefixes when these are truncated to max_split_len, so that the
\* workers may ask for disjoint subnodes of that length in another trie.
SplitsDisjoint ==
    kind = "apply" =>
        \A r, s \in pool : r # s =>
            \A j \in KeysOf(r.work_list), k \in KeysOf(s.work_list) :
                Truncate(j, MaxSplitLen) # Truncate(k, MaxSplitLen)

\* No print_assert of a splitting constructor fails, no hash range runs out of
\* nodes, since a node that is opened has at least two children, and the loop
\* ends.
AssertsHold == ~failed

\* The workers share the trie without gaps, overlaps or failed assertions,
\* however ranges are split while others run.
WorkPartitioned == Partition /\ VectorSorted /\ SplitsDisjoint /\ AssertsHold

\* Whatever is started gets done: ranges are not divided for ever.
WorkDone == (kind # "none") ~> (kind = "none")

-----------------------------------------------------------------------------
(* The inductive invariant *)

\* The place of key k in the order of S.
Before(S, k) == {j \in S : LexBefore(j, k)}
Rank(S, k)   == Cardinality(Before(S, k))

\* The nodes of a work list: nodes of the compressed trie, in the order of
\* their keys; only the range of hash starts with the root itself.
NodeOK(n) ==
    /\ n.keys \subseteq trie /\ n.keys # {}
    /\ n = Node(n.keys) \/ (kind = "hash" /\ n = Root)

ListOK(w) ==
    /\ w \in Seq([keys : SUBSET trie, len : PrefixLen])
    /\ \A i \in DOMAIN w : NodeOK(w[i])
    /\ \A i, j \in DOMAIN w : i < j =>
          \A x \in w[i].keys, y \in w[j].keys : LexBefore(x, y)

\* The keys A and B lie in different subtries of length max_split_len.
Apart(A, B) == \A x \in A, y \in B : Truncate(x, MaxSplitLen) # Truncate(y, MaxSplitLen)

ListApart(w) == \A i, j \in DOMAIN w : i # j => Apart(w[i].keys, w[j].keys)

\* K has consecutive places in the order of the trie, the first one at o.
Placed(K, o) == \A k \in K : Rank(trie, k) = o + Rank(K, k)

RangeOK(r) ==
    /\ r \in [work_list : Seq([keys : SUBSET trie, len : PrefixLen]), work_size : Nat,
              vector_offset : Nat, splittable : BOOLEAN]
    /\ ListOK(r.work_list)
    /\ r.work_size = Cardinality(KeysOf(r.work_list))
    /\ kind = "accumulate" => Placed(KeysOf(r.work_list), r.vector_offset)
    /\ kind = "apply" => ListApart(r.work_list)
    /\ kind # "apply" => r.splittable

\* Two ranges have no key in common, and no range has one that was visited.
PoolOK ==
    /\ \A r, s \in pool : r # s => KeysOf(r.work_list) \cap KeysOf(s.work_list) = {}
    /\ \A k \in Keys :
          /\ visited[k] \in {0, 1}
          /\ visited[k] = 1 => k \in trie /\ \A r \in pool : k \notin KeysOf(r.work_list)
          /\ visited[k] = 0 /\ k \in trie /\ kind # "none" =>
                \E r \in pool : k \in KeysOf(r.work_list)

\* What was visited is where its place in the order is.
OutOK ==
    kind = "accumulate" =>
        /\ DOMAIN out = 1 .. Cardinality(trie) /\ out = [i \in DOMAIN out |-> out[i]]
        /\ \A k \in trie : visited[k] = 1 => out[Rank(trie, k) + 1] = k

RangesInv ==
    /\ trie \subseteq Keys
    /\ kind \in Kinds \cup {"none"}
    /\ kind = "none" => pool = {}
    /\ \A r \in pool : RangeOK(r)
    /\ PoolOK
    /\ OutOK
    /\ SplitsDisjoint
    /\ AssertsHold

=============================================================================
