---------------------------- MODULE MerkleRanges ----------------------------
(***************************************************************************)
(* The TBB ranges over a Merkle trie that nobody modifies                  *)
(* (include/mtt/trie/ranges.h: HashRange, ApplyRange and                   *)
(* AccumulateValuesRange) and the loops that use them.                     *)
(***************************************************************************)
EXTENDS MerkleTrieNode

CONSTANTS GrainSize   \* GRAIN_SIZE, and the 1000 of HashRange

ASSUME GrainAssumption == GrainSize \in Nat \ {0}

\* The kind of a range is "hash", "apply" or "accumulate".  HashRange does not
\* count the leaves that are marked.
SizeFor(kind, x) == IF kind = "hash" THEN x.meta.size - x.meta.deleted ELSE x.meta.size

Range_(w, size, offset) == [work_list |-> w, work_size |-> size, vector_offset |-> offset,
                                throws |-> FALSE]
WholeRange(kind, root) == Range_(<<root>>, SizeFor(kind, root), 0)

is_divisible(r) == r.work_size > GrainSize /\ ~ r.throws

\* AccumulateValuesRange insists on two nodes to choose from, ApplyRange on one.
SplitThrows(kind, w) == \/ kind = "accumulate" /\ Len(w) <= 1
                        \/ kind = "apply" /\ w = << >>

\* Mutant: the other range keeps its offset.
MoveFirst_KeepOffset(kind, new, other) ==
    LET n == SizeFor(kind, Head(other.work_list))
    IN  <<[new EXCEPT !.work_list = Append(@, Head(other.work_list)), !.work_size = @ + n],
          [other EXCEPT !.work_list = Tail(@), !.work_size = @ - n]>>

\* The first node of the work list changes hands.
MoveFirst(kind, new, other) ==
    LET n == SizeFor(kind, Head(other.work_list))
    IN  <<[new EXCEPT !.work_list = Append(@, Head(other.work_list)), !.work_size = @ + n],
          [other EXCEPT !.work_list = Tail(@), !.work_size = @ - n, !.vector_offset = @ + n]>>

\* The loop of the splitting constructors, while the new range has less than
\* half of the work; a work list of one node is replaced by its children.
RECURSIVE SplitRange(_, _, _, _)
SplitRange(kind, new, other, half) ==
    LET opened == IF Len(other.work_list) = 1
                  THEN [other EXCEPT !.work_list = children_list(Head(@))] ELSE other
        moved  == MoveFirst(kind, new, opened)
    IN  IF new.work_size >= half THEN <<new, other>>
        ELSE IF SplitThrows(kind, opened.work_list) THEN <<new, [opened EXCEPT !.throws = TRUE]>>
        ELSE IF opened.work_list = << >> THEN <<new, opened>>
        ELSE IF kind = "apply" /\ opened # other THEN SplitRange(kind, new, opened, half)
        ELSE SplitRange(kind, moved[1], moved[2], half)

\* The ranges that are executed when every divisible range is split.  (A range
\* without nodes, which counts of marked leaves that are off may leave with
\* work_size, does nothing however it is split.)
RECURSIVE Pieces(_, _)
Pieces(kind, r) ==
    LET s == SplitRange(kind, Range_(<< >>, 0, r.vector_offset), r, r.work_size \div 2)
    IN  IF ~ is_divisible(r) \/ r.work_list = << >> THEN {r} ELSE Pieces(kind, s[1]) \cup Pieces(kind, s[2])

\* accumulate_values_parallel: the leaves, by the place of the vector they
\* are written to, or Null when a split throws.
accumulate_values_parallel(root) ==
    LET P == Pieces("accumulate", WholeRange("accumulate", root))
        written(r) == {<<r.vector_offset + i, LeavesOf(r.work_list)[i]>> :
                          i \in DOMAIN LeavesOf(r.work_list)}
    IN  IF \E r \in P : r.throws THEN Null ELSE UNION {written(r) : r \in P}

\* parallel_apply: how often each key is met.
parallel_apply(root, k) ==
    LET P == Pieces("apply", WholeRange("apply", root))
    IN  MapThenSumSet(LAMBDA r : Cardinality({i \in DOMAIN LeavesOf(r.work_list) :
                                                  LeavesOf(r.work_list)[i].pfx = k}), P)

\* The trie after compute_hash of the nodes in the work lists.
RECURSIVE HashBelow(_, _)
HashBelow(x, W) ==
    IF <<x.pfx, x.len>> \in W THEN compute_hash(x)
    ELSE [x EXCEPT !.kids = [b \in DOMAIN x.kids |-> HashBelow(x.kids[b], W)]]

\* hash: the pieces, then the root.
HashInPieces(root) ==
    LET W == UNION {{<<r.work_list[i].pfx, r.work_list[i].len>> : i \in DOMAIN r.work_list} :
                       r \in Pieces("hash", WholeRange("hash", root))}
    IN  compute_hash(HashBelow(root, W))
=============================================================================
