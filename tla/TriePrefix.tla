----------------------------- MODULE TriePrefix -----------------------------
(***************************************************************************)
(* Fixed-length keys and their prefixes (include/mtt/common/prefix.h).     *)
(*                                                                         *)
(* A key is read BRANCH_BITS = 4 bits at a time; the model keeps one       *)
(* element of Branch per such digit, so a length of len bits in the code   *)
(* is len / BRANCH_BITS here.  As in the code, the prefix stored in a node *)
(* is a full-length key (the digits beyond its length are 0) together with *)
(* a separate length.                                                      *)
(***************************************************************************)
EXTENDS Integers

CONSTANTS Branch,   \* the values of one digit of a key
          KeyLen    \* MAX_KEY_LEN_BITS / BRANCH_BITS

ASSUME KeyLenAssumption == KeyLen \in Nat \ {0}
ASSUME BranchAssumption == Branch \subseteq Nat /\ 0 \in Branch

Key == [1 .. KeyLen -> Branch]
PrefixLen == 0 .. KeyLen

min(a, b) == IF a <= b THEN a ELSE b

\* The number of leading digits on which two full-length keys agree.
FirstDifference(p, q) ==
    IF p = q
    THEN KeyLen
    ELSE CHOOSE d \in 0 .. KeyLen - 1 :
            /\ p[d + 1] # q[d + 1]
            /\ \A i \in 1 .. d : p[i] = q[i]

\* get_prefix_match_len: compare the whole words, then cap the result by
\* both lengths.
MatchLen(p, plen, q, qlen) == min(FirstDifference(p, q), min(plen, qlen))

\* get_branch_bits: the digit that follows the first len digits.
BranchBits(k, len) == k[len + 1]

\* truncate: the digits beyond len are set to 0.
Truncate(k, len) == [i \in 1 .. KeyLen |-> IF i <= len THEN k[i] ELSE 0]

\* (p, plen) is an initial part of (q, qlen).
IsPrefixOf(p, plen, q, qlen) ==
    /\ plen <= qlen
    /\ \A i \in 1 .. plen : p[i] = q[i]
=============================================================================
