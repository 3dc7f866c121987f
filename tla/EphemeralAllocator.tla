------------------------- MODULE EphemeralAllocator -------------------------
(***************************************************************************)
(* The allocator of the ephemeral tries: EphemeralTrieNodeAllocator and    *)
(* its contexts (include/mtt/ephemeral_trie/allocator.h).                  *)
(*                                                                         *)
(* A handle is one word: the index of a buffer in the upper bits and an    *)
(* offset in the lower.  A context belongs to one thread and hands out the *)
(* handles of its current buffer in turn; when an allocation would not fit *)
(* it asks the shared allocator for another buffer with a fetch_add.       *)
(* Nodes and values have separate buffers and separate counters.           *)
(***************************************************************************)
EXTENDS Integers

CONSTANTS Contexts,
          BufSize,       \* BUF_SIZE
          NumBuffers,    \* NUM_BUFFERS
          NodeCounts,    \* the numbers of nodes asked for in one call
          MaxRequests    \* bound on the counters of requests for a buffer

ASSUME BufSizeAssumption    == BufSize \in Nat \ {0, 1}
ASSUME NumBuffersAssumption == NumBuffers \in Nat \ {0}
ASSUME CountsAssumption     == NodeCounts \subseteq 1 .. BufSize - 1
ASSUME RequestsAssumption   == MaxRequests \in Nat /\ MaxRequests >= NumBuffers

Kind   == {"node", "value"}
Buffer == 0 .. NumBuffers - 1
Handle == 0 .. NumBuffers * BufSize - 1

VARIABLES
    next,    \* next_available_buffer and next_available_value_buffer
    made,    \* the buffers that have memory
    state,   \* each context: "none", "half" inside get_new_allocator, "ready"
    pos,     \* cur_buffer_offset_and_index and value_buffer_offset_and_index
    times    \* how often each handle was given out since the last reset

vars == <<next, made, state, pos, times>>

\* << LOG_BUFSIZE, >> LOG_BUFSIZE and & OFFSET_MASK
Base(i)   == i * BufSize
Index(h)  == h \div BufSize
Offset(h) == h % BufSize

\* Mutant: the last handle of a buffer may be used.
overflow_check_Last(h, n) == Offset(h) + n > BufSize

overflow_check(h, n) == Offset(h) + n >= BufSize

-----------------------------------------------------------------------------
\* One fetch_add on the counter of a kind: context c gets the buffer, which
\* is given memory unless it has some from before a reset.
Assign(c, k) ==
    /\ next[k] < NumBuffers
    /\ next' = [next EXCEPT ![k] = @ + 1]
    /\ made' = [made EXCEPT ![k] = @ \cup {next[k]}]
    /\ pos'  = [pos EXCEPT ![k][c] = Base(next[k])]

\* The fetch_add goes past the last buffer: "used up all ... buffers".  The
\* model counts no further than MaxRequests; the code's counter wraps around
\* after 2^32 requests.
Exhausted(k) ==
    /\ next[k] >= NumBuffers
    /\ next' = [next EXCEPT ![k] = IF @ < MaxRequests THEN @ + 1 ELSE @]

\* get_new_allocator, up to and after its second fetch_add.
NewContextNode(c) ==
    /\ state[c] = "none"
    /\ Assign(c, "node")
    /\ state' = [state EXCEPT ![c] = "half"]
    /\ UNCHANGED times

NewContextValue(c) ==
    /\ state[c] = "half"
    /\ Assign(c, "value")
    /\ state' = [state EXCEPT ![c] = "ready"]
    /\ UNCHANGED times

\* get_new_allocator throws: there is no context, and the node buffer it may
\* have taken already is not used.
NewContextFails(c) ==
    /\ state[c] \in {"none", "half"}
    /\ Exhausted(IF state[c] = "none" THEN "node" ELSE "value")
    /\ state' = [state EXCEPT ![c] = "none"]
    /\ UNCHANGED <<made, pos, times>>

\* The handles of an allocation of n that starts at h.
Block(h, n) == h .. h + n - 1

\* allocate and allocate_value, without and with a new buffer.
Allocate(c, k, n) ==
    /\ state[c] = "ready"
    /\ ~overflow_check(pos[k][c], n)
    /\ times' = [times EXCEPT ![k] = [h \in Handle |->
                    IF h \in Block(pos[k][c], n) THEN @[h] + 1 ELSE @[h]]]
    /\ pos' = [pos EXCEPT ![k][c] = @ + n]
    /\ UNCHANGED <<next, made, state>>

\* Mutant: the counter is read and written in two accesses, and another
\* context gets the same buffer.
AssignNewBuffer_Racy(c, k, n) ==
    /\ state[c] = "ready"
    /\ overflow_check(pos[k][c], n)
    /\ next[k] < NumBuffers
    /\ \E i \in {next[k], next[k] + 1} : next' = [next EXCEPT ![k] = i]
    /\ made' = [made EXCEPT ![k] = @ \cup {next[k]}]
    /\ pos'  = [pos EXCEPT ![k][c] = Base(next[k])]
    /\ UNCHANGED <<state, times>>

\* assign_new_buffer and assign_new_value_buffer; the allocation follows.
AssignNewBuffer(c, k, n) ==
    /\ state[c] = "ready"
    /\ overflow_check(pos[k][c], n)
    /\ Assign(c, k)
    /\ UNCHANGED <<state, times>>

AllocateFails(c, k, n) ==
    /\ state[c] = "ready"
    /\ overflow_check(pos[k][c], n)
    /\ Exhausted(k)
    /\ UNCHANGED <<made, state, pos, times>>

\* reset, called while nobody is inside the allocator; the callers give up
\* their contexts.
Reset ==
    /\ \A c \in Contexts : state[c] # "half"
    /\ next'  = [k \in Kind |-> 0]
    /\ times' = [k \in Kind |-> [h \in Handle |-> 0]]
    /\ state' = [c \in Contexts |-> "none"]
    /\ UNCHANGED <<made, pos>>

Counts(k) == IF k = "node" THEN NodeCounts ELSE {1}

Init ==
    /\ next  = [k \in Kind |-> 0]
    /\ made  = [k \in Kind |-> {}]
    /\ state = [c \in Contexts |-> "none"]
    /\ pos   = [k \in Kind |-> [c \in Contexts |-> 0]]
    /\ times = [k \in Kind |-> [h \in Handle |-> 0]]

Next ==
    \/ \E c \in Contexts :
          \/ NewContextNode(c) \/ NewContextValue(c) \/ NewContextFails(c)
          \/ \E k \in Kind : \E n \in Counts(k) :
                Allocate(c, k, n) \/ AssignNewBuffer(c, k, n) \/ AllocateFails(c, k, n)
    \/ Reset

Spec == Init /\ [][Next]_vars

-----------------------------------------------------------------------------
\* Every variable has its type; positions stay within the buffers.
TypeOK ==
    /\ next  \in [Kind -> Nat]
    /\ made  \in [Kind -> SUBSET Buffer]
    /\ state \in [Contexts -> {"none", "half", "ready"}]
    /\ pos   \in [Kind -> [Contexts -> Handle]]
    /\ times \in [Kind -> [Handle -> Nat]]

\* No handle is given out twice before a reset, however the contexts compete
\* for buffers and whatever sizes they ask for.
GivenOnce == \A k \in Kind, h \in Handle : times[k][h] <= 1

\* A handle that was given out can be followed: its buffer has memory, and it
\* is not UINT32_MAX, the handle that stands for no child, which is the last
\* one when the bits of index and offset fill the word.
HandlesUsable ==
    \A k \in Kind, h \in Handle :
        times[k][h] > 0 => /\ Index(h) \in made[k]
                           /\ h # NumBuffers * BufSize - 1

-----------------------------------------------------------------------------
(* The inductive invariant *)

Holds(c, k) == state[c] = "ready" \/ (state[c] = "half" /\ k = "node")

\* Each context is inside a buffer of its own, which the counter has passed,
\* and nothing at or after its position was given out; nor was anything of a
\* buffer that the counter has not reached.
PositionsOK ==
    \A k \in Kind :
        /\ \A h \in Handle : times[k][h] > 0 =>
              /\ Index(h) \in made[k]
              /\ Index(h) < next[k]
              /\ Offset(h) < BufSize - 1
        /\ \A c \in Contexts : Holds(c, k) =>
              /\ Index(pos[k][c]) \in made[k]
              /\ Index(pos[k][c]) < next[k]
              /\ \A h \in Handle : Index(h) = Index(pos[k][c]) /\ h >= pos[k][c]
                                      => times[k][h] = 0
              /\ \A d \in Contexts : d # c /\ Holds(d, k) =>
                    Index(pos[k][d]) # Index(pos[k][c])

IndInv == TypeOK /\ GivenOnce /\ PositionsOK
=============================================================================
