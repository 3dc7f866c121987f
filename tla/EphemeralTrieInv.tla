-------------------------- MODULE EphemeralTrieInv --------------------------
(***************************************************************************)
(* The correctness properties of the ephemeral trie.                       *)
(***************************************************************************)
EXTENDS EphemeralTrie, TrieDigest

Above(m, n)  == IsPrefixOf(pfx[m], len[m], pfx[n], len[n])
Inserting(t) == pc[t] \in {"ins", "ins_cas"}
Bumping(t)   == pc[t] \in {"bump", "bump_cas"}
Leaves       == {n \in live : IsLeaf(n)}

-----------------------------------------------------------------------------
\* Every variable has its type, and every leaf has a value.
TypeOK ==
    /\ live \in SUBSET Addr
    /\ pfx \in [Addr -> Key]
    /\ len \in [Addr -> PrefixLen]
    /\ word \in [Addr -> [Branch -> [ptr : Pointer, sz : Nat]]]
    /\ val \in [Addr -> Value \cup {NoValue}]
    /\ \A n \in Leaves : val[n] \in Value
    /\ phase \in {"batch", "hash"}
    /\ hashed \in BOOLEAN
    /\ pc \in [Threads -> {"idle", "ins", "ins_cas", "bump", "bump_cas", "get"}]
    /\ key \in [Threads -> Key]
    /\ arg \in [Threads -> Value \cup {NoValue}]
    /\ given \in [Threads -> Value \cup {NoValue}]
    /\ cur \in [Threads -> Pointer]
    /\ exp \in [Threads -> [ptr : Pointer, sz : Nat]]
    /\ res \in [Threads -> Value \cup {NoValue}]

-----------------------------------------------------------------------------
\* A child extends the prefix of its parent by the digit of its slot: no
\* compare_exchange puts a node in a slot that does not belong to it.
EdgesDescend ==
    \A n \in live, b \in Branch :
        ~IsLeaf(n) /\ word[n][b].ptr # NULL =>
            LET c == word[n][b].ptr
            IN  /\ c \in live
                /\ len[n] < len[c]
                /\ Above(n, c)
                /\ BranchBits(pfx[c], len[n]) = b

\* From any node whose prefix fits, following the digits of the key leads to
\* every node of the tree: no split, no insertion into the same slot and no
\* update of a size cuts a node off.
PathsComplete ==
    \A n \in live, x \in live :
        Above(n, x) /\ len[n] < len[x] =>
            /\ At(n, pfx[x]).ptr # NULL
            /\ Above(At(n, pfx[x]).ptr, x)

\* Two threads that insert the same key, or split the same child, at the same
\* time never create two nodes for the same digits.
NoDuplicates ==
    \A n \in live, x \in live : Above(n, x) /\ len[n] = len[x] => n = x

TreeOK == EdgesDescend /\ PathsComplete /\ NoDuplicates

\* The node a thread is at leads to its key, and the handle in the word it
\* holds is the handle of a node of the tree that does not cover its key.
PointersStable ==
    \A t \in Threads :
        /\ pc[t] # "idle" =>
              /\ cur[t] \in live
              /\ IsPrefixOf(pfx[cur[t]], len[cur[t]], key[t], KeyLen)
        /\ pc[t] = "ins_cas" =>
              /\ ~IsLeaf(cur[t])
              /\ exp[t].ptr # NULL =>
                    /\ exp[t].ptr \in live
                    /\ len[cur[t]] < len[exp[t].ptr]
                    /\ ~Covers(exp[t].ptr, key[t])
        /\ pc[t] = "bump_cas" => exp[t].ptr \in live /\ ~IsLeaf(cur[t])

\* bump_size of thread t has yet to count its leaf in slot b of node n.
Uncounted(t, n, b) ==
    /\ Bumping(t)
    /\ len[cur[t]] <= len[n]
    /\ IsPrefixOf(pfx[n], len[n], key[t], KeyLen)
    /\ Slot(n, key[t]) = b

LeavesBelow(n, b) == {x \in Leaves : Above(n, x) /\ Slot(n, pfx[x]) = b}

\* At every moment, the size in a word and the bump_size calls that are still
\* going to pass there add up to the number of keys below: no increment is
\* lost to a split that moves the word or to another increment, and none is
\* made twice.  When no call is under way this is deep_sizecheck.
SizesAccounted ==
    \A n \in live, b \in Branch :
        ~IsLeaf(n) =>
            word[n][b].sz + Cardinality({t \in Threads : Uncounted(t, n, b)})
                = Cardinality(LeavesBelow(n, b))

\* The splitting constructor of EphemeralTrieAccumulateValuesRange asserts
\* that a node it opens has not just one child: every node below the root has
\* two, unless the thread that split a slot is still going to add its own.
BranchesBranch ==
    \A n \in live :
        ~IsLeaf(n) /\ n # Root /\ Cardinality(Kids(n)) < 2 =>
            \E t \in Threads : Inserting(t) /\ cur[t] = n

\* The shape of the tree and the threads' place in it, at every step of every
\* call: children sit below their prefix, nothing is cut off or made twice,
\* what a thread holds between two accesses is still good, and every node
\* that stays has two children.
WellFormed == TypeOK /\ TreeOK /\ PointersStable /\ BranchesBranch

-----------------------------------------------------------------------------
(* The inductive invariants: what WellFormed and SizesAccounted rest on *)

\* The root stays where it is, and hash runs alone.
RootStays ==
    /\ Root \in live
    /\ len[Root] = 0
    /\ phase = "hash" => AllIdle

\* A thread that inserts still has a value, and the leaf that bump_size is
\* going to count is in the tree.
CallsCarry ==
    \A t \in Threads :
        /\ Inserting(t) => arg[t] \in Value
        /\ Bumping(t) => \E n \in Leaves : pfx[n] = key[t]

\* A node below the root has a child, and a second one, unless the thread
\* that made it is still there to fill the slot towards its key.
BranchesPending ==
    \A n \in live :
        ~IsLeaf(n) /\ n # Root =>
            \E b \in Kids(n) :
                \/ \E d \in Kids(n) : d # b
                \/ \E t \in Threads :
                      Inserting(t) /\ cur[t] = n /\ Slot(n, key[t]) \notin Kids(n)

\* The inductive invariant of the shape of the tree.
ShapeInv ==
    /\ TypeOK
    /\ TreeOK
    /\ PointersStable
    /\ RootStays
    /\ CallsCarry
    /\ BranchesPending

\* The inductive invariant of the sizes, given ShapeInv.
SizeInv == IsFiniteSet(live) /\ SizesAccounted

KeysBelow(n) == {pfx[x] : x \in {y \in Leaves : Above(n, y)}}

\* The trie that is found when no call is under way: every node but the root
\* is as long as what its keys have in common, and its child words have the
\* keys that go on with their digit, and how many these are.  This is what the
\* ranges of EphemeralRanges take a trie to be.
FinishedTrie ==
    AllIdle =>
        \A n \in live :
            /\ n # Root => KeysBelow(n) # {} /\ len[n] = SharedLen(KeysBelow(n))
            /\ ~IsLeaf(n) =>
                 \A b \in Branch :
                     LET S == Towards(KeysBelow(n), len[n], b)
                         w == word[n][b]
                     IN  /\ w.ptr # NULL <=> S # {}
                         /\ w.ptr # NULL => KeysBelow(w.ptr) = S
                         /\ w.sz = Cardinality(S)

-----------------------------------------------------------------------------
\* The map that the trie stores.
View == [k \in Keys |->
            IF \E n \in Leaves : pfx[n] = k
            THEN val[CHOOSE n \in Leaves : pfx[n] = k]
            ELSE NoValue]

\* The digest that hash returns depends only on the keys and values in the
\* trie, not on the order of the insertions, the splits the threads raced
\* for, the order in which workers hash, or the batches before clear.
RootHashCanonical ==
    hashed => hash[Root] = CanonicalDigest(View, NoValue, NoHash)

\* Before hash runs no node has a digest; while it runs, and after it, a node
\* that has one has the digest of what is below it now, all of it hashed.
\* From then on until clear nothing is inserted.
DigestsSettled ==
    /\ DOMAIN hash = Addr
    /\ hashed => /\ phase = "batch" /\ hash[Root] # NoHash
                 /\ \A t \in Threads : pc[t] \in {"idle", "get"}
    /\ phase = "batch" /\ ~hashed => \A n \in live : hash[n] = NoHash
    /\ \A n \in live :
          hash[n] # NoHash =>
              /\ hash[n] = HashOf(n)
              /\ ~IsLeaf(n) => \A b \in Kids(n) : hash[word[n][b].ptr] # NoHash

\* Prefixes are zero beyond their length, and leaves are for keys of callers.
NodesNamed ==
    /\ \A n \in live :
          /\ pfx[n] = Truncate(pfx[n], len[n])
          /\ IsLeaf(n) => pfx[n] \in Keys
    /\ \A t \in Threads : pc[t] # "idle" => key[t] \in Keys

\* The inductive invariant of the digests, given ShapeInv.
DigestInv == DigestsSettled /\ NodesNamed

Request(t) ==
    CASE Inserting(t)  -> [op |-> "ins", key |-> key[t], arg |-> given[t]]
      [] pc[t] = "get" -> [op |-> "get", key |-> key[t]]
      [] OTHER         -> [op |-> "none"]

KV == INSTANCE KVMap WITH kv <- View, req <- [t \in Threads |-> Request(t)],
                          Logical <- Value

\* What the effect of a call rests on, where moving from a value leaves it as
\* it was: insert stores what its caller gave it, and get_value has no answer
\* before it has one.
CallsKept ==
    \A t \in Threads :
        /\ pc[t] # "idle" => key[t] \in Keys
        /\ Inserting(t) => arg[t] = given[t]
        /\ pc[t] = "get" => res[t] = NoValue

\* insert and get_value are atomic: the trie implements the map, each call
\* taking effect at one access however the threads interleave, and what is
\* stored is what the caller passed.
Linearizable == KV!Spec

-----------------------------------------------------------------------------
CallsReturn == \A t \in Threads : (pc[t] # "idle") ~> (pc[t] = "idle")
HashReturns == (phase = "hash") ~> hashed

\* A started call returns, although others change the words it expects, and
\* hash comes to an end.
Progress == CallsReturn /\ HashReturns
=============================================================================
