# A TLA+ development of the merkle trie library

This directory specifies the concurrent tries of the library, checks them with
TLC on small instances, and proves invariants of them with TLAPS for every
instance.  Source paths below are relative to `include/mtt/` unless they say
otherwise.

## 1. Inventory

The library is a set of header-only tries over fixed-length keys.  A key is
read in digits of 4 bits; a node stands for a prefix, a node whose prefix is a
whole key is a leaf and holds a value, any other node has 16 child slots.

| component | state | operations | what makes it correct |
|---|---|---|---|
| prefixes (`common/prefix.h`) | none | `get_prefix_match_len`, `get_branch_bits`, `truncate`, `PrefixLenBits`, serialisation | agree with the digit-by-digit definition |
| snapshot trie (`snapshot_trie/`) | a tree of nodes with atomic child pointers, `hash_valid` and a digest in each node, a collector of removed nodes | `get_subnode_ref_and_invalidate_hash`, `insert`, `delete_value`, `get_value`, `hash_and_normalize`, `do_gc`, `clear` | the tree is a trie at all times, calls are atomic, callers' node pointers stay good, digests are never stale, the root hash depends on the map only |
| ephemeral trie (`ephemeral_trie/atomic_ephemeral_trie.h`) | nodes in a bump allocator; a child word packs a 32-bit handle and a 32-bit size | `insert` (+ `bump_size`), `hash`, `accumulate_values_parallel`, `parallel_batch_value_modify`, `make_proof`, `verify_proof`, `clear` | no insertion lost, sizes exact once the insertions are over |
| its allocator (`ephemeral_trie/allocator.h`) | two counters of buffers, one cursor per context | `get_new_allocator`, `allocate`, `allocate_value`, `assign_new_buffer`, `reset` | no handle is given twice, none is the sentinel |
| its ranges (`ephemeral_trie/ranges.h`) | work lists | splitting constructors for TBB | the pieces partition the trie |
| layered trie (`layered_trie/`) | one root per layer, nodes shared between layers and copied on write, layer bounds | `insert`, `gc_inactive_leaf`, `compute_hash`, `bump_active_layer`, `raise_gc_lowerbound` | a sealed layer never changes, the active layer loses nothing, each node is freed once and only when no layer reaches it |
| memcached trie (`memcached_snapshot_trie/`) | a snapshot trie whose nodes are logged when they are hashed and may be evicted | as snapshot trie, plus eviction, reload and proofs | eviction is invisible, the log restores what was hashed |
| merkle trie (`trie/merkle_trie.h`, `trie/metadata.h`, `trie/ranges.h`) | a trie with metadata in every node, a cached root hash and locks | insert, merge, batch merge, deletion marks, rollback, `endow_split`, queries, hash | metadata equal the sums over the leaves, no node has a single child, the hash is that of the live leaves |
| recycling trie (`trie/recycling_impl/`) | nodes at handles of bump allocators, children in blocks, serial tries of threads | insert, merge, batch merge, hash, `parallel_apply`, `clear` | no handle has two owners, memory that is used again shows nothing of its past |
| common helpers (`common/`) | the deferred collector | `free`, `gc`, proof layers, bit vectors, insert functions | as the tries that use them need |

How they interact.  The ephemeral trie logs which keys a batch touches;
`parallel_batch_value_modify` partitions its keyspace into disjoint subtries
and each worker obtains, for its part, a subnode of the snapshot trie and
modifies values below it.  Threads share nothing but the trie: there are no
locks, and every publication is one `compare_exchange` on a child word.
`hash_and_normalize`, `do_gc` and `clear` are called between batches.  The
layered trie has the same publications and adds references that hold a layer
open; the memcached trie adds the log.  The merkle trie and the recycling trie
lock: callers see whole calls, and the concurrency is inside
`batch_merge_in`, where TBB splits the tries of many threads into ranges that
are merged at different nodes of the main trie at once.

Hard behaviours: two threads that race for one slot; a split prepared for a
child that has changed meanwhile; node pointers held over many operations of
other threads; recycled addresses; digests that are cached and must be
invalidated along paths that change while they are walked; sizes that are
added in a second walk; the two accesses (look, then exchange) of a delete;
ownership of nodes that layers share; reloads that race with insertions; a log
that must be restorable after any history of evictions; differences of metadata
passed up by every call; subtrees that are stolen while others are merged;
handles whose memory is used again as it is.
`PROJECT.json` lists each at its line.

## 2. Modules

| module | models |
|---|---|
| `TriePrefix` | keys and prefixes, digit by digit |
| `TrieShapes` | what it means for nodes to form a trie, whatever they are made of |
| `TriePrefixTheorems` | lemmas about prefixes, such tries and their digests |
| `SnapshotTrie` | the snapshot trie, one action per atomic access |
| `SnapshotTrieInv` | its properties, its inductive invariants, the refinement mapping |
| `KVMap` | what the two lock-free tries promise: a map with atomic insert, delete and get |
| `TrieDigest` | the digest a stored map should have: a reference definition |
| `MCSnapshotTrie` | small instances for TLC |
| `SnapshotTrieProofs`, `SnapshotHashProofs` | the theorems: its shape and the refinement of `KVMap`; digests, collector, assertions and root hash |
| `EphemeralTrie` | the ephemeral trie, one action per access to a child word |
| `EphemeralTrieInv` | its properties, its inductive invariants, the refinement mapping |
| `MCEphemeralTrie` | a small instance for TLC |
| `EphemeralTrieProofs` | the theorems: shape, sizes, root hash, the refinement of `KVMap`, proofs of membership, the trie between calls |
| `EphemeralAllocator` | its allocator and allocation contexts, with their properties |
| `MCEphemeralAllocator`, `EphemeralAllocatorProofs` | a small instance, the theorems |
| `EphemeralProof` | `make_proof` and `verify_proof` on the ephemeral trie, with their properties |
| `EphemeralRanges`, `MCEphemeralRanges`, `EphemeralRangesProofs` | the TBB ranges over a finished ephemeral trie, a small instance, the theorem |
| `LayeredTrie`, `LayeredTrieInv`, `MCLayeredTrie` | the layered trie, one action per access to a child pointer |
| `LayeredTrieProofs` | the theorems about it |
| `MemcacheTrie`, `MemcacheTrieInv`, `MCMemcacheTrie` | the memcached trie with its log |
| `MemcacheProof` | its `make_proof`, with the properties of its proofs |
| `MemcacheVerify`, `MemcacheVerifyProofs` | its static `verify_proof`, which knows no trie; the theorems about it |
| `MerkleTrieNode` | the nodes of the merkle trie: pure operators, one per method |
| `MerkleRanges` | its TBB ranges and the calls that use them |
| `MerkleTrie`, `MerkleTrieInv`, `MCMerkleTrie` | the calls of `MerkleTrie`, one action per call; marks and `clear_marked_deletions`, which overlap, node by node |
| `MerkleBatchMerge`, `MCMerkleBatch` | `batch_merge_in` with ranges that are split, executed and propagated concurrently |
| `RecyclingNode` | the nodes of the recycling trie on handles: operators on a memory |
| `RecyclingTrie`, `MCRecycling` | serial tries, the main trie and its batch merge |

`SnapshotTrieInv` and `EphemeralTrieInv` instantiate `KVMap`; the modules with
hashes compare with `TrieDigest`; everything extends `TriePrefix`.  Definitions
whose name ends in `_Something` after the name of another one, marked as mutants,
are wrong variants of that definition: the property named in `PROJECT.json`
fails with them.

### SnapshotTrie and the code

A node is an address in `Addr`; `pfx`, `len`, `child`, `val`, `valid` and
`hash` are the fields of the node at that address.  `live` is the set of nodes
of the tree and `gc` the contents of `AtomicMerkleTrieGC`.  A thread has a
program counter `pc`, the request it made (`qk`, `ql`), the subnode it was
given (`ref`), and inside a call its key, its value, the node it is at (`cur`)
and the child pointer it last observed (`exp`).

| code | actions |
|---|---|
| `get_subnode_ref_and_invalidate_hash` | `GetSubnode`, then `SubReturn`, `SubLoad`, `SubAttach`, `SubSplit`, `SubRetry` (`get_or_make_subnode_ref`), then `InvalidateStep` (`invalidate_hash_to_node`) |
| `insert` | `StartInsert`, `InsertLoad`, `InsertAttach`, `InsertSplit`, `InsertRetry`, and at a leaf `InsertMerge` or `InsertFoundEmpty`, `InsertEmplace` |
| `delete_value` | `StartDelete`, `DeleteLoad`, `DeleteExchange`, at a leaf `DeleteReset` |
| `get_value` | `StartGet`, `GetLoad`, `GetLeaf` |
| `hash_and_normalize` | `HashStart`, `HashLeaf`, `HashMap` (one per call of the recursion, children first) |
| `do_gc`, `clear` | `DoGC`, `Clear` |

Abstractions.  A digest is a record of what it was computed from, so two
digests are equal exactly when their inputs are (no collisions).  A node that
loses its `compare_exchange` was never visible to others and does not appear.
A store of `hash_valid = false` happens in the step of the access next to it:
during a batch every store writes `false` and nobody reads the flag, so the
order does not matter.  `value_merge_fn` is atomic, as its users must make it.
`invalidate_hash_to_key` is not called by anything and is left out, and so is
the accumulation of metadata (the base metadata is empty).

The callers.  `README.md` says that "batch modifications should generally not
be done concurrently with insertions"; with `Disjoint = TRUE` threads ask for
subnodes in ranges that do not overlap, which is how the partition of
`parallel_batch_value_modify` uses the trie.  Deletes are only checked under
this contract: the look and the exchange of `delete_value` are two accesses,
and a node that another thread puts in the slot between them is thrown away.

### EphemeralTrie and the code

A child slot is a word, a record of the handle (`ptr`) and the size (`sz`);
`compare_exchange` compares both.  `live` is the set of nodes of the tree.  The
value object of an `insert` call is `arg`; `given` remembers what the caller
put into it, because the code moves from the object (`MovedFrom`).

| code | actions |
|---|---|
| `AtomicTrie::insert`, `AtomicTrieNode::insert` | `StartInsert`, `InsertLoad`, `InsertAttach`, `InsertSplit`, `InsertRetry`, at a leaf `InsertValue` |
| `bump_size` | `BumpLoad`, `BumpSet`, `BumpRetry`, at a leaf `BumpReturn` |
| `get_value` | `StartGet`, `GetLoad`, `GetLeaf` |
| `hash`, `hash_serial`, `compute_hash` | `HashStart`, `HashNode` (in any order that has children first, as the workers may take them), `HashSerial` |
| `clear` | `Clear` |

`InsertRetry` and `BumpRetry` are also possible when the word has not changed:
`compare_exchange_weak` may fail spuriously.  A handle is taken in the step
that publishes it, since an unpublished node is visible to nobody; where
handles come from is the matter of `EphemeralAllocator`.  Slots of a leaf are
never read, nor is the memory of handles that `clear` gave back; the model
resets both.  `hash` and `clear` run while no thread is inside a call, and
`insert` refuses to run after `hash`.

### EphemeralAllocator and the code

`next` are the two shared counters, `made` the buffers with memory, `pos` the
two positions of each context; a handle is `index * BufSize + offset`, as the
shifts and the mask of the code make it.  `get_new_allocator` takes its two
buffers in two steps (`NewContextNode`, `NewContextValue`), either of which may
throw (`NewContextFails`).  `allocate` and `allocate_value` are `Allocate`,
`AssignNewBuffer` followed by `Allocate`, or `AllocateFails`.  At `Reset` the
callers give up their contexts, as the comment on the allocator demands.
`times` counts how often a handle was given out; it is not state of the code.

### EphemeralRanges and the code

These loops run on a trie that nobody changes.  By `CompressedWhenIdle` that is
the compressed trie of its keys, with exact sizes in its child words, so a node
is given by the keys below it and its length, and `Init` takes any set of keys.
`pool` is the set of ranges TBB has made and not yet executed.  `Start` is the
call of `parallel_for` (which does nothing with an empty range), `Divide` is a
splitting constructor, and `Execute` is the body of the loop; TBB may divide or
execute a divisible range as it likes, in any order.  The three constructors
are one loop (`SplitRange`) with three bodies, `AccumulateRound`, `ApplyRound`
and `HashRound`: they differ in when they open a node, in which assertions they
make and in how they give up.  The model makes at most `work_size` rounds, and
counts a loop that would need more as a failure.  `Place` and `Advance` add the
sizes of what is passed, as the worker and the loop over a work list do, so that
a place in the vector is right only if the sizes are.  `visited` is not state of
the code.  A grain size of 0 is excluded: a range of one value would be
divisible for ever.

### EphemeralProof and the code

`make_proof` and `verify_proof` are operators on the nodes of `EphemeralTrie`
after `hash`; they read the digests that `HashNode` left there.
`LayersFrom` builds the layers on the way back up from the node where the search
ends, `Carries` is what `verify_proof` carries from layer to layer.  In the code
`child_data` is a list in the order of the digits; in the model it is a
function of the digit, which is the same because `make_proof` and
`verify_proof` walk the digits of the same bit vector and skip the same one.
`Presented` is what a verifier may be shown for a key: proofs of any key and
length, with another value in the leaf, or without the first layer.

### LayeredTrie and the code

No layer has two nodes for one prefix, so a node is named by prefix, length and
layer, and `node` is the set of nodes in memory with their fields.  `roots`,
`active_layer` and `freeable_lowerbound` are the fields of `LayeredTrie`.  A
call of `insert` or `gc_inactive_leaf` is made through a `WeakLayerReference`
(`arg[t].layer`); `bump_active_layer` waits until the layer it seals has none.

| code | actions |
|---|---|
| `insert`, with the lambda leaving any value, and `gc_inactive_leaf` | `StartInsert`, then at each node `Modify`, `InsertAttach`, `InsertDescend`, `InsertSplit`, `InsertSupersede`, `InsertRetry`; `MarkSuperseded` marks the replaced chain; `GcReturns`; `AssertFails` is a `print_assert` that does not hold |
| `bump_active_layer` | `bump_active_layer`: the new root copies the old one |
| `raise_gc_lowerbound` | `raise_gc_lowerbound`, with the destructors of the roots it frees (`Destroyed`, `Owned`) |
| `compute_hash` | `compute_hash` on the root of a sealed layer |

`metadata` has the nodes with `hash_valid` and what `compute_hash` left there
(`NoHash` for `return_null`).  The flag is never reset, and the nodes of a
sealed layer do not change, so a call of `compute_hash` is one step however it
interleaves; but it takes what earlier calls for other layers left in the nodes
they share.  `in_normal_form` and `expect_superseded`, which only tests call,
are left out.  Layers are unsigned words (`WordMinus`, `WordSize`): while the
active layer is 0 or 1, `active_layer - 2` wraps around, and the bound frees
whatever the caller asks for (`Freeable`, and the finding).  Callers raise the
bound to the active layer less one of `Back`, so to the active layer itself as
well, and hash the layers in `Hashed`.

### MemcacheTrie and the code

`node` maps addresses to nodes, which are values, maps, pointers into the
log, or freed memory.  Deleted, erased, spliced and evicted nodes go to the
collector (`gc`); `do_gc` frees them with what they own, and `Malloc` gives a
freed address, any of them, to the next node.  Nodes that point into the log
take new addresses only, since no log key is ever made of theirs.  `log` is `InMemoryInterface::values`, keyed
by `TimestampPointerPair`.  `insert` and `get_value` run at the granularity of
accesses to child pointers (`InsertMerge`, `InsertAttach`, `InsertSplit`,
`Descend`, `Reload`, `Retry`, `GetAbsent`).  `hash_and_normalize` (with
logging, splicing and eviction), `delete_value`, `ResetSubnode` and
`get_subnode_ref_and_invalidate_hash` are whole calls of a caller that has the
trie to itself; their interleavings with others are those of `SnapshotTrie`.
The fields `logged` of a pointer node and `stray` of an entry, and the variables
`loaded` and `early`, are not state of the code: they record which pairs name
an address under which the node was never logged, which entries a node was
reloaded from, and whether the collector ran while changes were not hashed (see
the remarks).  An exception is a value of `failed`, after which nothing happens.
`verify_proof` is a static member: `MemcacheVerify` has it without any variable,
and `MemcacheProof` instantiates it and shows it the proofs the trie makes, for
queries of every length.

### MerkleTrieNode, MerkleRanges, MerkleTrie and the code

A node is a value, a record with its children inside, so a method of the code
is an operator that returns the node it leaves.  The metadata are those of the
repository's tests with all mixins: `size`, `endow` (`tests/offer_metadata.h`),
`deleted` and `rollback`.  Most calls of `MerkleTrie` are atomic, because they
hold `hash_modify_mtx` and, where that is shared, the root's lock
(`OptionalLock::lock<shared_lock>` locks exclusively).  One action per call:
`Insert`, `MarkNolocks`, `PerformMarkedDeletions`, `PerformDeletion`,
`DoRollback`, `ClearRollback`, `Modify`, `ModifyBelow`, `Hash`, `Clear`,
`MergeIn`, `EndowSplit`, `CleanSinglechildNodes`; the queries and the ranges are
operators that `AnswersExact` evaluates in every state.

`mark_for_deletion`, `unmark_for_deletion` and `clear_marked_deletions` hold the
mutex shared, and the last locks no node, so they overlap.  `Mark` and `Unmark`
go as far as the leaf; `UpdateAbove` is one node on the way back, which adds the
difference to its count (`marking`).  `ClearMarkedDeletions` starts a walk over
nodes (`clearing`), each of which reads its count (`ClearLook`) and, if it is not
0, stores 0 and goes on to the children (`ClearStore`).

`kv` is what the calls should have left; `stale` and `unhashed` record which
cached hashes the code leaves behind on purpose or not (see the remarks), so
that `RootHashCanonical` claims nothing of them; `overlapped` records that a
mark and `clear_marked_deletions` have overlapped, after which `MetadataExact`
claims nothing of the counts of marked leaves.

### MerkleBatchMerge and the code

A `BatchMergeRange` is a record of entry points (nodes of the main trie, found
by id) with the tries to merge there, the banned branches and `num_children`,
counted modulo `Modulus`.  `SplitRange` is the splitting constructor, `Merge`
the `_merge_in` of all tries of one entry point, `Propagate` the
`propagate_metadata` after it.  Each locks nodes downwards hand over hand, so
they are atomic; any order of the steps of different ranges is possible.
`cache` is the trie's own `hash_valid` and `root_hash`, which the batch leaves
alone, and `Hash` the call of `hash` after it.  `parted` collects the keys that
waited at two entry points at once (see the remarks).

### RecyclingNode, RecyclingTrie and the code

Here nodes are not values: `H` is the memory, and a method is an operator on it
with the handle of the node.  A block of children is allocated at once, so
moving a node into its slot is a copy that marks the old place as stolen
(`set_to`); memory is never erased, so a slot has whatever it was used for
before until `set_as_empty_node`.  Each thread has a context with a buffer of
its own and a serial trie.  `Open`, `Insert`, `MergeIn`, `Hash`,
`ParallelApply`, `Clear` are whole calls; `BatchMergeIn` begins a batch, whose
ranges go on by `SplitRange`, `Merge` and `Propagate`, and `BatchReturn` ends
it.  `kv` and `given` are what the tries should hold, as sets of values: when
two tries of a batch have a key, `ContentsExact` accepts either value.  Which one
the code leaves depends on how TBB splits the ranges, as in `MerkleBatchMerge`,
where the property says more.  `stale` are the keys whose value
`ParallelApply` changed below a valid hash.  The allocator itself is
`EphemeralAllocator`'s; here every context stays within its first buffer.

## 3. Runs

| run | bounds | properties | shows |
|---|---|---|---|
| `snapshot_shared` | 2 threads, binary keys of length 2, 2 keys, 2 values, overlapping subnodes of length 0 and 1 | `TreeOK`, `HashesFresh`, `Linearizable`, `Progress` | the tree stays a trie, no node is lost or duplicated, no digest is stale, the trie implements `KVMap`, and under fairness calls return and hashing ends |
| `snapshot_partition` | 3 keys, disjoint subnodes, the whole trie or single leaves, with deletes and a value that `has_value_f` rejects | `IndInv`, `TrieAssertsHold`, `CollectorSafe`, `PathInvalidated`, `RootHashCanonical`, `Linearizable` | the invariant of the proof; no `trie_assert` fails; the collector owns nothing that is in use; every digest above a change is invalidated; the root hash is the canonical one of the stored map; normalisation drops only rejected values |
| `ephemeral_shared` | 2 threads, keys of length 3, 4 keys, one of them overwritten | `WellFormed`, `SizesAccounted`, `RootHashCanonical`, `ProofsExact`, `Linearizable`, `Progress` | shape, sizes plus pending `bump_size` walks, hash and proofs are exact; the trie implements `KVMap`; calls return in spite of spurious failures |
| `ephemeral_allocator` | 2 contexts, 3 buffers of 4 | `GivenOnce`, `HandlesUsable` | no handle twice, none without memory, none equal to `UINT32_MAX` |
| `ephemeral_ranges` | every trie over 6 keys of length 3, grain 1 | `WorkPartitioned`, `WorkDone` | each key is visited once, the vector is in order, workers of `parallel_batch_value_modify` hold disjoint prefixes, no assertion fails, the work ends |
| `layered` | 2 threads, 3 layers, 2 calls in each, the bound raised to the active layer or one of the two below | `SealedUnchanged`, `ActiveComplete`, `MemorySafe`, `HashCanonical` | sealed layers keep their contents, their hashes are right in whatever order layers are hashed, nothing is lost, freed early, twice or never |
| `layered_collapse` | 1 thread, 4 layers | `LayeredAssertsHold` | a violation, see the findings |
| `layered_bound` | 1 thread, 3 layers | `RecentKept` | a violation, see the findings |
| `memcache` | 2 threads, 3 keys, 3 rounds, 4 calls, any hash may evict, `do_gc` at any time | `NothingForgotten`, `LogPrunable`, `HashCanonical`, `ProofsExact` | eviction and reload are invisible, the log restores what was hashed and knows what is obsolete, hashes and proofs are exact |
| `merkle` | ternary keys of length 3, 4 keys, 4 calls out of six families | `ContentExact`, `MetadataExact`, `WellFormed`, `RootHashCanonical`, `AnswersExact`, `TakenExactly` | contents, metadata, shape, hash, queries and ranges agree with the offers the calls should have left; `endow_split` and `do_rollback` take what they should |
| `merkle_batch` | 4 main tries, 2 or 3 tries in a batch, at most 4 ranges | `BatchAccounted`, `MergedExactly` | nothing is lost, duplicated, thrown or misplaced while ranges split and merge; the result is complete, has the value of the last trie for a key, and no stale hash in a node |
| `recycling` | 3 threads, 6 binary keys of length 3, 4 calls from 62 starting points | `HandlesOwned`, `ContentsExact`, `BatchAccounted`, `RootHashCanonical` | handles have one owner, memory that is used again shows nothing of its past, batches account for all keys and sizes |

Properties that are conjunctions (`TreeOK`, `WellFormed`, `MemorySafe`,
`NothingForgotten`, `LogPrunable`, `AnswersExact`, `BatchAccounted`,
`HandlesOwned`, `WorkPartitioned`, `Progress`, `ProofsExact`) have their parts
named and explained in the modules.

### Findings

`layered_bound`.  `raise_gc_lowerbound` frees the layers up to
`std::min(freeable_lowerbound, active_layer - 2)`, in unsigned words
(`layered_trie/layered_trie.h:691`).  While layer 0 or 1 is active the difference
wraps around, and nothing but the caller's bound limits it: with layer 1 active,
`raise_gc_lowerbound(0)` frees layer 0, and `raise_gc_lowerbound(1)` the active
layer as well, after which `get_layer` and `bump_active_layer` throw.  The comment
above (line 679) says "Cannot free active layer or the layer immediately below
it".  `layered` makes the same calls and checks everything else about memory:
`MemorySafe` has `RecentKept` from layer 2 on (`LastTwoStay`).

`layered_collapse`.  When `insert` meets a map node of an older layer with one
active child, it replaces it by a copy of the node at the end of its chain,
also when the key is not below that end; it then goes on in the copy, and its
own `print_assert(prefix_match_len == prefix_len, ...)` fails.  It takes no
concurrency: insert two keys with a common prefix, deactivate one, collect it
in the next layer with `gc_inactive_leaf`, and insert it again in the layer
after.  `layered` keeps to three layers and says nothing after a failure
(`~failed`).

### Remarks

Behaviours met while modelling that no run of their own is about.  The models
have them, within their bounds, and the properties say where they stop.

* Snapshot trie, `atomic_merkle_trie.h:440`: the test for a value and the
  `emplace` are two accesses (`InsertFoundEmpty`, `InsertEmplace`).  Two
  insertions into a leaf that exists without a value both emplace; if
  `value_merge_fn` adds, one contribution is lost, although `README.md` says
  "Operations are atomic and threadsafe".  The runs have a merge that
  overwrites (`Merge <- Overwrite`), for which this is linearizable.
* Ephemeral trie, `atomic_ephemeral_trie.h:616`: the value is moved into a leaf
  whose `compare_exchange` may fail, and used again.  The run has types whose
  move is a copy (`MovedFrom`).
* Ephemeral proofs, `atomic_ephemeral_trie.h:894`: when the search for an
  absent key ends at a node with another prefix, `verify_proof` rejects the
  proof; `ProofsComplete` is about keys that exist or whose slot is empty.
* Memcached trie, `memcache_trie.h:1160`: a leaf that was reloaded has a new
  address and, as long as it does not change, is not logged under it.  Evicting
  it a second time leaves a pointer to an entry that was never written, or to
  one of another node, although the comment at line 153 says that a "pointer
  node must have been logged".  For the same reason a map that is logged
  (line 1110) may name such a child.  `EvictedReadable` and `LogRestores` accept
  any value behind these pointers (`Stray`) and nothing else.
* Memcached trie, `durable_interface.h:23`: the keys of the log are "Guaranteed
  to be unique", but when `do_gc` runs between a deletion and the next hash, or
  after a reload, a node may get the address and the timestamp of another one
  that was logged or marked as deleted in the same round.  `KeysUnique` holds for
  callers that run `do_gc` after a hash, and as long as nothing was reloaded.
* Memcached trie: a reloaded node takes over the previous pointer of its entry
  instead of the entry's key, so that entry is never replaced
  (`PrunableExactly` exempts it).  Hashing a modified node with an evicted child
  throws `bad_variant_access` (line 892).  A reloaded map is not valid, so
  `make_proof` throws until the next hash.
* Merkle trie, `merkle_trie.h:1366`: `clear_marked_deletions` holds the mutex
  shared and locks no node, although a comment says "ok bc root gets exclusive
  lock" (line 3039) and the class that "All methods should be threadsafe"
  (line 774).  When it overlaps with `mark_for_deletion` or
  `unmark_for_deletion`, counts above the leaf may stay wrong, even negative:
  later hashes and marked deletions rely on them.  `MetadataExact` and
  `RootHashCanonical` hold until the first such overlap.
* Merkle trie: `do_rollback` does not look at whether the root is to be removed
  (`merkle_trie.h:1445`), so a trie of one leaf keeps a key that was rolled
  back, while `metadata.h:262` says that "we want to delete all the ones marked
  as "rollback""; `RolledBack` (in `TakenExactly`) holds for every other trie
  and says what happens to this one.  An emptied root with a prefix makes the
  next `insert` throw.  `do_rollback` does not invalidate the root hash either,
  nor does `modify_value_nolocks`; `clear_marked_deletions` invalidates no
  hashes.  A trie that was split off has nodes with one child until
  `clean_singlechild_nodes`; inserting into it before throws, and so may
  `accumulate_values_parallel`.
* Batch merge of the merkle trie: `batch_merge_in` leaves `hash_valid` of the
  trie as it is (`merkle_trie.h:1987-2002`), so that `hash` returns the old
  root hash if it was valid before (line 1953); `MergedExactly` checks `hash`
  when it was not, and the digests of the nodes always.  `trie/ranges.h:223-226`
  says that the trie is built "as though it had been built by sequential
  merge_in calls", by which the last trie of the batch that has a key wins.  It
  does, unless a split has separated the tries: `destructive_steal_child`
  steals from below the root of a trie, and leaves a trie that lies wholly below
  the child where it is, so that two ranges have a value for the key and the
  later one wins.  `num_children` may wrap around, after which the range stays
  divisible.
* Recycling trie, `recycling_impl/trie.h:802-830`: `parallel_apply` and
  `parallel_batch_value_modify` change values and invalidate no hash, of the
  nodes or of the trie; `RootHashCanonical` exempts a trie in which this has
  happened below valid hashes, until merges have overwritten the keys or `clear`
  is called.

### Bounds

Length 2 is the least at which a split, a splice and a leaf below a subnode all
happen in one tree; two threads are enough for every race on one slot.  In the
snapshot runs `Addr` is finite: `MemoryReserve` lets a call start only when
there are addresses for the nodes all threads may add, so no thread is stuck in
the middle of a call.  `MaxGarbage = 0` lets callers start a batch, a delete or
a hash only with an empty collector; nodes deleted and dropped during a batch
still pile up in it while other threads hold pointers to them, and `DoGC` and
`Clear` recycle their addresses.  `MCMalloc` picks addresses by prefix, so that
equal trees have equal addresses and TLC meets them once.  In the ephemeral run
there is a handle for every prefix, so none is ever missing, and length 3 lets
a `bump_size` walk meet two splits on its way.

The allocator's run has buffers of 4, allocations of 1 and 2, so that an
allocation may fit exactly, miss by one, or leave handles unused, and 3 buffers
for 2 contexts, so that they compete for the last one; `MaxRequests` caps the
counters, which in the code wrap around after 2^32 requests.  Six of the eight
keys of length 3 give the ranges nodes with one and two children below nodes of
either kind, and a chain that skips a length; `MaxSplitLen = 2` lies strictly
between the root and the leaves, and a grain size of 1 divides as far as
possible.

Three layers are the least in which a node is superseded in one layer, its old
version is freed with an older one, and a third still shares its children.
With the two below the active layer as well as that layer itself as bounds, a
layer is freed as early as the code allows; hashing layers 0 to 2 in any order
meets shared nodes with and without a digest.  Three rounds let a node be logged,
evicted, reloaded and evicted again, or deleted, freed and its address used again
in the same round or the next; four calls are the least with which an insertion
races a reload after that.
In `merkle` six families of calls are made together (`MCFamilies`), since all
calls in one family of length four would be too many; each family has the calls
that disturb each other.  The contents to begin with (`MCSets`) are the tries
that differ in shape: empty, one leaf, siblings, cousins, three and four keys.  A
mark and `clear_marked_deletions` count as one call each, with all their steps
interleaved.  Ternary
digits give nodes with two children and a free digit.  In `merkle_batch` and
`recycling` the thresholds of `is_divisible` and of the splitting constructor
(100 and 10 in the code) are 2 and 0, so that tries of a handful of keys are
split as far as thousands would be, and `Modulus = 16` stands for 2^64.  The
starting points of `recycling` count for the calls that would have made them;
from the one whose main trie alone is filled, `clear` gives back memory that
the tries of the next calls use a second time.

`CHECK_DEADLOCK FALSE` is said where the bound on the calls ends the behaviour
(`layered`, `memcache`, `merkle`, `merkle_batch`, `recycling`).

### Fairness

Each thread that is inside a call keeps running (weak fairness of its steps
together), and so does the hashing thread.  Nothing is assumed of callers: they
need not start calls.  A retry loop ends because a slot changes at most once
per length.  In the ephemeral trie it also changes with every increment, but
`clear` needs the threads to be idle, so there are only finitely many; and
`compare_exchange_weak` is assumed not to fail for ever on a word that no
longer changes (weak fairness of the successful outcomes).  In
`ephemeral_ranges` the scheduler goes on as long as there are ranges, as
`parallel_for` returns only when all of them were executed.

## 4. Proofs

Everything here holds for every number of threads, keys, nodes and layers, every
branching and every key length.  The table has the theorems that state what a
run checks; the third column is what is assumed beyond the `ASSUME`s of the
modules.

| module | theorems | hypotheses |
|---|---|---|
| `TriePrefixTheorems` | `MatchLenFact`, `CoversFact`, `DigestCommits` | `DigestCommits`: the mark for no hash is not a digest |
| `SnapshotTrieProofs` | `Inductive` (`IndInv`), `TreeShape` (`TreeOK`, in its parts `ChildrenInPlace`, `NothingLost`, `OneNodePerPrefix`), `SubnodesStable`, `Typed`, `EffectsGuarded`, `SnapshotLinearizable` (`Linearizable`) | callers that delete have their range for themselves: `"del" \in Ops => Disjoint`; for the last two also `Disjoint` or a merge that overwrites (see the remarks) |
| `SnapshotHashProofs` | `DigestsFresh` (`HashesFresh`), `PathsInvalidated`, `CollectorOwnsOnlyGarbage` (`CollectorSafe`), `AssertsNeverFail` (`TrieAssertsHold`), `RootHashExact` (`RootHashCanonical`), `HashCommits`, and the invariants behind them, `HashInductive` and `NormalInductive` | callers that delete have their range for themselves |
| `EphemeralAllocatorProofs` | `NeverGivenTwice` (`GivenOnce`), `AlwaysUsable` (`HandlesUsable`), `Typed` | none |
| `EphemeralTrieProofs` | `AlwaysWellFormed` (`WellFormed`), `SizesExact` (`SizesAccounted`), `RootHashExact` (`RootHashCanonical`), `HashCommits`, `ProofsAlwaysExact` (`ProofsExact`), `NoProofLies`, `CompressedWhenIdle` (`FinishedTrie`), and the invariants `ShapeInductive` and `DigestInductive` | none |
| the same | `EphemeralLinearizable` (`Linearizable`) | moving from a value leaves it as it was: `MovedFrom(v) = v` |
| `EphemeralRangesProofs` | `RangesShareWork` (`WorkPartitioned`) | the root's children may be separated: `"apply" \in Kinds => MaxSplitLen > 0` |
| `LayeredTrieProofs` | `SealedForGood` (`SealedUnchanged`), `NothingLost` (`ActiveComplete`), `MemoryManaged` (`MemorySafe`), `FreeingSucceeds`, `SealedHash` (`HashCanonical`), `LayerHashCommits`, and the invariant `LayerInductive` (`LayeredInv`) | none; for the hashes, that `NoHash` is not a digest |
| `MemcacheVerifyProofs` | `VerifierSound`, `VerifierBinding` | `NoHash` is not a digest; for the second, that layers have lengths of prefixes |

The hypotheses are the contracts of the callers described in section 2, and each
run whose property is proved satisfies them.

### Tries in general

`TrieShapes` defines `TrieShape` for nodes of any kind: children sit in the
slot of their digit and below their parent (`ShapeEdges`), a node is reached by
following the digits of its prefix (`ShapePaths`), and no prefix has two nodes
(`ShapeUnique`).  `TriePrefixTheorems` proves, once, that the ways in which the
tries change keep it: `ShapeAttach`, `ShapeSplit`, `ShapeRemove`, `ShapeCopy`
(a node is replaced by a copy) and `ShapeBypass` (by the end of a chain below
it); and that every node but the root has exactly one parent.  `ShapeDigest`
says what a hash is worth: in a `TrieShape` whose digests are made from those of
the children, where a node with nothing below has none and a node with one
child that has a digest passes it on or does not occur, a node's digest is that
of `TrieDigest` for the keys below it.  The three proofs about root hashes
instantiate it.

`DigestCommits` is the other half of what a hash is for.  `TrieDigest` says which
digest a map has; the theorem says that no other map over the same keys has it.
The argument goes down the two tries at once: equal digests have equal prefixes,
so the sets of keys below share the same length, and equal bodies, so the
children agree digit by digit.  With the theorems about root hashes it gives
`HashCommits` for the snapshot and the ephemeral trie and `LayerHashCommits` for
two sealed layers: equal hashes exactly for equal contents.

The library's induction theorems cannot be used, so induction over lengths is
done by hand: a set of counterexamples has a least element (`LeastNat`,
`RangeInduction`).  The functions the models define by recursion (`Digests`,
`Closure`, `Path`, the digests of `compute_hash`) are shown to exist by building
them up length by length (`DigestsFact`, `ClosureSteps`, `PathSteps`,
`MetadataFact`).

### The snapshot trie

`IndInv`.  The shape of the tree alone is not inductive: that an attach or a
split publishes a node in the right place needs that the thread's `cur` is in
the tree and is a prefix of its goal (`PointersOK`); that a delete does not take
away the node another thread stands on needs that the ranges are disjoint
(`RangesOK`), that a call stays below its subnode (`LocalsOK`), and that two
prefixes of one key are comparable; that hashing does not either needs that it
runs alone (`MemoryOK`).  `AttachTree`, `SplitTree`, `RemoveTree` and `HashTree`
say that each way of changing the tree keeps its shape; `ThreadFrame` and
`ThreadStep` carry the other threads over; there is one lemma per action.
`snapshot_partition` checks `IndInv` on its instance.

`HashInv`, on top of `IndInv`.  A valid digest may be out of date only while a
request is on its way to invalidate it, so one has to know how far the walks
have come (`InvalidationReached`) and that they leave nothing valid behind them,
also when another thread puts a node in the path (`PathInvalidated`).  A leaf
without a logical value is marked valid without a digest being computed, so what
is not valid must have none left over (`DigestsForgotten`); and a node whose
call returned without a digest has at most one child and waits for its parent
to splice it out (`ReturnsPending`).  For
the collector: removed nodes only point to removed nodes (`GarbageClosed`).

`NormalInv`, on top of both.  That every digest is fresh does not make the root
hash canonical: the tree could have empty nodes or chains.  Where a call of
`compute_hash_and_normalize` has returned, the children that are left are
neither empty nor single (`NormalForm`), and this lasts, because whoever
disturbs it has invalidated the digests above, or has a request under way that
will.  `NodesNamed` adds that prefixes are zero beyond their length, so a digest
shows nothing of the key a node was made for.

`EffectsReady`, for the refinement: a leaf found empty is empty when the value
is emplaced, and the slot `delete_value` exchanges still holds the leaf it saw.
Every step of the trie is then a step of `KVMap` or none; the proof is of
`KVMap`'s whole specification, which has no fairness.

### The ephemeral trie and its allocator

`ShapeInv`.  `WellFormed` says that a node has two children, or that a thread
is about to attach the second; which thread, and that nobody takes its slot,
is `BranchesPending`, and with the pointers of the threads (`PointersStable`,
`CallsCarry`) this is inductive.  `SizesAccounted` (size in the word plus walks
still to pass equals the keys below) is inductive given `ShapeInv` and that
the tree is finite (`SizeInv`); the work is in how sets of walks and keys
change when a split puts a new word above them.  `DigestInv` says that no node
has a digest before `hash` and that the ones it makes stay those of what is
below, because nothing is inserted until `clear`.  `CallsKept`, for the
refinement, says that a call still has the value it was given.

`CompressedWhenIdle` takes these together: with no call under way nobody is
about to attach a second child and no walk is still to pass, so a node is as
long as what its keys have in common and a size is the number of keys below.

`ProofsAlwaysExact` and `NoProofLies`.  Soundness goes down a stack from its last
layer: what is carried there is the root's digest, and a layer whose digest is
that of a node has the node's children, so what was carried into it is the
digest of the child on the way to the key, or nothing when there is no such
child; at the first layer this is the value, or its absence.  It needs nothing
of where the layers come from, which is `NoProofLies`.  Completeness goes up the
path of `make_proof`: the carried digest after each layer is the node's.

The allocator's `IndInv` adds that each context is in a buffer of its own that
the counter has passed, and that nothing at or after its position was given out
(`PositionsOK`).  The key lemma, `StaysInside`, is why `overflow_check` has
`>=`: the position after an allocation is still in the same buffer, so it is
never mistaken for the first handle of the next.

### The ranges

`RangesInv` says of each range that its work list consists of nodes of the
compressed trie in the order of their keys (`ListOK`), that `work_size` counts
them, that `vector_offset` is the number of keys of the trie before the first
(`Placed`), and for apply ranges that the nodes differ within `max_split_len`
(`ListApart`); of the pool, that the keys of different ranges are disjoint and,
with those visited, all there are; of the vector, that what is written is in its
place.  A splitting constructor is followed round by round: at least every
second round moves a node, with a key or more, to the new range, which needs
half of the keys, so after `work_size` rounds it has ended; and no assertion on
an empty or single list fails, because a new range with less than half of the
work leaves more than one key to the other, and a single node with more than one
key below has at least two children.  The condition on `MaxSplitLen` is needed because the root's
children are handed out without a test of the root's length: with
`max_split_len = 0` they would all have the same truncated prefix.

### The verifier of the memcached trie

`VerifierSound` is the argument of `NoProofLies` against `TrieDigest` instead of
a trie: what is carried is always the digest of the keys of the map that go on
as the key does.  `HashCanonical`, which `memcache` checks, says that the trie's
hash is this digest.  `VerifierBinding` has no map: for any root hash at all, two
accepted stacks are compared layer by layer from their ends, and agree.  The
lengths in the layers fall from the first to the last, so the stacks are equally
long.

### The layered trie

The layers share nodes, and `insert` first replaces a node and then marks the
nodes it replaced, one by one, so no property of the memory as it stands is
inductive.  `LayerInv` is about `Tree(y)`: the nodes of layer `y` or older that
nothing has superseded up to `y`, with the marks that are still to be made
(`Pending`) counted as made.  `LayersOK` says that each of these sets is a
`TrieShape` in the shared nodes, `ContentsOK` that its leaves hold what the
layer should hold.  `NodesOK` relates the layer of a node, of its children and
the layer that supersedes it, and keeps the root that will free it;
`BoundsOK` is about the two bounds and the roots, of which the two newest stay
from layer 2 on; `CallsOK` says what calls hold between two accesses, and that
the chains they still have to mark are of the layer before.

Below layer 2 the bound wraps, and raising it may free the active layer.  That is
harmless to memory, if not to the caller: only roots exist in layer 0, no call
is under way, and freeing every root frees every node.  So `LayeredInv` is
`LayerInv` or `Emptied`, the state in which nothing is left and nothing can
happen but raising the bound again, and no theorem needs an assumption on when
the bound is raised.

`SealedForGood` and `NothingLost` follow from `ContentsOK`.  For
`MemoryManaged`, a node is owned by the parent that is superseded in the same
layer, or by the root of the layer before; by `LayersOK` there is exactly one
such parent in that layer, so a destructor that follows these edges frees each
node once and nothing that a remaining layer reaches.  `FreeingSucceeds` is the
action property that raising the bound never meets the case in which the
destructor terminates the process.  After a failed `print_assert` the model
stops (see the findings), so the theorems cover behaviours up to it.

`SealedHash` is about the digests that are left in the nodes.  `MetadataOK` says
that only nodes of sealed layers have one, together with all that is below them,
and that it is what the digests of the children yield: inserting changes nodes
of the active layer only, a copy starts without a digest, and a destructor takes
a node's digest with it (`MetadataKept`, `MetadataRaise`, `MetadataHash`).  It
needs in addition that only callers' keys have leaves (`LeafKeys`); nodes
without an active leaf below, and chains, which a layer does have, are what
`ShapeDigest` provides for.

`HashInv`, `NormalInv`, `EffectsReady`, `ShapeInv`, `SizeInv`, `DigestInv`,
`CallsKept`, `FinishedTrie`, `RangesInv` and `LayeredInv` were each checked with
TLC on the instances of section 3; they are not in the configurations, since the
theorems say more.

### Only model-checked

* `Progress` and `WorkDone`: liveness under fairness is outside the prover's
  reach.
* The memcached trie, its verifier apart: `NothingForgotten`, `LogPrunable`,
  `HashCanonical` and its `ProofsExact`.  Hashing, deleting and restoring are
  whole recursive calls in one action, written with `RECURSIVE` operators, in
  whose presence the prover loses its main backend.
* The merkle and the recycling trie: their nodes are values that contain each
  other, or memory that recursive calls pass along, and what a recursive call
  computes on them for every input is an induction over data.
* `LayeredAssertsHold` is violated.

## 5. Plan

Every trie of the library has a model that TLC checks; the three lock-free tries
whose nodes are flat state, the allocator, the ranges and the proofs of
membership have proofs of every safety property that the runs check of them.
What is worth adding:

1. the access-level part of `MemcacheTrie` (`insert`, `get_value` and reloads)
   as a module without `RECURSIVE` operators, for which `TrieShape` should serve
   with evicted nodes as nodes;
2. `PrefixBits`: the word arithmetic of `prefix.h` against `TriePrefix`.

Not modelled: formatting, printing and logging, the contents of values and the
bytes of digests, the hash function, serialisation of prefixes, the disk and
null interfaces of the memcached trie, which cannot restore, and memory
orderings weaker than sequential consistency (the publications are
release/acquire pairs on one word each).  Of the snapshot and the memcached
trie `invalidate_hash_to_key`, which nothing calls.  Of the merkle trie
`create_proof`, for which there is no verifier, `metadata_query`,
`apply_geq_key` and `serial_hash`, which do not compile when they are used, the
hash log and `coroutine_apply`.  Of the recycling trie the accumulate and apply
ranges, which split as the ephemeral trie's do, and metadata other than the
size.
