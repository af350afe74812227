# A verification project for the asynchronous B+ tree

This directory models the B+ trees of this repository, the accessors of blocks
below them and the barriers, locks and worker threads around them in TLA+. TLC
model-checks the models on small instances, and TLAPS proves theorems about the
barrier manager, the worker, the thread-based tree and the four accessors for
instances of any size.

## 1. The system

There are three trees with the same nodes. The **pull-based tree** answers
insertions and searches with one worker thread. Clients push requests into a
bounded lock-free queue. The worker admits a request into a free *context*, a
state machine whose `run()` works until it has to wait for a *barrier* (a
read/write lock on a block that does not block the thread) or for an asynchronous
block I/O. Contexts whose barrier was offered or whose I/O has completed are put
into ready lists; the worker runs them and polls the device for completions. The
**thread-based tree** lets every caller go down the tree in its own thread under
a reader-writer lock per block. The **sequential tree** has one caller, and is
the only one that deletes.

| part | source (under `src/src`) | state | operations |
|---|---|---|---|
| context barriers | `context/context_barrier.h`, `context/barrier_manager.h` | counters and queue of every block, ready list | request and release read/write barrier, offer |
| contexts of the pull-based tree | `tree/pull_based_b_plus_tree.h` 422-1060, `context/call_back.h` | state number, tokens, parents, split, counters of write-backs | the cases of `run()`, `init()` |
| worker and clients | `tree/pull_based_b_plus_tree.h` 86-192, 1062-1362, `tree/nvme_optimized_b_plus_tree.h` | request queue, `pending_request_`, slots, context pools, ready lists | submit, admission, process lists, probe, `sync`, `close` |
| nodes | `tree/leaf_node.h`, `tree/inner_node.h` | keys, values, children, right sibling | search, insert, split, delete, balance |
| sequential tree | `tree/vanilla_b_plus_tree.h`, `tree/in_disk_b_plus_tree.h` | root, depth, blocks in use and freed | insert, delete, search, clear, iterator, range search |
| thread-based tree | `tree/concurrent_b_plus_tree.h`, `sync/lock_manager.h` | root, depth, locks, the call of each thread | search, optimistic and pessimistic insertion |
| block cache | `blk/blk_cache.h` | LRU list of units with dirty flags | read, write, evict, invalidate |
| NVMe accessor | `blk/nvme_blk_accessor.h` | cache, commands in flight, ready list | asynchronous read and write, completion |
| file accessor | `blk/file_blk_accessor.h` | file, cache | read and write of several threads, allocate, deallocate |
| accessor with a queue pair per thread | `blk/nvme_blk_thread_dediciated_accessor_.h`, `accessor/` | cache, queue pairs | read, write |
| accessor with one I/O thread | `blk/nvme_blk_shared_working_thread_accessor_.h` | cache, request queue, `pending_requests_` | read, write, `working_thread`, `close` |

What makes it hard: an insertion changes several blocks in several I/Os while
others run in between; barriers and locks are released early (lock coupling) and
a failed optimistic attempt starts again; the root moves while others wait for
it; completions arrive in any order; caches sit between the trees and the
device, and are filled after the lock was given back; `close()` and `sync()`
race with requests in flight. `PROJECT.json` lists these hazards with their lines
and the properties that cover them.

## 2. Modules

| module | models | remarks |
|---|---|---|
| `ContextBarrier` | one `context_barrier` | operators: the object before a method to the object after it |
| `BarrierManager` | `barrier_manager` and arbitrary contexts that use it | actions `request_barrier`, `remove_token`, `run_ready` |
| `BTreeNode` | nodes as stored in blocks | operators; indexes start at 1, index 0 is the `-1` of `locate_child_index` |
| `PullTree` | `insert_context` and `search_context`, on `ContextBarrier` and `BTreeNode` | one action for each case of `run()` (several when it branches), with the state numbers of the code |
| `Scheduler` | worker loop, request queue, pools, `sync`, `close` | what contexts do inside the tree is left open; a command goes to the device, is answered from the cache at once, or is refused |
| `VanillaBPlusTree` | the sequential tree on blocks | one action for each call; recursive operators over a store of blocks |
| `ConcurrentBPlusTree` | the thread-based tree and its locks | a step for every lock, read or write of a block, and read of `root_` or `depth_` |
| `Dictionary` | what callers expect of a tree | abstract: an insertion takes effect at one instant, a search returns what is stored when it returns |
| `BlkCache` | the LRU cache | operators on a sequence of units |
| `NvmeBlkAccessor` | the asynchronous accessor with its cache and the device | actions `asynch_read`, `asynch_write`, `context_call_back_function`; submissions may be refused |
| `SyncClients` | the threads that call the other three accessors | what these have in common: beginning and end of a call |
| `FileBlkAccessor` | `read()` and `write()` on the file | the lock covers the cache, not `pread` and `pwrite`; `lost` records the three races that this opens |
| `DedicatedAccessor` | queue pairs with their locks and slots | any two threads may share a queue pair |
| `SharedThreadAccessor` | request queue, I/O thread, `close()` | both loops of `working_thread` |
| `BlockDevice` | what the trees expect of an accessor | abstract: a command takes effect at one instant before it completes |
| `SequenceHelpers` | operators on sequences for the nodes | those of the community module `SequencesExt` that the nodes need; that module brings in `Bags`, which slows every proof down by a factor |
| `BarrierManagerProofs` | theorems about the barriers | its first part has the facts about one barrier |
| `SchedulerProofs` | theorems about the worker | |
| `ConcurrentBPlusTreeInv` | the inductive invariant of the thread-based tree | definitions only |
| `ConcurrentBPlusTreeSteps` | facts about nodes, heights and the steps of a thread | what lookups return, what insertions and splits keep, what the threads that do not move keep; the steps of searches and optimistic attempts |
| `ConcurrentBPlusTreeProofs` | theorems about the thread-based tree | the steps of pessimistic attempts and the theorems |
| `BlkStorageProofs` | facts about the cache and about cache and device together | what the operators of `BlkCache` keep |
| `BlkAccessorSteps` | the steps of the four accessors | one lemma for each |
| `BlkAccessorActions` | the same for the actions as `MCBlkAccessors` has them | and that each is a step of `BlockDevice` |
| `BlkAccessorProofs` | theorems about the accessors | `AccessorInv`, the refinement of `BlockDevice` |
| `MC...` | instances for TLC | `Scheduler` and `NvmeBlkAccessor` also have a `.cfg` of their own |

How the parts fit together. `PullTree` composes barriers, nodes, contexts and an
accessor: with the `device` `"file"` an I/O takes effect at submission, as in
`file_blk_accessor`; with `"nvme"` at some moment before its completion, which is
the promise of `BlockDevice`. The device of `PullTree` accepts every command: what
a refusal does to a context is the subject of `Scheduler`. `MCBlkAccessors` checks
the four accessors against that promise. `PullTree` resumes ready contexts in any
order, which includes every order that the worker of `Scheduler` produces; in turn
`Scheduler` assumes of the contexts that barrier waits have no cycle, which the
run `root_split` shows on its instance. `ConcurrentBPlusTree` reads and writes
blocks in single steps, which is what an accessor that implements `BlockDevice`
gives it under its locks; `SyncClients` in turn assumes only what these locks
guarantee: a block is written by one thread at a time and not while others read
it. At the end of a run of `ConcurrentBPlusTree` the tree is examined with the
operators of `VanillaBPlusTree`.

Correspondence of state. Fields of the code keep their names or have them in a
comment at the declaration. A chain of cases of `run()` that call each other is
never interrupted (`running` in `PullTree`). The admission of a request, its
`init()` and its first `run()` start are one step, as are a completion and the
start of the `run()` it leads to: nothing looks at the context in between.
`next_state` and `current_state` are both kept, because `fire_context` and the
accessor move a context from one to the other. In `ConcurrentBPlusTree` the
release of a lock is part of the step before it: it only enables others. The two
arguments `get_root_id()` and `get_height()` of one call are evaluated in either
order, with other threads in between, as the language allows. A thread that waits
for a write lock may keep new readers out or not: implementations of the mutex
differ.

Data. Keys are small integers, values two model constants; a block holds a node
or is zero-filled, and a zero-filled block reads as an inner node without
children because `INNER_NODE` is 0. In the modules of the accessors the content of
a block is the number of the write it stems from. In `Scheduler` a context is named
by its request, and a batch of ready contexts is run in any order: `std::sort` by
tag and id produces one of them. The sequential tree takes the smallest freed
address where the code takes an arbitrary one: addresses are only compared.

## 3. Runs

| run | checks | instance | states |
|---|---|---|---|
| `barriers` | exclusion, accounting, no lost wakeup, queues, order of writers, service unless overtaken | 3 contexts, 2 blocks, both types, fair | 2,746 |
| `barrier_starvation` | **violated**: a writer may starve | 3 contexts, 1 block, fair | |
| `tree` | barriers, assertions, ownership of writes, reachability, B+ tree shape, refinement of `Dictionary` | on the file 5 insertions in all 120 orders; on NVMe a tree of height 3 with insertions below the smallest key and into a full leaf, an update and 2 searches in all orders; 3 contexts | 283,189 |
| `root_split` | only searches that entered at an outdated root err; every request is answered | 2 insertions that split the root and 2 searches in all orders, file, fair | 141,592 |
| `stale_root` | **violated**: a search misses a stored key | the programs of `root_split` | |
| `new_root` | **violated**: a search that entered at the current root errs | the same on NVMe | |
| `accessors` | refinement of `BlockDevice`, reads err only on blocks lost with the eviction of a unit, counters and commands agree, commands are answered, `close()` returns | 2 clients, 3 writes; 3 blocks and capacities 2 and 3 with a refused command on the NVMe accessor, 2 blocks and capacities 1 and 2 on the others, 2 queue pairs, device queue of length 1; fair | 359,628 |
| `lost_update` | **violated**: a read delivers an outdated block | NVMe accessor, capacity 2 | |
| `scheduler` | counters and pools agree, no context forgotten but by a refusal, `sync` and exit are right, requests and `close()` return unless a refusal stands in the way | 3 requests, 2 contexts, queue capacity 1, granularities 1, 2 refused commands, fair | 189,640 |
| `sequential` | searches, iterator and range searches are those of a sorted dictionary; the blocks in use are the tree; nodes fit | capacity 3 with keys 1..7 from the empty tree, capacity 4 from a tree of height 3 with keys 0..11 | 84,869 |
| `concurrent` | exclusive writes, fresh copies, one allocator, refinement of `Dictionary`, the final tree, every call returns | 3 threads with 4 calls, 3 trees in which the leaf, the inner node or the root is full; fair | 134,958 |
| `stale_height` | **violated**: an insertion is lost | a full leaf, one thread splits it, two insert into its left half | |

Bounds. With 2 entries per node every third key splits a leaf, so four or five
keys produce leaf, inner and root splits and height 3, which is every branch of
the insertions. Deletion needs more: capacity 3 is the smallest odd one, whose
splits leave nodes below the underflow bound, and capacity 4 with eleven keys the
smallest tree of height 3 in which nodes of both kinds lend and merge in either
direction. Three contexts or threads give a holder, a waiter and a third that
overtakes or interferes. `MaxBlocks` is above what the programs allocate;
`MaxWrites`, `MaxRefused` and `MaxWaits` bound the length of behaviours, not their
shape. Two refused commands in `scheduler` are enough to lose both writes of one
insertion, or one command of each of the two contexts, which leaves no slot for the
third request. Two blocks with capacity 1, and three with capacity 2, are the smallest
caches that evict while another block stays. The scheduler's constants are as
small as possible, so that every limit (full queue, no free slot, partial probe)
is met. `tree` and `accessors` hold several devices in one run: the device is part of
the initial state, and no step changes it.

Fairness. The worker loop takes whole ready lists in every round, so a ready
context is run (weak fairness). It probes at the latest after
`max_probe_delay_cycles`, hence strong fairness of `probe`, which a round may
skip. The device answers the commands it accepted. Clients that spin or poll are
scheduled, and so are the threads of the thread-based tree; their steps are weakly
fair only, and wait for locks that are given back for good. The lock of a queue
pair is a test-and-set spin lock, which goes to anybody who asks while it is free:
its `submit` is weakly fair only, and `AllAnswered` excepts a thread for as long
as others take the lock of its queue pair again and again (`Overtaken`). A lock
that is taken once and kept is no excuse. In `BarrierManager` a context returns
each token in the end whatever waits it meets (strong fairness of `remove_token`).
Nothing is assumed about when clients make requests or the owner calls `close()`.

Symmetry (of the contexts) is used in runs of `Spec` only, never with fairness.

### What the violated runs show

* **A writer may starve.** A read request is granted whenever no write barrier
  is held, without a look at the queue; overlapping readers keep a queued writer
  out. The comment in `offer_barrier` speaks of fairness.
* **A search may miss a stored key.** `search_context::init` remembers the
  root. If the root splits while the search waits for its barrier, the search goes
  on in the left half. The insertion checks for this (case 10001), the search does
  not.
* **The new root is visible before it is written.** Case 12 sets `root_`, then
  submits the block. On an asynchronous device a search reads the block before
  the write and answers "absent".
* **An update in the cache may be lost.** On a hit, `blk_cache::write` sets the
  dirty flag of a copy; the unit stays clean and is dropped when it is evicted.
  As a consequence no unit of the NVMe accessor is ever dirty, and
  `asynch_write_evicted` is never called. Should the flag be repaired, that path
  needs a check of its own: while the write of an evicted block is in flight, a
  read of the block misses the cache.
* **Two threads may write a leaf at once.** `concurrent_insert` takes the write
  lock of the block at which its height says the leaf is. When the height is
  evaluated first and the root splits before `get_root_id()`, the height is one
  too small, the leaf is locked for reading and one of two insertions is lost. The
  other order is safe: the address is compared again below the lock.

The passing runs bound these effects: `ServedUnlessOvertaken`,
`OnlyStaleSearchErrs` and `OnlyEvictedBlocksErr` say that nothing else goes wrong in
the same instances, and the properties of `concurrent` are excused only when an
attempt has read the height first and met a split root (`mismatch`). The insertions
of `tree` on the file have no searches beside them, and its NVMe programs keep the
root in place: they show the dictionary refinement apart from the two root effects.

In the same way the properties of `scheduler` say what a refused command costs, and
that it costs no more. `asynch_read` and `asynch_write` print that the submission
failed and return; the context is then in no list and at no device. It never gets to
its end, keeps its slot and its barriers, and is counted in `pending_request_` for
ever. `ContextNotForgotten` states that a context without a refused command is in
exactly one place from where the worker gets to it, and that one with a refused
command is at most where its other command is. `Stuck` is the set of the contexts with
a refused command and of those behind their barriers. `RequestsReturn` states that
every other client is answered unless stuck contexts have all slots, and
`CloseReturns` that `close()` returns if no context is stuck.

`OnlyEvictedBlocksErr` counts a block of the file accessor as lost in three cases,
all with an evicted unit: `write()` drops a unit that counts as clean (`Dropped`);
the file is read before the evicted unit of the block is written (`Missed`); an
older evicted unit is written over the last content (`Overwritten`). An eviction
whose `pwrite` comes before the next `pread` of the block loses nothing, and a
read after it has to be right.

Two more things the models show, without a line in the repository that denies
them. `range_search` from a key below every key of a tree whose root is an inner
node uses an uninitialised reference; `ScansAreRight` states that there is no
other such case. With an odd capacity nodes may stay below the underflow bound
for ever, so `NodesFit` states the bound for even capacities only.

## 4. Proofs

### The barriers

`BarrierManagerProofs` proves, for any finite set of contexts, any set of block
addresses and any set of barrier types in use: type correctness, `Exclusion`,
`Accounting`, `NoLostWakeup`, `QueuesMatchStatus` and `WritersKeepOrder`, which are
all safety properties of the run `barriers`.

Assumptions: `ContextFinite` (cardinalities), `NodeIsAddress` (addresses are
integers), `ModesAreTypes`.

The argument. None of the properties is inductive alone. `Exclusion` needs the
counters to speak for the tokens (`Accounting`); `Accounting` is preserved when
`offer_barrier` fires several contexts only if these are distinct and hold no token
on the block (`QueuedOnce` and the strengthening `QueuedHoldsNone`: a context
queued on a block has no token on it, because it asks for blocks below those it
holds); the number of fired contexts is then the number the counter grows by
(`FiredCount`, a bijection between the served prefix of the queue and the set of
contexts). `NoLostWakeup` rests on `OfferServesFront`: after `offer_barrier` the
front request is not grantable. `IInv` is the conjunction of all of them, and
one lemma for each action shows that it is preserved.

The first part of the module has the facts about the operators. The `CHOOSE` of
`ReadPrefix` is shown to have a witness through the least element of a
well-founded order, since induction over data is out of the prover's reach.

### The worker

`SchedulerProofs` proves all safety properties of the run `scheduler`, for any
finite set of requests, any number of contexts, any capacity of the queue and any
granularities: `TypeOK`, `SlotsMatchPools`, `SyncMeansAnswered`,
`ContextNotForgotten` and `ExitIsClean`.

Assumptions: `SchedulerAssumption` (the limits are positive, there are finitely
many requests, and `None` is none of them).

The argument. Every counter of the code is the size of a set of requests in
certain phases: `pending_request_` of those that are made and not yet counted off
(`CountsRight`), the pools and `free_context_slots_` of the contexts in use
(`PoolsRight`). No assumption is made about submissions: any of them may be
refused, up to `MaxRefused`, or be answered from the cache. That a decrement hits
a member of the set, and hence keeps the counter above zero, follows from where
the context is: `OnePlace` says that a served context is in one of the ready
lists, the queue of a barrier that an *active* context holds, or at the device,
and others are in none. A context with a refused command is the exception, and
stays served: `run_counts` finds a command outstanding whenever it is told of the
other one. `ExitIsClean` needs in addition that nobody makes requests after
`close()` (`ExitRight`), and that a batch is left over in no other stage of the
loop (`BatchRight`).

### The thread-based tree

`ConcurrentBPlusTreeProofs` proves `TypeOK`, `WritesExclusive`, `CopiesAreFresh` and
`OneAllocator` of the run `concurrent`, for any set of threads, any programs of
insertions and searches, any `CAPACITY` of at least 2 and any balanced tree at the
start.

Assumptions: `CapacityAssumption`; `KeyAssumption` (keys are integers);
`TreesAssumption` (the addresses in use at the start are an initial segment, and
the tree has heights); `ProgramsAssumption` (the calls are calls).

The argument. Locks are taken hand over hand, so what a thread knows of a block it
has not locked yet is only where it read the address. The invariant `IInv` says
that there is a function from addresses to heights, with the root at `depth`, a
child one below its parent and leaves at 1; the steps never change the height of an
address that was allocated, which makes the statement stable under what other
threads do: an address that was read from a node keeps its height however often
blocks are split or a new root is put above. A new block gets its height when it is
allocated (`NewHeights`), and until it is written or the root is replaced it is
known to one thread only (`FreshAlone`). From this:

* the level of an optimistic attempt is the height of its node, if its first height
  was that of its root (`Where`), so that the leaf is the node which it locks for
  writing: `WritesExclusive`. The case of the run `stale_height` is where the first
  height was not;
* the nodes on the stack of a pessimistic attempt are locked for writing, one for
  each level from the root (`Path`), and a writer is alone (`Excluded`), so that
  nobody changes the stored nodes of which it has copies: `CopiesAreFresh`;
* a pessimistic attempt has the root locked until it has nothing more to allocate
  (`RootLocked`), which serialises `allocate()`: `OneAllocator`. The
  root cannot be replaced in between except by that attempt;
* halves of a full node and a node that takes one entry more fit into a block
  (`ConcurrentBPlusTreeSteps`), and locks are taken on stored blocks only (`LocksStored`,
  a second invariant over `IInv`): `TypeOK`.

One lemma for each step shows that `IInv` is preserved: `StepKeeps` reduces it to the
thread that moves and the stored tree, `OtherThread` shows once what the others keep.

### The accessors

`BlkAccessorProofs` proves all safety properties of the run `accessors`, for any
set of clients, any finite set of blocks, any positive capacities, any set of queue
pairs, any queue length of the device and any numbers of writes and refused
commands: `AccessorsTypeOK`, `OnlyEvictedBlocksErr`, `CommandInOnePlace` and
`ImplementsBlockDevice`, the refinement of `BlockDevice`.

Assumptions: `CapacitiesArePositive` and `BoundsAssumption` of `NvmeBlkAccessor`,
`AccessorsAssumption` of `MCBlkAccessors`. That a block is not written while others
use it is a guard of the clients, not an assumption of the proof.

The argument. `AccessorInv` has one disjunct for each accessor. Common to all is
`Storage`: the cache has no two units of a block and respects its capacity, and
the *view* of a block (its unit if it is cached, the device otherwise) is what
was written last unless a write of it is on its way or the block was lost
(`Fresh`). This is kept only together with what the calls know (`CommandOK`: a read
that waits for the device will find there what was written last) and with `Apart`
(a block that is written has one call). `MemStep` lists what a step may do to view,
device and commands, `StepKeeps` shows that each of these keeps the invariant, and
`StepRefines` that each is a step or a stutter of `BlockDevice` when nothing is lost.
The proofs about an accessor then say which of them each of its steps is:

* NVMe: a block that a submitted command waits for is not in the cache
  (`NotCached`), so that the unit which the callback puts there does not replace a
  newer one; no unit is dirty (`Clean`), so that an evicted unit is dropped and its
  block lost if the device has other content;
* file: the lock is given up between the cache and the file, so that an evicted
  unit is in neither until `pwrite`, and `Storage` is too much to ask. `BlockKept` takes
  its place for each block that is not lost: the cache and the buffers of reads have
  what was written last, and it is in the file, in the hands of a call that will
  write it, or in the cache while nobody is on the way to the file. Each history update
  of `lost` is the one case in which a step breaks this. The refinement is claimed only
  when all blocks fit (`Fits`); nobody then carries a unit, and `Storage` holds;
* dedicated and shared: a cached unit always equals the device (`SavedState`), because
  a write drops the unit before the command is submitted and puts it back when it has
  completed (`DroppedBy`). Hence nothing is ever lost, whatever the capacity;
* the counters: the lock of a queue pair has one owner and its slot one command, and
  `pending_requests_` is the number of commands on the device (`Counted`).

That a cache which could hold all blocks evicts none is a fact about cardinalities
(`CachesFit`). The lemmas about steps have it as a hypothesis, and `AllCachesFit`
proves it beside the theorems, where the library's facts about finite sets are at
hand. The same is done with `PlacesCount` (the places of a sequence of length `n` are
at most `n`) and `PlacesCounted` in the proofs about the thread-based tree.

### Left to TLC

* Liveness under fairness: the provers do not handle `ENABLED`.
* The refinements of `Dictionary`, `QuietTreeIsSequential` and `QuietTreeIsBPlusTree`,
  `StoredKeysReachable` and `OnlyStaleSearchErrs`: that no key is lost is a statement
  about the set of keys below a node, which takes an induction over the tree.
* The sequential tree: what the recursive operators of `VanillaBPlusTree` compute
  takes the same induction.
* `TypeOK`, `BarriersMatchTokens`, `Asserts` and `WritesOwned` of `PullTree`. They need no
  induction over data, but an invariant that relates the tokens, the parents and the
  pending split of a context to the stored nodes in each of its thirty-odd states, in
  the way `IInv` does for the thread-based tree.

## 5. What is not modelled

* The estimators in `scheduler/`: they only decide in which rounds the worker
  probes, and `Scheduler` lets it probe or not in any round.
* Data races on memory that is managed by hand. `free_block()` of the file
  accessor is called without the lock, so that two threads may corrupt the list of
  free buffers; the dedicated accessor never gives back the buffer of a clean unit
  it evicts. Buffers are not part of the models.
* In the pull-based tree the unused `context_based_process` and
  `naive_scheduler`; in the lock manager `try_get_*` and `promote_to_write_lock`; in
  the cache `mark_flushed` and `get_dirty_cache`; in the NVMe accessor the
  synchronous read (commented out). None has a caller.
* The dedicated and the shared accessor when the device library refuses a
  command: the first waits for ever, the second does not look at the status. Both are
  plain from the code, and `NvmeBlkAccessor` models a refusal where the
  program goes on afterwards.
* The spin lock and the semaphore (single steps of the modules that use them);
  the barrier in `sync/`, which has no user; the void accessor, which does no I/O;
  older code that nothing includes (the `blk_*` tree, `blk/lru.h`); the in-memory
  variant of the sequential tree, which differs in its node references only;
  benchmarks, metrics and logging.
* Crashes: the trees keep no log and recover nothing.
* The vendored device library, its environment and the lock-free queue. They are
  by far the largest part of the files below `src` (about a million lines), and
  seen through their use.

Measured over the program's own code, the models cover the pull-based, the
sequential and the thread-based tree, the nodes, the barriers, the cache and the
four accessors that do I/O, but for the operations named above.

## 6. Plan

1. Proofs about `PullTree`, beginning with `BarriersMatchTokens`.
2. The write-back of evicted units in `NvmeBlkAccessor`, should the dirty flag of
   the cache be repaired.
3. The estimators' arithmetic as operators.
