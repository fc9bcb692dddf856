# RedoDB in TLA+

This directory specifies and checks the concurrent and persistent core of
RedoDB, the key-value store in `src/ptmdb`, of the persistent transactional
memories (PTMs) in the repository, and of the objects they share. Modules are
checked with TLC on small instances; the lock of the replicas, the locking, the
current replica and the ring of RedoOpt, the C-RW-WP spin lock, the thread registry, the hazard
pointers and both Romulus PTMs, all with their crashes, are also proved correct
with TLAPS, for any number of threads. Of the Romulus PTMs that includes the whole
promise: durable linearizable transactions.

## The system

RedoDB is a C++ header library. A database operation is a transaction of a PTM;
PTMs keep one or several copies of a persistent heap in one mapped file and make
transactions atomic, durable and, most of them, wait-free.

| Component | State it keeps | Operations | What makes it correct |
|---|---|---|---|
| `StrongTryRIRWLock` (`common/`) | `wstate` (sequence, NOLOCK/HLOCK/RLOCK/WLOCK), one read slot per thread | try, unlock, downgrade, hand-over to read-only | a writer is alone; no attempt fails for nothing |
| RedoOpt (`ptmdb/ptms/redoopt`) | persistent: `curComb`, replicas; volatile: heads, locks, ring, States with redo logs, announcements | write and read-only transaction, restart | durable linearizability, wait-freedom |
| RomulusLog, RomulusLR | two copies, a persistent phase, a volatile log, flat combining; a C-RW-WP lock or Left-Right for readers | same, `recover` | the copy the phase points at is whole |
| CX PTM | a list of mutations, replicas under `StrongTryRIRWLock` | same | the list is the order; a replica is always to be had |
| OneFile | `curTx`, write-sets, words with sequence numbers, a persistent log | same, `recover` | helpers apply a write-set once and in its turn |
| C-RW-WP locks | writers' lock, read indicator | shared and exclusive lock | exclusion, writer preference |
| HazardPointers, ThreadRegistry, EsLoco | hazard slots and retired lists; thread ids; free lists | protect/retire, register, malloc/free | no use after free; unique ids; disjoint blocks |
| RedoDB (`db_impl`, `write_batch`, `TMHashMap` and its iterator, `PSlice`) | a hash map of strings in the heap | Put, Get, Delete, Write, iterate, open, close | a map; batches are atomic; strings are those of a commit |
| `pdatastructures` | four sets, three transactional queues, a lock-free persistent queue | add, remove, contains; enqueue, dequeue | they are sets and FIFO queues (the fat queue is not), the last one durable |

The interaction that matters: a RedoDB operation is a closure that RedoOpt may
run several times, on several replicas, in several threads. A thread announces
its closure; whoever builds the next replica runs all announced closures on it
and publishes it with one CAS of `curComb`. The lock of a replica says who may
write it; the head of a replica says which commit it holds; the ring maps a
commit to the State (redo log, results) that produced it, and also tells that
the commit is durable. The hard parts are that locks are taken by one thread
and released by another, that losers take their stores back on replicas others
wait for, that States are reused while others read them, that the fast path
skips cache-line write-backs others are believed to have done, and that a crash
may leave any mixture of what was stored since the last write-back. CX and
OneFile solve the same problem with one list of closures and with one copy of
the data; Romulus gives up wait-free writers and has two copies.

Under these: every per-thread array is indexed by the id of `ThreadRegistry`
and scanned up to its `maxTid`; closures are freed by `HazardPointers`; objects
in the heap come from `EsLoco`, whose `poolTop` bounds what is copied.

`PROJECT.json` lists the hazards line by line, with the properties about them.

## Modules

Abstract specifications, and what is shown to implement them:

| Promise | Module | Implemented by |
|---|---|---|
| a reader-writer lock with failing tries | `TryRWLock` | `StrongTryRWLock` (proved) |
| a reader-writer lock that prefers writers | `WriterPrefLock` | `CRWWPSpinLock` (proved), `CRWWP` |
| durable linearizable transactions | `DurableStore` | `RomulusLog` (proved), `RomulusLR` (proved), `RedoOpt`, `CXPTM`, `OneFile` |
| the map of `db.h` | `KVStore` | `RedoDB` |
| a FIFO queue | `FifoQueue` | `PFriedmanQueue` |
| a set of keys | `KeySet` | `PersistentSets`: `TMRedBlackTree`, `TMSkipList`, `TMResizableHashMap`, `TMLinkedListSet` |

`RedoOpt` and `CXPTM` use `TryRWLock` operations as single steps, `RomulusLog`
uses `WriterPrefLock`, `CXPTM` uses `enqueue()` of CX as `CXQueue` shows it, and
`RedoDB` takes transactions to be those of `DurableStore`: each layer relies on
what the layer below is shown to promise.

### StrongTryRWLock

`wstate`, `ri` are the two shared variables of the class; `pc`, `ws` and `k`
are where a thread is in its call, its copy of `wstate` and its loop index.
`handed` records that a downgraded lock waits for `setReadUnlock`, which in the
PTMs another thread calls. `outcome` is a history variable. A scan of the read
indicator is one step per slot, which is the point of the whole algorithm.
`sharedLock` and `exclusiveLock` are loops around the try operations and add no
state. `MaxSeq` bounds the 62-bit sequence number.

### RedoOpt

| Model | Code |
|---|---|
| `curComb`, `pcur` | `per->curComb` as the caches show it; the values a crash may leave |
| `mem`, `pm` | the replicas; per word the values a crash may leave |
| `head`, `lock`, `readers`, `flushcopy`, `clsets` | the fields of `Combined` |
| `ring`, `sauron`, `lastIdx`, `enqueuers`, `announce`, `copyTime` | the members of the same name |
| `cc`, `nc`, `loc` | `cComb`, `newComb` and the other locals of a call |
| `hist`, `call`, `acked`, `budget`, `crashes` | history variables and bounds |

`ns_write_transaction` is the path `BeginWrite`, `Announce`, `WriteInit`, then
twice `LoadCurComb` ... `Publish`; `continue`, `break` and falling out of the
loop are `Continue` and `Break`. `getNewComb` is `PickCheck`/`PickTry`,
`apply_redologs` and `copy_redolog` are `BeginReplay` to `Replayed`, `makeCopy`
and `copyFromTo` are `CopyInit` to `CopyCheck`, the helping loop is `HelpNext`
to `HelpRun`, and the end of a transaction that did not publish is
`ExitUnlock` to `FetchResult`. `ns_read_transaction` is `BeginRead` to
`FallbackHead`. `CrashRestart` is a crash at any step followed by the
constructor on an existing file.

Abstractions of `RedoOpt`, most of which the other PTMs share:

* A transaction increments one word (modulo `Wrap`) and returns the whole
  store, or reads all words one by one. The result is the most a transaction
  could return, so a wrong store is visible in a result.
* Each word has its own cache line. `PWB` followed by the fence that orders it
  (in the code often the next CAS) removes the older values from `pm` or
  `pcur`; without it, any value stored since the last write-back may survive.
  Memory is otherwise sequentially consistent; C++ relaxed accesses are not
  reordered.
* Two reads are one step only where the value read first is discarded if the
  second look, at `curComb` or at a ticket, finds a change.
* The time `getNewComb` spends is not modelled: after each pass over the
  replicas the range grows by one, which is the earliest the code could do it,
  and never if `copyTime` is 0. What a copy takes is chosen from `CopyTimes`.
* `copyFromTo` and `flushCopy` work chunk by chunk; a chunk of the copy is one
  word, and the flush has one chunk. The last chunk of a copy is compared like
  the others.
* The thresholds that depend on the size of the heap (redo log too long, too
  many lines) are the constants `RedoLimit` and `CLLimit`.
* A failed try of a lock needs the lock held or a reader in it; the spurious
  failure of two attempts that meet is left out, as it only repeats the scan.
* Hazard pointers and the allocator are modules of their own: a request is a
  value. `Init` is a new file before `createFile` runs its first transaction,
  and nested transactions, which run the closure directly, add no step.
* `UninitTickets` is what `apply_redologs` may find in the local it forgot to
  assign: `NONE` stands for the last applied ticket, the benign value, which
  all passing runs use.

### Romulus, RomulusLog, RomulusLR

`Romulus` is what both headers have in common. `main`, `back`, `state` and
`used` are the persistent variables as the caches show them, `pmain`, `pback`,
`pstate` and `pused` what a crash may leave of them; the heap is the word of
`used_size` and one word per block, and the request of a writer takes a block
or increments words. `entries`, `logSize`, `logEnabled` are the log, `fc` the
array of posted requests, `lfc` the combiner's copy, `todo` what is left of the
request it runs. `hist` are the heaps committed so far, `call` the open calls with
what they took, `ret` the answers; `Abstract` maps them to `DurableStore`. The
actions follow `ns_write_transaction`: `Post`, `TryLock`,
`Collect`, `SetMutating`, the stores of the requests one at a time, `FlushMain`,
`SetCopying`, `ClearFc`, `CopyToBack`, `SetIdle`, `Unlock`. `boot` is where
`recover()` is, which a crash may hit again.

`RomulusLog` adds the lock (`mode`, `owner`, `readers`) and the readers of main.
`RomulusLR` adds Left-Right (`leftRight`, `versionIndex`, the two read
indicators `ri`), each access one step, and `toggleVersionAndWait` twice.

### CXQueue, CXPTM

`CXQueue` is `enqueue()` with one step per access of `enqueuers`, `tail`, `next`
and `ticket`. `CXPTM` has the list as the sequence `queue`; `head[c]` is the
node replica `c` has been brought to, `cut` the nodes that were linked to
themselves when they were retired, so that a replica that lags behind must be
copied. Its actions follow `ns_write_transaction` (`Round` is its loop,
`getCombined` scans the locks, `Applied` is the run of one node on a replica),
`ns_read_transaction` and the constructor on an existing file. `MAX_COMBINEDS`
is the 128 of the code, `MIN_SIZE` and `MAX_SIZE` are the limits of the list of
retired nodes.

### OneFile

A word is `cell[a]`, its value and sequence number, which the code changes with
a double-word CAS (`Dcas`). `ws[t]` is the write-set of thread `t`, `request[t]`
the transaction it was made for, `ops` the announced functions as others see
them, `he`, `retired` and `freed` their hazard eras. The actions follow
`innerUpdateTx` with `transformAll`, which runs all open functions into the
write-set, and `commitTx`, which persists the log and does the CAS of `curTx`;
`helpApply`, whose second look at the request is `HelpRecheck`; `apply`; and
`readTransaction`, whose loads abort on a word that is newer than the
transaction (`TooNew`). A function increments the words of its request and
returns all words; results are words too, as in the code. A write-set is copied
in one step and a word loaded with its sequence number: what is torn is rejected
by the second look or by the DCAS.

### HazardPointers, ThreadRegistry, EsLoco, PSlice

`HazardPointers` has the requests of RedoOpt as heap objects whose addresses are
reused, `live` being the allocated ones; `buffer` is the store buffer of a
thread. `ThreadRegistry` is `register_thread_new` and `deregister_thread` access
by access. `EsLoco` has one action for `malloc` and one for `free`; addresses
are bytes of a pool of 32, headers take 2. `PSlice` keeps of a transaction what
decides where the bytes of a string go: its replica, the log, the write-backs.
`offset` is that of the builds there are, 0: the other branch of the `#ifdef`
tests names no build has, and `data()` has no such branch for one of them.

### RedoDB

`root` is what root pointer 0 holds, the hash map (`TMHashMap`: the chains of
its buckets, its functions pure operators). A call opens, one transaction
answers it, and it returns; a batch of the builds with `PTMDB_CAPTURE_BY_COPY`
is one transaction per operation (`trans` is what is left), of the others one
transaction. `OpenDB`, `CloseDB` and a crash go with them.

`KVStore` is what `db.h` says, where a `Delete` is always OK. The code answers
NotFound for a key it does not find, so `AbstractStore` is refinement of `KVStore`
with every `Delete` taken to answer OK, and next to it `DeleteTells`: its real
status says whether the key was there when it took effect. The run
`RedoDBDelete` shows the disagreement itself.

### Sets and queues

Each operation of a set or of a transactional queue is one transaction, so the
operators are pure functions of the object, with the code's rotations, levels,
growing and freeing, and a behaviour is a history of calls. A step the code
could only do by following a null pointer is an error of the model. Recursive
definitions are recursive functions or folds where the code's loops allow it.
`PFriedmanQueue` is lock-free and has one step per access; `durNext` and
`durDeq` are the changes that have been written back.

The array and the linked queue are FIFO queues (`DequeuesOldest`, in
`Linearizability`). The fat queue is not: its `dequeue()` takes `head == tail`
for an empty queue and answers EMPTY while that node holds items. What remains
true of it is `FatQueueKeepsOrder`: it loses, repeats and reorders nothing, and
answers with the oldest item as long as there are two nodes.

## What TLC checks

Independent objects share a run where each alone would be a small one: a
behaviour then picks one of them (`which`) in its first state and the others
stand still.

| Run | Instance | Properties |
|---|---|---|
| `StrongTryRWLock` | 3 threads, sequence numbers to 2 | `TypeOK`, `MutualExclusion`, `ReaderYieldsOnlyToWriter`, `NoCollectiveFailure`, `AbstractSpec` |
| `RedoOptWriters` | 2 threads, 3 + 1 transactions on 1 word, reads announced at once, 3 replicas, ring of 3, 2 States each, 1 crash | `ReplicasConsistent`, `ReplicaLocks`, `RingImpliesDurable`, `CrashLeavesCommit`, `TwoCopiesSuffice`, `DurableLinearizability`, `WaitFree` |
| `RedoOptReaders` | 2 writers and 1 reader, 1 transaction each on 2 words, copies only, lists of 1 line | `SnapshotHeld`, `CrashLeavesCommit`, `DurableLinearizability` |
| `Romulus` | log: 2 writers and a reader, a log of 1 word; 2 writers, 2 crashes. lr: 1 writer and 2 readers; 2 + 2 transactions of which only the readers run on; 2 writers, 2 crashes | `CopiesConsistent`, `ClearedAreDone`, `ReaderUndisturbed`, `DurableTransactions`, `AllAnswered` |
| `WaitFree` | cx: 2 threads that write and read, 2 + 2; 4 + 1; 2 + 1 on 2 words with 1 crash; 4 replicas. onefile: 1 + 3 writes of 1 word; a writer and a reader of 2 words, 2 + 2; 1 thread with 1 crash | `CXReplicasConsistent`, `CXReplicaAvailable`, `CXLeavesCommitted`, `OneFileAppliedInOrder`, `OneFileSnapshotHeld`, `DurableTransactions`, `WaitFree` |
| `Objects` | registry: 3 threads on 3 slots. hazard: 3 threads, 4 addresses; redo: 2 threads with store buffers. allocator: a pool of 32 bytes, 4 sizes. queue: 3 threads of CX. fifo: 2 threads, 3 operations each. store: 2 threads, 3 keys of which 2 share a bucket, a bucket that stays empty, 1 crash, both kinds of build. Sets of 6 keys; queues of 2 values, up to 5 items, 3 per node, an array of 2 | `SafeReclamation`, `PoolIntact`, `AnswersSurvive`, `SetsSound`, `RegistrySound`, `QueueSound`, `AbstractStore`, `Linearizability`, `FatQueueKeepsOrder` |
| `Progress` | spin: 3 threads; ticket: 3 threads, 2 counters, 3 tickets; registry: 3 threads on 2 slots; fifo: 2 threads, 2 operations each; queue: a thread that registers late | `LockSound`, `TicketLockSound`, `CallsEnd` |

`DurableLinearizability` (`DurableTransactions` for Romulus, CX and OneFile) is
refinement of `DurableStore`: commits are ordered, a commit takes the open
requests of a set of threads, each answer is what its own commit did, a read
answers with a store that was current during the call, and a crash keeps
everything that was answered. `AbstractStore` is refinement of `KVStore` but for
the status of a `Delete`, `Linearizability` of `FifoQueue` and `KeySet`, `LockSound` and
`TicketLockSound` of `WriterPrefLock`, `AbstractSpec` of `TryRWLock`.

Why the bounds are enough for the cases of interest:

* RedoOpt: three replicas for two threads is the ratio of the code (one more
  than threads), so replicas become scarce; four commits with a ring of three
  slots and two States per thread wrap both, so stale slots and reused States
  occur; two attempts per transaction give lost CASes, withdrawn attempts and
  helped requests; `RedoLimit = 0` forces copies and 2 allows replays.
* Romulus: two words tell a torn copy from a whole one, `recover()` can crash
  once more, and requests are posted while a combiner is at work.
* CX: with 4 + 1 transactions and lists cut to two nodes a replica falls behind
  the list and must be copied; four replicas for two threads is the ratio of
  what the protocol can hold (see below). OneFile: three commits overtake a
  writer in each of its four iterations.
* Objects: six keys give a tree of height four with every rotation of a
  deletion; three threads on three slots is the full registry; a pool of 32
  bytes runs full and reuses each block size.
* RedoDB: put, overwrite, delete and batches of two to four operations on a
  chain of two nodes and on a bucket of its own.

Every action of the modules fires in some passing run, and every property has a
mutant of the code in `PROJECT.json` that it refutes.

Fairness: weak fairness of the steps of single threads, which is what an
operating system gives a thread that is not blocked. `WaitFree` is checked under
fairness of one thread: the others may stop for ever at any step, which is what
wait-freedom is about. `AllAnswered` takes all threads of RomulusLog, whose
lock blocks, and only the readers of RomulusLR; its restart after a crash is
fair too. In `CallsEnd` every thread that has begun a call of a lock keeps
running and none has to begin one; in the registry and the two queues only one
thread is sure to run, and the others have a bounded number of calls, so that
the persistent queue, which is lock-free only, must let it through. Deadlock is
checked everywhere; `Done` or `Finished` is the end of a bounded instance.

### What the passing runs leave out

Some paths of the code are wrong (next section). A run that met one would say
nothing about the rest, so the instances keep clear of them:

* one-word runs of RedoOpt replay logs; two-word runs only copy
  (`RedoLimit = 0`) and count upwards (`Wrap = 100`). `CrashLeavesCommit` and
  `DurableLinearizability` are therefore statements about the code outside the
  two flushing bugs. Copies take a microsecond or more (`CopyTimes = {1}`),
  `UninitTickets` is the benign value, no thread writes after an announced read;
* crashes of RomulusLog meet logs that do not overflow; readers of CX meet no
  crash, and no thread of CX registers during an `enqueue()` in `QueueSound`;
* a crash of OneFile meets one thread and transactions of one word;
* batches have one operation in the builds that capture by copy; keys have no
  NUL;
* no passing run has the bytes of strings (`PSlice`): in every Redo build they
  go to replica 0, and the transactions of RedoDB are those of words.

### Where the code and its documentation disagree

Five runs end in a counterexample, each for a claim the repository makes:

* `RedoOptUnflushedReplay`: a redo log is replayed onto a replica without
  flushing the words; the next commit publishes the replica, and a crash loses
  the earlier, answered write (`README.md:18`, durable linearizable).
* `PSliceConcurrent`: with the macros the Makefile defines, the `#ifdef` of
  `slice.h:147` does not match and the bytes of strings go to replica 0, which
  others are reading (`db.h:46`, safe for concurrent access).
* `RedoDBBatchAtomic`: with `PTMDB_CAPTURE_BY_COPY` each operation of a batch is
  a transaction (`write_batch.h:5`, applied atomically).
* `RedoDBDelete`: a `Delete` of a key the store does not have answers NotFound
  (`db.h:69`, "It is not an error").
* `OneFileRecovery`: `recover()` applies the log of the last transaction's
  thread, which that thread may have begun to overwrite
  (`OneFilePTMWF.hpp:1209`, a consistent state).

The modules show more of them; the constants that do are given, to put into the
configuration of the run named.

| Where | What | How |
|---|---|---|
| `RedoOpt.hpp:1490` | after a copy of less than a microsecond `getNewComb` never looks beyond two replicas, and a writer can wait for a stopped thread (`README.md:12`, wait-free) | `RedoOptWriters`, `CopyTimes = {0}`: `WaitFree` |
| `RedoOpt.hpp:1364` | `makeCopy` forgets the lines an abandoned attempt dirtied, and the copy skips what compares equal in the caches; a crash brings the aborted value back | 2 threads, 2 words, `RedoLimit = 0`, `Wrap = 2`, 1 crash: `DurableLinearizability` |
| `RedoOpt.hpp:1339` | a read that was announced and then succeeded leaves its announcement open; the thread's next write is taken for done | `MAX_READ_TRIES = 1`, two transactions each: `DurableLinearizability` |
| `RedoOpt.hpp:644` | with a value a build can leave in the uninitialised `ringTicket`, a stale replica is taken for an up-to-date one (comment at line 1587). Reached by a thread that kept its replica from its first attempt and has no log to replay in the second | `UninitTickets` with the next ticket: `ReplicasConsistent` |
| `RedoOpt.hpp:1516` | the relaxed store that unlinks a request may be seen after the scan of the hazard pointers | `HazardPointers`, `StoreBuffers` TRUE, `AnnounceFirst` FALSE: `SafeReclamation` |
| `RomulusLog.hpp:249` | after the log overflowed, stores are neither in it nor written back | a log workload with limit 1 and a crash: `DurableTransactions` |
| `RomulusLog.hpp:539` | `recover()` compares more than `used_size` and blames a missing `persist<T>` | from `Recovered`, which copies `used` blocks |
| `CRWWPSpinLock.hpp:58` | a writer can lose the CAS of the spin lock for ever (lines 37-39: starvation-free) | `CRWWPSpinLock`, `~>` from waiting to holding |
| `EsLoco.hpp:119` | `1<<bsize` is negative from 2^31 bytes on, and `poolTop` moves down | `EsLoco`, `IntWidth = 4`: `PoolIntact` |
| `CXPTM.hpp:718` | a thread that registers during an `enqueue()` can let it return without the node in the list (line 725) | `CXQueue`, `Early < MaxThreads`: `QueueSound` |
| `CXPTM.hpp:578` | a reader's PWB of `curComb` may come before the commit it answers with is written back | a CX workload with a reader and a crash: `DurableTransactions` |
| `CXPTM.hpp:573` | one try too few after a read was enqueued | `MAX_THREADS = 2`: `DurableTransactions` |
| `CXPTM.hpp:410` | T writers can hold and share 2T - 1 replicas besides the current one, and there are 128 for 65 threads | `MAX_COMBINEDS = 2`: `CXReplicaAvailable` |
| `db_impl.h:105` | a captured batch is applied from its end (`write_batch.h:7`) | `RedoDB`, a batch of two puts of one key |
| `db_impl.h:107` | keys and values of a batch end at a NUL | `RedoDB`, a key with a 0 |
| `db_impl.h:144` | a late helper assigns to the string of a `Get` that has returned (line 143) | read only |
| `slice.h:151` | the bytes of a string are written back in the replica of the transaction, and are in replica 0 | `PSliceConcurrent` with one thread, one commit and `MaxCrashes = 1` |
| `TMLinkedListFatQueue.hpp:86` | `lhead == tail` is taken for an empty queue, and the node may hold items | `TMQueues`, kind `fat`: `DequeuesOldest`; what is left is `FatQueueKeepsOrder` |
| `TMHashMapIterator.h:48`, `:64`, `:87` | `SeekToFirst()`, `SeekToLast()` and `Seek()` look at `sizeHM`, which nothing counts any more (`TMHashMap.hpp:125`): "Valid() after this call iff the source is not empty" (lines 45, 61) is false of every map with an entry | read only: the iterator is not modelled |

Read, not modelled: `Write` empties the caller's batch; the level of a node of
`TMSkipList` is undefined when `frand()` returns 0; `deleteMax()` of the red-black tree, which
nothing calls, does not free what it removes; OneFile's `recover()` writes values without
sequence numbers, its log may hold addresses of the volatile `results[]`, and a
helper answers before anybody has written `curTx` back (line 986).

## What TLAPS proves

Each theorem holds for every value of the constants. The argument is the same
everywhere: an inductive invariant says what a thread in the middle of its loop
knows about the slots it has passed or about what it has still to store, each
action keeps it, and the property follows from it.

`StrongTryRWLock_proofs` proves, for every `MaxThreads` > 0 and every `MaxSeq`
(the only assumptions), `[]TypeOK`, `[]MutualExclusion`,
`[]ReaderYieldsOnlyToWriter` and that the lock implements `TryRWLock`. Mutual
exclusion is not inductive: a writer knows of each slot only what it saw when
it visited it. The invariant `IInv` adds

* `Slots`: a read slot is set exactly between arrival and departure;
* `Owners`: WLOCK and RLOCK have one owner, a thread or the hand-over;
* `NoReader`: under WLOCK nobody reads and no slot is marked READING+1;
* `Locals`: a thread's copy of `wstate` is never ahead of it, in the order
  `Rank` that makes `wstate` a counter;
* `Cleared`: while `wstate` is still the HLOCK value the writer is about to CAS,
  a slot it passed is either empty or belongs to a reader that cannot get in
  without changing `wstate`.

Each conjunct has its lemma with one step per action; the CAS to WLOCK
(`TakeCas`) uses `Cleared` to establish `NoReader`, and everything else keeps
what it finds. Refinement follows action by action from `IInv`.

`[]NoCollectiveFailure` (theorem `StrongTry`) says that of attempts that meet on
an unused lock not all fail: this is what makes the lock a *strong* try lock.
`Owned` says that a lock that is taken has somebody to release it, so an unused
lock is free. `NobodyWon` says that as long as nobody has won, `wstate` has made
at most one move, from NOLOCK to HLOCK, so that no recheck and no CAS fails, and
that a shared attempt which made an exclusive one fail is still there to win.

`CRWWPSpinLock_proofs` proves `LockSound`: exclusion, and that the lock
implements `WriterPrefLock`. `IInv` has the owner (`Owned`), the slots (`Slots`)
and that no reader is in at a slot the writer has passed, although readers keep
arriving there (`Passed`): they look at `writers` once more before they get in.

`ThreadRegistry_proofs` proves `RegistrySound`. Ids are unique because a slot is
taken by a CAS; that they stay below `maxTid` needs the value each thread still
has to write (`Locals`). That nobody runs out of them is a counting argument:
`Crowd` says that of the threads that are registered or searching, at most
`REGISTRY_MAX_THREADS - i` are at slot `i` or beyond, because whoever passes a
slot leaves somebody behind in it.

`RedoOpt_proofs` proves four of the properties of RedoOpt and the first part of a
fifth, for any number of threads, replicas to start with, words, transactions and
crashes, any thresholds, and any value of the `ringTicket` the code does not
assign. Its invariant has layers, each inductive given those before.

* `LockInv`: each replica that is not current and not free is claimed by one
  thread (`Claim`), which is where the downgraded lock goes when `curComb` moves:
  the thread that publishes gives up its own replica and takes over the one it
  replaced. `ReplicaLocks` follows, its second half by a pigeonhole argument over
  the replicas besides the current one and the other threads, each of which
  claims or reads at most one.
* `ScanInv`: the index of `getNewComb` stays below its limit, and `makeCopy` has
  seen one commit for each round it lost, so a second loss makes two and it gives
  up (`TwoCopiesSuffice`).
* `KeptInv`: what was published stays as it is. `Commits` says that the replica of
  `curComb` has the content and the head of the last commit and nobody claims it,
  `Durables` that the ring shows durable commits only and that what a crash may
  leave of `curComb` is never newer than the caches, `Uses` what a thread knows of
  the replica it reads or builds on: a reader whose second look at `curComb`
  succeeded has the commit it read there, and under its lock nobody takes the
  replica. Of the heads of replicas that are not current it needs only the
  one a thread has just stored to publish, which is why a wrong `ringTicket` cannot
  disturb it. `CurrentReplicaIntact`
  (`CurrentKept`), `RingImpliesDurable` (`RingDurable`) and `SnapshotHeld`
  (`Snapshots`) follow.

These theorems have no hypothesis. The rest of `ReplicasConsistent` is about the
replicas that are not current, and there it matters what `apply_redologs` stores
to `head` when the replica lacks no log: the code stores a local it has not
assigned (`RedoOpt.hpp:644` above), and the property is false of some values. So
`ReplicasConsistent` as a whole is model-checked, with the harmless value, and not
proved of the code. What is proved is how far the damage goes: a fourth layer,
`DataInv`, gives `ConsistentIfHeadKept`, that `ReplicasConsistent` holds of every
behaviour in which such a store leaves `head` as it is (`HeadKept`). `HeadKept` is
a condition on behaviours which nothing in the code ensures; the theorem says that
with that one line repaired there would be no other obstacle.

In `DataInv`, `FreeContent` and `CurrentIntact` say what is in replicas at rest,
`Good` what is in the replica of a thread at each of its locations: how many redo
logs it has replayed (`Replays`), which words it has copied (`CopiesRight`), that
the replica is the commit the attempt is based on with the new redo log over it and
that the undo log takes it back (`Works`). `History` has `Logged`: a State that
still carries the ticket of a commit has its redo log. This is what makes the
second look at the ticket in `apply_redologs` enough, although the State may be
reused while its log is copied. A step writes to the replica of its thread, to the
thread's own State, whose ticket no commit has yet, and to slots of the ring and of
the requests. `Touch` is what it leaves to others, and `OtherNames`, `OtherDrafts`
and `OtherReplica` are the proof that this is enough for them, once for all
actions. Then `QuietKeeps`, `OwnKeeps` and `SlotKeeps` reduce each action to what
it does to its own thread, and the CAS of `curComb` (`PublishKeeps`) stands alone.

`Romulus_proofs` has what RomulusLog and RomulusLR share: one inductive invariant
`RInv`, one lemma per action of `Romulus`, and the same for a crash at any step
and for `recover()`, which a crash may hit again. From `RInv` follow
`CopiesConsistent`, that the copy `state` names is a whole commit whatever the
caches have written back, and `ClearedAreDone`. Neither is inductive:

* `Phase` says what holds of the copies where the writer is. `back` is the last
  commit, written back, until COPYING is durable, `main` is from then on
  (`PhaseMain`, `PhaseBack`); in between both are. `pstate` may name either
  while `state` is on its way to memory, and then both copies must be good.
* `Logged`, a part of `Phase`: the log names every word in which the copies
  differ, or a store of the running request that has not been made yet will name
  it. This is why copying only the log makes twins.
* `Found` says the same of a heap a crash has left, at each step of `recover()`.
* `Combining` says of each request where the combiner is with it: posted, in its
  local array, run, answered. A request the combiner has not passed in
  `ClearFc` is still in `fc`; one that is gone has its answer, a commit of its
  own that was acknowledged after it was posted.

`RomulusLog_proofs` (`Durable`, `Combined`, `Excluded`) adds the lock and the
readers of `main`, `RomulusLR_proofs` (`Durable`, `Combined`, `Sound`) the toggles
and the two waits of Left-Right between COPYING and the first store to `back`.

`Linearizable`, in both modules, is `Spec => DurableTransactions`: each Romulus PTM
implements `DurableStore`, crashes and `recover()` included. A commit of
`DurableStore` is the step at which a combiner makes its batch visible, and takes
the requests it has collected, in the order of their threads; a read is the step
in which the reader returns. What this needs beyond `RInv` is `Linear`:

* `Ordered`: the requests run so far have made, one after the other, their results
  of the last commit, and `main` is what the last of them made once the stores
  still to come (`Coming`) are done.
* `Undone`: a posted request has no result, unless the combiner has committed it
  and is still to clear it from `fc`: so no request is in two commits.
* `Opened`: a call began no later than the present commit, and a reader's call is
  open while it reads.

`AfterOrder` is the one proof by induction: that the requests up to thread `n` give
the store they should, for each `n`. It is over a set of numbers (`Induction`), so
it needs none of the library's theorems about operators.
`Seen` says that the words a reader has read are what its copy holds. In
`RomulusLog` that copy is the last commit. In `RomulusLR` a reader may still be at
`back` after the commit, and then it answers with the commit before: `Previous` says
that `back` is that commit as long as such a reader is there, and since the reader
began before `leftRight` was turned, that commit was current during its call.

These theorems assume `LogsFit`: that a request of a workload with crashes is
never longer than the log. It is what the run of RomulusLog assumes of its
workload, and without it the theorem is false: after an overflow `replicate`
copies a range `main` was not written back in (`RomulusLog.hpp:249` above).
Overflow without a crash is covered by the theorem.

`Sound` of `RomulusLR_proofs` is `ReaderUndisturbed`, without `LogsFit`, crashes
and recovery included.
After a writer has turned `leftRight`, a reader of the old copy may be announced
in either indicator, since it may have loaded `versionIndex` before an earlier
toggle. `Stale` follows these readers through the writer's two waits: in front of
the scan or in the current version, then in the current version only, then,
toggled, in the other one in front of the second scan, then nowhere. That is why
one wait is not enough.

`HazardPointers_proofs` proves `NoUseAfterFree`, under the assumption that a
store to `enqueuers[]` is visible before the object it replaces is retired: no
store buffers, or `retire()` behind the store to `announce[]` as in `ptms/redo`.
(`ptmdb` is the other case, listed above at `RedoOpt.hpp:1516`.) An object is held by
one owner in one place (`Owned`); so a helper that finds its request published
after protecting it knows that no scan for it has begun, and `NotPassed` keeps
every later scan at or before its slot until the call is over.

Only model-checked, and why:

* `ReplicasConsistent` of RedoOpt beyond `CurrentReplicaIntact`, for the reason
  given above.
* `CrashLeavesCommit` of RedoOpt. The code breaks it in two ways (a replayed log
  and a copy that are not flushed), so it holds of the parameters that keep clear
  of both. Its part about `clsets` folds over a sequence, and what a fold computes
  for every sequence cannot be proved here.
  The half of it that is about answers (what was answered is not newer than any
  `curComb` a crash may leave) holds in all runs and is next in the plan.
* Refinement of `DurableStore` by RedoOpt: `DataInv` says what a commit is, but
  not that a request is taken by one commit only. That is the argument about
  helping, and the code breaks it after a read that was announced and then
  succeeded (`RedoOpt.hpp:1339` above).
* The properties of CX and OneFile, of the objects and of RedoDB: no proof. The
  recursive operators of the tree and of the skip list are outside the prover's
  reach, as is what a recursive definition computes for every input.
* The bound on retired objects.
* Liveness, which is out of the prover's reach.

## Not modelled

* `malloc.cpp`, in eight copies, is Doug Lea's allocator; it is half of the
  lines that look like implementation.
* `Redo` and `RedoTimed` are earlier versions of RedoOpt, and `ptms/redoopt` is
  the same without the timed choice of replicas; CX PUC is CX with whole objects
  in place of words.
* The PMDK wrapper, the support code taken from LevelDB, benchmarks and examples
  have no protocol of their own. `NormalQueue-opt` needs headers the repository
  does not have; `recover()` of `PFriedmanQueue` is a TODO in the code.
* Of what is modelled: creating and mapping files, nested transactions, the
  allocator inside transactions except in RomulusLog, the reclamation of nodes
  in CX and of objects in OneFile, the ordered queries of the tree, which
  nothing instantiates, the iterator of RedoDB, which is never valid
  (`TMHashMapIterator.h:48` above).

## Plan

1. Proofs: of RedoOpt, that answers are durable with their commits (the half of
   `CrashLeavesCommit` named above) and that a request is taken by one commit;
   the replicas of CX (`CXReplicasConsistent`, with the list as the order);
   exclusion and refinement of the ticket lock `CRWWP`; no overlap in `EsLoco`.
2. `Redo` and `RedoTimed` against `DurableStore`: their differences from RedoOpt
   in replaying, flushing and advancing the ring.
3. Reclamation of nodes in CX and of objects in OneFile.
