# Verification of fusion-os: the kernel's locking primitives, block cache and journal

fusion-os is an operating system of the Haiku family: a C++ kernel
(`src/system/kernel`), drivers, file systems and network stack as kernel add-ons,
a C library, the API kits, servers and applications. This directory holds TLA+
models of two parts everything else stands on.

* The primitives threads wait with: the thread blocking API, mutexes,
  reader/writer locks, condition variables and semaphores. They are small, lock-free
  in places, raced by timers, signals and deletions, and next to untestable: the
  failures need a timer to fire between two instructions of another CPU.
* What keeps the file system BFS consistent over a crash: the block cache with its
  transactions, and the journal on top of it. Here the failures need the machine
  to stop between two writes, with transactions finished in another order
  than they were logged.

All paths below are relative to the root of the repository.

## 1. The system and its parts

| Part | State | Operations | Talks to |
|---|---|---|---|
| Thread blocking API (`headers/private/kernel/thread.h`, `thread.cpp`) | one status word per thread | prepare, block, block with timeout, unblock | scheduler, timers, signals |
| Mutex (`locks/lock.cpp`, `lock.h`) | holder, FIFO of waiters, a spinlock | lock, trylock, timed lock, unlock, transfer, switch, destroy, init | blocking API |
| Reader/writer lock (same files) | count, holder, owner_count, active_readers, pending_readers, queue | read lock (timed), write lock, unlocks, destroy, init | blocking API |
| Recursive lock (same files) | a mutex, holder, recursion | lock, trylock, unlock, transfer | mutex |
| Condition variable (`condition_variable.cpp`, `.h`) | hash table of published variables, list of entries, three kinds of spinlock | publish, unpublish, add, wait, notify one/all | blocking API |
| Semaphores (`sem.cpp`) | slots with count, net_count, queue, id; free list; owner lists | create, delete, acquire, switch, release, set owner, select | blocking API, teams, select |
| User mutexes (`locks/user_mutex.cpp`) | table of futex-like entries | lock, unlock, switch, sem_acquire/release | condition variables |
| Ports (`port.cpp`) | ring of messages, two condition variables, quota | create, close, delete, read, write | condition variables, select |
| Timers (`timer.cpp`) | per-CPU sorted lists, current timer | add, cancel, interrupt | blocking API |
| wait_for_objects / select | select_infos hung onto semaphores, ports, threads | register, notify, wait | the above |
| Threads, teams, signals | life cycle, job control, signal queues | create, exit, kill, wait | everything |
| Scheduler, SMP, interrupts | run queues, inter-CPU messages | reschedule, send | threads |
| VM, slab, heap | areas, caches, page queues | map, fault, write back, allocate | locks |
| Block cache (`cache/block_cache.cpp`) | blocks with up to three versions of their contents, transactions, pending notifications | get (writable, empty), put, discard, sync; start, end, abort, detach of transactions and sub transactions | a writer and notifier thread, condition variables, the disk |
| BFS journal (`add-ons/kernel/file_systems/bfs/Journal.cpp`) | log area, log pointers (on disk, in the superblock in memory, in the volume), list of log entries, current transaction | lock, unlock, flush, write to the log, transaction written, replay | block cache, the disk |
| VFS, other file systems | vnodes, mounts | lookup, mount, write, sync | locks, condition variables, block cache |
| Device manager, I/O scheduler, drivers; network stack | device tree, requests; sockets, buffers | | locks |
| Boot loader; libroot, runtime loader; kits, servers, applications; build system | | | |

`PROJECT.json` lists every part with its status and the reason where it is not
modelled.

How they interact. Every primitive blocks in the same two-step way: under its
own spinlock it links a structure *on the stack of the waiting thread* into a
queue and calls `thread_prepare_to_block()`; then it drops the spinlock and calls
`thread_block()`. Whoever ends the wait (an unlocking thread, the timer, a signal,
a deletion) does a test-and-set on the status word: the first one decides the
result. What is hard follows from that:

* **Timeouts and hand-over.** An unblocker removes the waiter from the queue and
  may give it something (the mutex, units, a read lock) although the wait has
  already failed. The woken thread has to find out with the right lock held.
* **Stack lifetime.** A structure that is still linked, or still in somebody's
  hands, when the wait returns is a dangling pointer.
* **Readers outside the lock.** `rw_lock` readers enter with one `atomic_add()`.
* **Two locks.** `mutex_switch_lock()`, `ConditionVariableEntry::Wait()`,
  `_NotifyLocked()`, `Unpublish()` and `switch_sem_etc()` hold or cross two
  spinlocks.
* **Reuse.** Semaphore slots, variables and mutexes are destroyed and reused with
  threads on the way into or out of them.
* **Counting.** `count`/`net_count` and `count`/`active_readers`/`pending_readers`
  are redundant and must agree, whatever races.

The journal batches client transactions into one transaction of the cache (the
second and later ones as its sub transaction), copies the changed blocks into the
log, moves `log_end` in the superblock, and ends the transaction with
`_TransactionWritten()` as hook. The cache writes the blocks back when it likes,
from three places, with its lock dropped meanwhile; when the last one is
on the disk, its thread calls the hook, which removes the log entry and, if it was the oldest,
moves `log_start`. What is hard there:

* **Versions.** A block may be changed by the sub transaction that runs, by its
  parent, and by an ended transaction that has not been written yet, all at once.
* **Counts.** When a transaction is finished is known only from `num_blocks`,
  which six functions change.
* **Three copies of the log pointers,** moved by two threads at different moments.
* **Crashes** between any two device writes, those of the replay included.

What makes each part correct: mutual exclusion and reader/writer exclusion; no
`panic()` or `ASSERT()` reached by well-behaved clients; no lost wake-up; nothing
used after its owner has returned; units neither lost nor duplicated; FIFO order;
everybody who waits for something that is released returns. For cache and journal: only
committed contents on the disk, aborts that restore, a notification that is neither
early nor forgotten, and a volume that after a crash holds a prefix of the client
transactions with everything that was flushed.

## 2. Modules

| Module | Models | Uses |
|---|---|---|
| `ThreadBlocking` | status words, test-and-set, timer hook | |
| `WaitQueue` | queues of structures on stacks, as sequences of threads | |
| `FifoLock` | abstract: what a mutex promises | |
| `Mutex` | the KDEBUG mutex, all operations | ThreadBlocking, WaitQueue, FifoLock |
| `RWLock` | the reader/writer lock, all operations | ThreadBlocking, WaitQueue |
| `ConditionVariable` | one variable, its entries, the hash table's lock | ThreadBlocking, WaitQueue |
| `Semaphore` | slots, ids, free list, counts, queues | ThreadBlocking, WaitQueue |
| `BlockCache` | cached blocks, transactions, the writers, notifications, the disk | |
| `BlockCacheClient` | the cache under any client that keeps the rules | BlockCache |
| `Journal` | the BFS journal, crashes and mounts, composed with the cache | BlockCache |
| `MutexProofs` | the theorems about `Mutex`, and that it implements `FifoLock` | TLAPS |
| `ConditionVariableProofs`, `RWLockProofs`, `SemaphoreProofs` | the theorems about these | TLAPS |
| `BlockCacheProofs` | lemmas on the cache alone: what each operation leaves of its consistency, whoever calls it | TLAPS |
| `BlockCacheClientProofs` | the theorems about `BlockCacheClient`: versions and counts; contents and the disk | BlockCacheProofs |
| `JournalProofs` | theorems about `Journal`: why a log entry is there; where in the log it is | BlockCacheProofs |
| `JournalCrashProofs` | the theorem that the journal is safe over crashes: what the log and the memory hold | JournalProofs |
| `MC...` | instances for TLC | |

Conventions. An action is a section that runs under one spinlock, or a single
atomic instruction outside of one. Where code holds a spinlock while it takes
another, the lock is a variable (`spin`, `fLock`, `entryLock`, `hashReaders`,
`hashWriter`, `semLock`) and the section is split. `pc[t]` says where in the code
thread t is; a thread that is not in it is `"idle"`. `wait[t]` is
`thread->wait.status`. Structures on stacks are named by their thread. A
`panic()` or a failed `ASSERT()` ends the behaviour; an invariant says that none is
reached. Operators named "Mutant" in a comment are deliberately wrong
variants of the definition below them; no specification uses them. They are what
the properties are tested against.

**ThreadBlocking.** `B_ERROR` stands for whatever code an unblocker passes that
is neither B_OK, B_TIMED_OUT nor B_INTERRUPTED (`B_BAD_SEM_ID`,
`B_ENTRY_NOT_FOUND`). The timer may fire at any time while the thread waits; it
does not fire late, as `thread_block_with_timeout()` cancels it.

**Mutex.** `holder`, `waiters` and `spin` are the fields of `mutex`; `held[t]` is what
the code has told thread t, so that exclusion is about what threads believe and
not about one variable. Clients nest locks along the constant `Before`, and reach
or destroy a mutex that some other mutex guards (`Guards`) only with that one
held, as `lock.h` asks.

**RWLock.** `count` really is readers plus `Base` times writers, so the
arithmetic of the code is checked as it is. `reads[t]`, `writes[t]` are what t was
told. `granted[t]` is `waiter.thread == NULL`.

**ConditionVariable.** `fVariable[t]`, `fWaitStatus[t]` and `entryLock[t]` are the
entry on t's stack, `entry[n]` the entry notifier n has taken off the list.
Clients keep the rules of the header: no notification and no direct `Add()` that
is concurrent with `Unpublish()`, and an added entry is waited for. Lookups by
object may race with `Unpublish()`.

**Semaphore.** Ids are slot and generation; the generation wraps, as ids do
before they get negative. `TakenOff`, `StillWaiting`, `Failed` describe what the two
wake-up loops do in one step; `units` is a history variable, for conservation.
A release has no thread: interrupt handlers release, too.

**BlockCache.** `block[b]` is a `cached_block`: `current`, `original` and `parent` are the
contents its three pointers lead to (`Current` where `parent_data == current_data`),
`transaction` and `previous` its two transactions. `transaction[i]` is a
`cache_transaction` with its three counts. What runs under `block_cache::lock` is
one action. `BlockWriter::Write()` drops that lock: `toWrite[w]` and `written[w]` are the
blocks a writer has marked busy, each block is written in a step of its own, and
`call` remembers which function goes on afterwards (`Finish`). `events` is
`pending_notifications`, `notifying` the hook that runs. Blocks are gotten and put in
one step. The third writer, `"memory"`, is `RemoveUnusedBlocks()`, which writes a dirty block
before it drops it (1583-1588), one block at a time; a thread that has gotten the
block meanwhile and keeps it is not modelled.

`BlockCacheClient` adds history variables: `committed` and `active` stamps, the
contents `base` and `subBase` an abort has to restore, `owed`, what a transaction has
to bring to the disk, and `division`. A detach goes by `original_data`, `parent_data` and two counts,
and these do not always say which transaction has changed a block. Its clients may make every call
that does not panic; `division` is `"doubtful"` once the open sub transaction has made one that
`cache_detach_sub_transaction()` cannot account for (`Misleads`, `MisleadsDiscarded`):

* it gets a block empty that is new to the cache, which has no original data;
* it changes a block again whose earlier contents are not written yet
  (`previous_transaction`), which is counted again;
* it changes a block that the parent has discarded;
* it discards a block, which is taken from `main_num_blocks` whoever has changed it.

`division` is `"wrong"` from the first detach on that is made in doubt. The properties of
the cache hold up to there, the counts that a detach uses as long as it is `"exact"`, and the run
`cache_detach` shows what happens afterwards.

**Journal.** One client at a time, whoever holds `Journal::fLock`; `pc` is where it is in
`_TransactionDone()`, `_WriteTransactionToLog()` or `ReplayLog()`. A step writes one log block,
the superblock, or one block of the volume. `super` is the superblock on the disk,
`superBlock` the one in memory, `logStart` and `logEnd` the copies in `Volume`.
`hook` is where `_TransactionWritten()` is, on the cache's thread. `history` holds the
contents the volume may have after a crash: one per client transaction since the
last flushed one. `Replayed` computes what a mount would make of the disk
as it is; the actions `ReplayNext`, `ReplayBlock`, `ReplayEnds` do the same in steps, so that
it can crash, too.

## 3. Model checking

| Run | Instance | Distinct states | Shows |
|---|---|---|---|
| `mutex` | 3 threads, a guards b, timed locks on one of them, fairness | 11 769 | exclusion, live waiters, no lost wake-up, nobody at a destroyed mutex, atomic switch, FifoLock; every lock returns |
| `rwlock` | 3 threads, nesting 1, timeouts, fairness | 53 528 | exclusion, exact counts, no ASSERT, nobody forgotten; every lock returns |
| `condvar` | 1 waiter, 1 notifier, 1 thread that does both, fairness | 37 679 | nothing used after return or unpublish, no lost notification; notified waiters and Unpublish() return |
| `sem_units` | 3 threads, 1 slot, units {1, 2}, timeouts, fairness | 45 700 | counts agree, units conserved; acquisitions end |
| `sem_switch` | 3 interruptible threads, 2 slots | 645 000 | deletions forget no sleeper, slots accounted for, no satisfiable head sleeps (single units), no deadlock |
| `cache` | 2 blocks, 3 transactions, 3 stamps, up to a wrong division | 834 000 | only committed contents on disk, TRANSACTION_WRITTEN not early, exact counts, ASSERTs, aborts restore |
| `journal` | 4 blocks, log of 5, 3 client transactions, 1 crash, fairness | 456 000 | crash safety outside the four windows, a sync frees the log, every log entry is freed |

State counts are after symmetry reduction where a run uses it (only runs without liveness properties do).

Bounds, and why they are enough. Threads: each race found or excluded here
involves a waiter, an unblocker and at most one or two bystanders (a second
waiter for the order, a third party that barges in); 3 threads give all of
them. `MaxNest = 1` has a writer nest a read lock, and unlock the two in both
orders; deeper nesting and more threads are covered by the proofs only. `Base = 10` exceeds the sum of all readers, as 0x10000 does; what happens
with more than 65535 readers is outside. `MaxCount` bounds the units a release may
pile up, 3 being more than the largest request; `MaxGeneration = 1` makes ids come
round after two uses. `Counts = {1, 2}` has requests of different sizes, which is
what the queue discipline is about.

`cache`: the constraint `NoWrongDivision` stops where `division` is `"wrong"`, as
the properties say nothing about what follows. Two blocks are one that both transactions share and one that they do not;
three ids and stamps give a transaction that is ended and unwritten, one that is
open, and its sub transaction or what is detached from it. `WriteMax = 1` makes the background
writer stop after each block, so that transactions finish in any order. `MaxSub` bounds
`sub_num_blocks`. `journal`: a log of five blocks that starts at position 4 wraps in the
first entry, takes two entries of one block, and is too small for the transaction
of four blocks, so that detaching, `B_BUFFER_OVERFLOW` and the sync for space
all happen; `MaxTransactionSize = 3` has transactions of one block batched and larger ones
written. `ArrayRuns = 2` needs two arrays for three blocks. `Footprints` lists the sets of
blocks client transactions change.

Fairness. A thread inside of the code is weakly fair (`Continue(t)`): the
scheduler runs runnable threads, spinlocks are held for bounded time. Nothing is
assumed about timers, new calls or the order among threads. The clients of locks
are assumed not to keep a lock among themselves for ever: strong fairness of the unlocks
(in `RWLock`, at each level of nesting), as
a thread may lock and unlock other things in between, which disables the action
for a moment. For semaphores, weak fairness of a release of one unit. Condition
variables need no assumption about clients.

In `Journal`, whoever holds the lock goes on (`Inside`), and so does the cache's thread
(`WriterThread`), which wakes up every two seconds at the latest; both weakly
fair. Nothing makes clients come, and nothing makes the log be flushed.

Deadlock is checked in all runs but the ones with timed locks of `Mutex` and `RWLock`:
there, the finding below leads to states that the code does not get out of; and
those of `Journal`, where a volume that nobody uses may rest, and the panic
"no space in log after sync" stops the machine.

### Disagreements found

Each has a run that expects the violation, and an entry under `findings`.

1. `mutex_timeout_race` (lock.cpp:910). A timed lock that fails after
   `_mutex_unlock()` has already made the thread the holder reports the timeout
   and keeps the mutex: nobody can lock it any more. `thread.h:270-273` demands that
   the resource is kept or given back.
2. `rwlock_timeout_race` (lock.cpp:399, 409). `waiter.thread` is looked at without the
   spinlock; if the waiter is dequeued right after, the search for it runs off
   the list. The comment above says that this case is taken care of.
3. `sem_missed_wakeup` (sem.cpp:931). `release_sem_etc()` stops when its units are used up,
   though units that were there before suffice for the next thread in the queue;
   `remove_thread_from_sem()` in the same situation goes on.
4. `journal_replay` (Journal.cpp:884). A log entry that ends with the last block of the log
   leaves `log_end == fLogSize`; `ReplayLog()` reduces its position modulo `fLogSize`,
   never meets that end, and replays old entries over newer contents or fails. The
   comment above it promises "a consistent and clean state".
5. `cache_detach` (block_cache.cpp:3072). A block that a sub transaction gets with
   `block_cache_get_empty()` has no `original_data`. When the sub transaction is detached, the block
   leaves both transactions though it is dirty, and `block_cache_sync()` writes it: uncommitted
   contents are on the disk. The new transaction has `num_blocks = 1` and no block, so it is never reported as
   written. The comments at 3060 and 3460 say that such a block moves to the new
   transaction, and that only completed transactions are written.

The passing runs `mutex` and `rwlock` contain the races 1 and 2 as well; they
check what holds nevertheless. In `RWLock` the search that runs off the list has no
successor. `LockReturns` is about behaviours in which race 1 does not happen.

### Known limits

Further behaviour that TLC shows in these models, for which no run is kept; most are
under `hazards` with their lines.

* `CrashSafe` leaves out four windows, the operator `Exposed`. Take any one of them
  out, and TLC finds a crash after which the volume is inconsistent or an
  acknowledged transaction is lost: `log_end == fLogSize` (finding 4); an entry that
  fills the log exactly, so that it looks empty (Journal.cpp:571, where a comment says that this
  happens with the original BFS only); the hook of the last older entry running
  between `LogEnd() = logPosition` and `fEntries.Add()`, which moves `log_start` past the
  new entry (888); and a detached transaction logged with the current contents
  of blocks that its sub transaction has changed too (839). Crashes are taken in the
  remaining states only, so that the state after a mount is a sound one.
* `_WriteTransactionToLog()` compares the blocks of the main transaction with `fLogSize`
  without those of the run arrays (738) and may panic with "no space in log after sync".
* An empty main transaction whose sub transaction is too large is detached with
  nothing logged (777); the rest can never be written, and later client transactions fail.
* After a detach in doubt (see `division` in section 2) each of `OnlyCommittedOnDisk`, `WrittenMeansOnDisk`,
  `CountsExact`, `AssertsHold`, `AbortRestores` is false, as TLC finds with the condition on `division` taken
  out; `cache_detach` keeps the first. `sub_num_blocks` that is too
  large (block_cache.cpp:2099, 3077) means that TRANSACTION_WRITTEN is never sent; one
  block too few in `main_num_blocks` (3035) that it is sent early.
* The ASSERT for `original_data` in `cache_detach_sub_transaction()` (3042) fails for a block that the
  parent has gotten empty. It is compiled out without KDEBUG, and the code does the right
  thing then; the model goes on there, too, and `AssertsHold` does not include it.
* After finding 1 the thread that has the mutex without knowing runs into the panic about a double lock
  (lock.cpp:754) if it tries again. `HolderChecksHold` is about the other checks of the holder.
* `flaw` stays set once one of the windows of `Exposed` was met: `CrashSafe` says nothing of
  what follows, though later transactions may bring log and disk in order again.
* `switch_sem_etc()` does not release the other semaphore when it need not block
  (sem.cpp:851), and on the interrupted path releases it with the lock of
  the first one held (800): with switches in both directions, TLC reports a
  deadlock of two threads.

## 4. Proofs

TLAPS proves, for any number of threads, mutexes, slots, blocks and transactions, and
any value of the other constants that the assumptions below allow:

* `MutexProofs`: `TypeCorrect`, `Exclusion`, `HolderChecks`, `WaitersLive`,
  `WakeupsNotLost`. The inductive invariant `IInv` joins the type invariant,
  `HolderChecksHold` and `QueuedWaitersLive` with three facts: an operation in
  progress has a mutex (and a switch still has the one it comes from); a queued
  thread's mutex has a holder other than itself; a sleeper is in the queue of its mutex. Exclusion
  alone is not inductive: that the thread woken with B_OK may take itself for the
  holder depends on queues holding only threads that wait for this mutex.
  `DestroyedMutexUnused` and the action property `SwitchAtomic` need more: who has which
  spinlock at which step, which steps come back to a mutex after a failed wait (those
  of timed locks only), and that a thread between the two halves of a switch keeps the
  spinlock of the mutex it goes to.
  `MutexImplementsFifoLock`: the line of the abstract lock is the
  holder followed by the queue. Unlocking is `Pass`, being dequeued in the middle is
  `Quit`, a wait that returns B_OK is `Learn`; blocking steps, timers and the first
  half of a switch stutter.
* `ConditionVariableProofs`: `TypeCorrect`, `NoEntryUsedAfterReturn`,
  `NoVariableUsedAfterUnpublish`,
  `EveryEntryReachable`, `NotificationWakes`, `WaitResultTrue`. The invariant adds where
  a thread can be while its entry points to the variable (`Attached`), who holds
  which lock at which point (`Locks`), and that a variable is taken down by one
  thread that has all entries (`OneUnpublisher`). The core of the argument: a waiter
  that leaves by timeout holds its entry's lock while it takes the variable's, so
  it either finds itself in the list or knows that a notifier has it.
* `RWLockProofs`: `WritersExclude`, `CountExact`, `ActiveExact`, `PendingExist`, `NeverPanics`,
  `NoneForgotten`, all from `LockInOrder`, the inductive `IInv`. The properties depend on each
  other in a circle, so they are proved together: a writer is let in after the readers
  because `active_readers` is exact; that needs `pending_readers` to be exact when the last writer
  has left; that needs queue, `granted` and status words to agree with where every
  thread is; and all of it needs that `count` tells whether there is a writer, because the readers are fewer
  than `Base`. After `rw_lock_destroy()` a weaker part of the invariant, `DeadInv`, holds. It covers
  all interleavings of the `atomic_add()`s outside of the spinlock with the sections under it, and
  the timed read lock, up to the race of finding 2.
* `SemaphoreProofs`: `CountsAgreeAlways`, `UnitsAreConserved`, `SleepersAreQueued`,
  `SlotsAreAccounted`, from `SemaphoresInOrder`, the inductive `IInv`: an entry in a
  queue, the flag `queued`, the status word and the arguments of the thread's call say the same
  (`QueueInv`, `WaitInv`); an id stays that of its semaphore while somebody waits for it, and one
  thread at most frees a slot (`SlotInv`). The two wake-up loops take a prefix off the queue; one lemma on
  such prefixes serves release and removal alike. `HeadNeverSatisfied` has the hypothesis
  `Counts = {1}`: for larger requests `HeadNotSatisfied` is false (finding 3), for single units it
  follows from `OnesInv`.
* `BlockCacheProofs` has no theorem about a specification, but a lemma per operation of the cache
  (`StartInv1`, `WriteInv1`, `DetachInv1`, ...): it keeps `Inv1`, the consistency of the cache, for
  any client. In `Inv1`, `Shape` says which combinations of the
  pointers, flags and transactions of a `cached_block` occur; `Counts` that the counts of a
  transaction are the cardinalities of its sets of blocks; `CallOK`, `WritersOK`, `SyncOK` what the calls
  that drop the cache's lock rely on when they have it again. `CountsExact` alone is not inductive: whether a
  step has to change a count depends on `original_data` and `parent_data`.
* `BlockCacheClientProofs`: `TypeCorrect`, `CountsAreExact`, `AssertionsHold`, from `CacheConsistent`, which is
  `Inv1`, what the client's stamps need (`ActiveOK`), and `DividedOK`: while `division` is `"exact"`, `sub_num_blocks` and
  `main_num_blocks` count the blocks that a detach would give to each side, and no block
  that the sub transaction has changed lacks the data by which the detach tells; each call either keeps this or
  is one of those that `Misleads` names. Then `DiskCommitted`, `WrittenIsOnDisk`, and the action property
  `AbortsRestore`, from `HistoriesKept`. Its `Inv2` gives for each block which transaction's
  stamps each of its versions and the disk may hold (`VersionsOf`), where the contents that a
  transaction owes to the disk still are (`OwedOf`), and that undoing yields `base` and
  `subBase` (`RestoresOf`). `WrittenBack` covers the blocks that a writer has written and not marked yet.
  All of it has the condition `division # "wrong"`: nothing restricts the calls, but nothing is said
  of what follows the first detach in doubt. The client in `Journal` makes none of the calls
  in question (see section 5), so its proofs do without.
* `JournalProofs`: `JournalTypeCorrect`, `SyncFreesLogHolds`. The inductive invariant `JInv1` has two
  parts. `Base` holds always. It adds to the cache's `Inv1` what the cache and the
  journal know of each other: which steps of the code run with which transaction open
  (`Control`); that every transaction with a hook has exactly one log entry (`Tracked`); that
  every log entry has a reason to be there (`Reasons`): a block that still names its
  transaction as `previous_transaction`, a pending notification, a running hook, or a commit
  that is about to give one of these; and that without entries the pointers have caught up
  (`SpaceOK`). `SyncFreesLogHolds` is then: a finished sync leaves no reason. The second
  part is about the circular log and holds as long as `flaw` is FALSE, that is outside the
  windows of section 3. It says that all arrays ever written can be numbered: there is a
  `g` with the contents and the unreduced position of each, such that every pointer (`LogStart()`,
  `LogEnd()`, both superblocks, the start of each entry, the place where a replay is) is
  congruent to the position of an array (`Places`, `Spans`), that what is between the oldest of
  them and the newest fits into the log (`Laid`) and is still there unchanged (`Stored`). `g` is
  quantified, not a history variable, so the model needs no additions; each action that
  moves a pointer names its new `g`.
* `JournalCrashProofs`: `CrashSafeHolds`, for any number of crashes, those in a replay included. `JInv2` adds two parts
  to `JInv1`. `Known` is about the memory: which of the contents in `history` the cache
  holds for each block, as the client sees it, without the running sub transaction, and without the running
  transaction; and that what `BlockWriter` may write of a block is the last of these. `Complete(g)` is about the
  log, with the numbering `g` of its arrays from `JInv1`: for each block, what is not on the disk is in
  an array between `log_start` and `log_end`, and the last array with that block has the last contents that were
  flushed. A log entry may leave the log only when its transaction has no block left to write
  (`Reasons`), and that is what makes `Complete` survive the hook. `ReplayLoop` then goes along the numbered
  arrays: `after[n]` in `Replayed` is the disk with the first n arrays written over it, because there is no
  least n for which it is not; at the end this is a member of `history`. That the recursive
  definition of `after` denotes a function is proved in the same way.
* Small lemmas on queues, smallest and largest elements and cardinalities are at the beginning of the module
  that uses them.

Sums over threads or queue entries (`ReadLocks` in `RWLock`, `UnitsOf` in `Semaphore`) are stated as the
cardinality of a set of pairs instead of a fold: a fold is a recursion over the set, about which the
proof system cannot reason; a cardinality changes by one with each pair.

Assumptions on constants, all named and evaluated by TLC in every run:

* `MutexAssumption`, `ConditionVariableAssumption`: the subsets are subsets, the markers "nobody" and "destroyed" are
  not threads.
* `GuardedNotTimed`: a mutex that can go away while somebody waits for it is not locked with a timeout. A timed lock
  that fails takes the spinlock of the mutex again after its wait (lock.cpp:910), so a client
  that did this would use a destroyed mutex. Only `DestroyedMutexUnused` needs it.
* `RWLockAssumption`: finitely many threads, so few that the readers together with the nesting of one
  thread stay below `Base`. With more readers than 0xffff the `count` of the code counts a
  reader as a writer.
* `SemaphoreAssumption`: finitely many threads and slots; requests and releases of at least one unit, as
  `switch_sem_etc()` and `release_sem_etc()` reject others.
* `BlockCacheAssumption`, `ClientAssumption`: finitely many blocks, which are numbers, and natural bounds.
* `JournalAssumption`: natural sizes, arrays of at least one run, a volume left off inside its log.

Each inductive invariant was checked by TLC on small instances before it was proved.
The bounds of the models (`MaxCount`, `MaxGeneration`, `MaxId`, `MaxStamp`, `MaxSub`, `MaxNest`, `WriteMax`) are constants
of the theorems, too: they hold for any value, not only for the ones of section 3.

Only model-checked:

* All liveness (`LockReturns`, `LocksReturn`, `NotifiedReturns`,
  `UnpublishReturns`, `AcquireReturns`, `LogDrains`): fairness and ENABLED are out of reach of the
  proof system.

Nothing is claimed of the cache after a wrong division, nor of the journal after `flaw`.

## 5. Not modelled

* The build without KDEBUG of the mutex (`count`, `MUTEX_FLAG_RELEASED`,
  `ignore_unlock_count`), `mutex_switch_from_read_lock()`, recursive locks, and
  `KDEBUG_RW_LOCK_DEBUG`.
* The pointers of the queues: `next` and `last` are abstracted to a sequence.
* Memory of destroyed locks: a waiter of a destroyed `rw_lock` takes its spinlock once
  more (lock.cpp:175), and `rw_lock_unblock()` writes to a waiter after waking it
  (lock.cpp:221).
* Block cache: blocks changed without a transaction, I/O errors and lack of memory, prefetching,
  `busy_reading`, several caches, TRANSACTION_ENDED and TRANSACTION_ABORTED listeners.
* Journal: clients that change a block more than once in a transaction, get it empty or discard
  it, which file systems do and `BlockCacheClient` has; with these, what section 3 says of detaches in
  doubt is the journal's problem, too. A `block_cache_sync()` (`FlushBlocks`) while other blocks are being written or
  after writing the log entry has failed; TLC has been through these as well, without a difference, but
  the run would take too long. Nested client transactions and their listeners, I/O errors, overlapping
  writes of the superblock, drives that reorder writes before they are flushed,
  blocks freed and reused as file data (which is not logged).
* Semaphores created with a negative count, which `create_sem_etc()` does not reject.
* Semaphore owners and their lists, permissions, `select_sem()`, `last_acquirer`.
* Weak memory: the instructions outside of spinlocks are `atomic_*` operations of the
  kernel, taken as sequentially consistent.
* `panic()` continuing from the kernel debugger, interrupts disabled by callers, calls
  during kernel startup.
* All other components of section 1.

Hazards seen while reading that lie in what is left out, beyond the list in `PROJECT.json`:

* lock.cpp:934: without KDEBUG a waiter that times out repairs `mutex::count` and may raise
  `ignore_unlock_count`, a sixteen bit counter.
* condition_variable.cpp:347: `NotifyOne()` may spend its notification on a waiter that
  returns B_TIMED_OUT; 291: the static notifications drop the hash table's lock before
  they use the variable, and leave its lifetime to the caller.
* sem.cpp:837: `last_acquirer` is written into a slot that may have been reused; 657:
  `sem_delete_owned_sems()` against creations for a dying team.
* block_cache.cpp:1218: after a write error the busy counts change without the lock; 1587:
  `RemoveUnusedBlocks()` drops the lock inside its iteration and then removes the block, though somebody may
  have gotten it in between; 2909: a transaction whose
  blocks were all discarded is never reported as written.
* Volume.cpp:559: two unsynchronised writers of the superblock; Journal.cpp:894: the superblock is
  written before the drive's cache is flushed; 886: after a failed superblock write
  `~Transaction()` aborts a transaction that has ended.

## 6. Plan

In this order:

1. An abstract counting semaphore that `Semaphore` implements for single units.
2. `FastMutex`: the mutex of the build without KDEBUG. Actions: the
   `atomic_add()` and the section under the spinlock, separately, with timeouts,
   `ignore_unlock_count` and `MUTEX_FLAG_RELEASED`. It should implement `FifoLock` up to
   barging. Theorem: exclusion.
3. `RecursiveLock` over `FifoLock`, and `mutex_switch_from_read_lock()` as a composition
   of `RWLock` and `Mutex`.
4. `SemaphoreOwners`: create, set owner and delete against the death of the owning team;
   `select_sem()` and its notifications.
5. `TimedBlock`: `thread_block_with_timeout()` with `timer.cpp` underneath (add, cancel,
   a hook running on another CPU), implementing what `ThreadBlocking` assumes.
6. `UserMutex` and `Port`, as clients of condition variables: close and delete against
   readers and writers, message quota, no lost message.
7. `Journal` with I/O errors, and an abstract atomic volume that it implements.
