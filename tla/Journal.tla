------------------------------- MODULE Journal -------------------------------
(***************************************************************************)
(* The journal of the file system BFS (src/add-ons/kernel/file_systems/bfs/ *)
(* Journal.cpp) on top of the block cache: client transactions are batched *)
(* into one transaction of the cache, written to the log, and written back *)
(* by the cache; the log entry is freed once that is done.  The machine    *)
(* may crash at any point; mounting replays the log.                       *)
(*                                                                         *)
(* Whoever holds Journal::fLock is "the client": file system calls, the    *)
(* log flusher and sync.  The cache's thread runs _TransactionWritten().   *)
(* Each device write of one block is a step, and a crash keeps exactly     *)
(* the writes done so far.                                                 *)
(*                                                                         *)
(* Left out: I/O errors, nested client transactions, blocks gotten empty   *)
(* or discarded (BlockCacheClient has them).  A block's contents is the    *)
(* number of the client transaction that has last changed it, of which     *)
(* there are up to MaxStamp.                                               *)
(***************************************************************************)
EXTENDS BlockCache

CONSTANTS
    LogSize,             \* fLogSize
    MaxTransactionSize,  \* fMaxTransactionSize, from which on nothing is batched
    ArrayRuns,           \* how many runs a run_array takes: run_array::MaxRuns() - 1
    Changes,             \* the sets of blocks that client transactions change
    Positions,           \* where in the log the volume may have been left off
    MaxCrashes           \* bound: crashes

ASSUME JournalAssumption ==
    /\ LogSize \in Nat /\ MaxTransactionSize \in Nat /\ ArrayRuns \in Nat \ {0}
    /\ Positions \subseteq 0..LogSize /\ Changes \subseteq SUBSET Blocks
    /\ MaxStamp <= MaxId /\ MaxCrashes \in Nat

VARIABLES
    log,         \* log[p]: the block p of the log area on the disk
    super,       \* log_start and log_end of the superblock on the disk
    superBlock,  \* the same in Volume::fSuperBlock
    logStart,    \* Volume::fLogStart
    logEnd,      \* Volume::fLogEnd
    entries,     \* fEntries, in order
    unwritten,   \* fUnwrittenTransactions # 0
    hasSub,      \* fHasSubtransaction
    id,          \* fTransactionID
    pc,          \* where whoever holds fLock is
    todo,        \* the blocks still to be written to the log, or by the replay
    at,          \* where in the log
    lastStart,   \* where the last array that ReplayLog() has replayed was
    hook,        \* where _TransactionWritten() is
    stamp,       \* the number of the last client transaction
    history,     \* the contents the volume may have after a crash
    crashes,     \* the number of crashes so far
    flaw         \* log_start has passed an entry that is needed: see Exposed

journalVars == <<log, super, superBlock, logStart, logEnd, entries, unwritten,
                 hasSub, id, pc, todo, at, lastStart, hook, stamp, history, crashes, flaw>>

vars == <<cacheVars, journalVars>>

\* Log blocks: a run_array lists the blocks that follow it.
RunArray(runs) == [runs |-> runs, data |-> NoData]
LogData(data) == [runs |-> <<>>, data |-> data]

Init ==
    /\ CacheInit
    /\ log = [p \in 0..LogSize - 1 |-> LogData(NoData)]
    /\ \E p \in Positions : super = [start |-> p, end |-> p]
    /\ superBlock = super
    /\ logStart = super.start /\ logEnd = super.end
    /\ entries = <<>>
    /\ unwritten = FALSE /\ hasSub = FALSE /\ id = NoId
    /\ pc = "free" /\ todo = <<>> /\ at = 0 /\ lastStart = -1
    /\ hook = "none"
    /\ stamp = 0
    /\ history = <<disk>>
    /\ crashes = 0
    /\ flaw = FALSE

-----------------------------------------------------------------------------
(* Sizes and log entries *)

\* Journal::FreeLogBlocks()
FreeLogBlocks ==
    IF logStart <= logEnd THEN LogSize - logEnd + logStart ELSE logStart - logEnd

ArraysFor(count, runs) == (count + runs - 1) \div runs

\* Journal::_TransactionSize(); the static run_array::MaxRuns() is one too many.
Size(count) == count + ArraysFor(count, ArrayRuns + 1)
TransactionSize == Size(transaction[id].num)

\* Whether the transaction is written without its sub transaction, which is detached.
Detaching == TransactionSize > LogSize

\* cache_blocks_in_main_transaction()
MainBlocks == IF transaction[id].hasSub THEN transaction[id].main ELSE transaction[id].num

\* cache_next_block_in_transaction(): the blocks that go to the log.
Logged ==
    {b \in InTransaction(Cache, id) : Detaching => block[b].parent # NoData}

\* RunArrays: the blocks in arrays of up to ArrayRuns, each sorted.
ChangedBlocks == InOrder(Logged, [b \in Logged |-> b])

LogEntryLength == Cardinality(Logged) + ArraysFor(Cardinality(Logged), ArrayRuns)

\* The blocks of the log entry: each array and the current data of its blocks.
LogEntryBlocks ==
    LET array(a) == SubSeq(ChangedBlocks, a * ArrayRuns + 1,
                           Min({(a + 1) * ArrayRuns, Cardinality(Logged)}))
    IN [k \in 1..LogEntryLength |->
            LET a == (k - 1) \div (ArrayRuns + 1)
                j == (k - 1) % (ArrayRuns + 1)
            IN IF j = 0 THEN RunArray(array(a)) ELSE LogData(block[array(a)[j]].current)]

\* Mutant: the end is not wrapped.
EndOfUnwrapped(p, length) == p + length

\* Where an entry ends that starts at p: never at 0, but possibly at LogSize.
EndOf(p, length) == ((p + length - 1) % LogSize) + 1

-----------------------------------------------------------------------------
(* What a mount would make of the disk as it is *)

\* One step of the loop of ReplayLog(): the array at r.at is checked and its blocks are
\* written back.  A block that is no array stops it with an error.
ReplayArray(r) ==
    LET array == log[r.at % LogSize].runs
        logged(j) == log[(r.at + j) % LogSize].data
    IN IF array = <<>> THEN [r EXCEPT !.ok = FALSE]
       ELSE [ok |-> r.at # r.last,
             last |-> r.at,
             at |-> (r.at + 1 + Len(array)) % LogSize,
             disk |-> [b \in Blocks |->
                IF \E j \in 1..Len(array) : array[j] = b
                THEN logged(CHOOSE j \in 1..Len(array) : array[j] = b)
                ELSE r.disk[b]]]

\* The disk after ReplayLog(), from the superblock and the log on the disk; it is not
\* ok if the replay fails or does not end (no log has room for more arrays).
Replayed ==
    LET after[n \in 0..LogSize] ==
            IF n = 0
            THEN [ok |-> TRUE, last |-> -1, at |-> super.start, disk |-> disk]
            ELSE IF after[n - 1].at = super.end \/ ~after[n - 1].ok
                 THEN after[n - 1]
                 ELSE ReplayArray(after[n - 1])
    IN after[LogSize]

Recovers == Replayed.ok /\ Replayed.at = super.end

-----------------------------------------------------------------------------
(* Client transactions *)

Contents == [b \in Blocks |-> IF block[b].cached THEN block[b].current ELSE disk[b]]

logVars == <<log, super, superBlock, logStart, logEnd, entries, todo, at, lastStart, hook, flaw>>

\* Journal::Lock(): the first client transaction of a batch starts a transaction of the
\* cache, the others a sub transaction.
Lock ==
    /\ pc = "free" /\ stamp < MaxStamp
    /\ IF unwritten
       THEN StartSubTransaction(id) /\ hasSub' = TRUE /\ UNCHANGED id
       ELSE StartTransaction /\ id' = nextId /\ UNCHANGED hasSub
    /\ stamp' = stamp + 1
    /\ pc' = "inside"
    /\ UNCHANGED <<logVars, unwritten, history, crashes>>

\* The file system changes one more block.
Write(b) ==
    /\ pc = "inside"
    /\ block[b].current # stamp
    /\ {b} \cup {c \in Blocks : block[c].current = stamp} \in Changes
    /\ GetWritable(b, id, FALSE, stamp)
    /\ UNCHANGED journalVars

\* Journal::Unlock() of a failed transaction, _TransactionDone(false); Transaction also does
\* this when its Done() has failed.
UnlockFailed ==
    /\ pc \in {"inside", "failed"}
    /\ history' = IF pc = "failed" THEN Front(history) ELSE history
    /\ IF hasSub
       THEN AbortSubTransaction(id) /\ UNCHANGED unwritten
       ELSE AbortTransaction(id) /\ unwritten' = FALSE
    /\ pc' = "free"
    /\ UNCHANGED <<logVars, hasSub, id, stamp, crashes>>

\* Journal::Unlock() of a successful one, _TransactionDone(true): a small transaction waits
\* for others (after a sync if the log is short of space), a large one is written.
UnlockDone ==
    /\ pc = "inside" /\ TransactionLock
    /\ history' = Append(history, Contents)
    /\ \/ /\ TransactionSize >= MaxTransactionSize
          /\ pc' = "write"
          /\ UNCHANGED <<cacheVars, unwritten>>
       \/ /\ TransactionSize < MaxTransactionSize
          /\ unwritten' = TRUE
          /\ pc' = "free"
          /\ IF TransactionSize > FreeLogBlocks
             THEN SyncTransaction(id)
             ELSE UNCHANGED cacheVars
    /\ UNCHANGED <<logVars, hasSub, id, stamp, crashes>>

\* Journal::_FlushLog(): the log flusher, after TRANSACTION_IDLE, and sync.
FlushLog ==
    /\ pc = "free" /\ Idle /\ unwritten
    /\ pc' = "flush log"
    /\ UNCHANGED <<cacheVars, logVars, unwritten, hasSub, id, stamp, history, crashes>>

\* The block_cache_sync() of FlushLogAndBlocks().  A bound on the interleavings: it does not
\* start while other blocks are being written, nor with transactions that are unwritten still
\* since writing them has failed or detached them.
FlushBlocks ==
    /\ pc = "free" /\ ~unwritten
    /\ BusyWriting = {} /\ \E b \in Blocks : CanBeWritten(b)
    /\ SyncAll
    /\ UNCHANGED journalVars

-----------------------------------------------------------------------------
(* Journal::_WriteTransactionToLog() *)

\* The transaction fits neither into the log nor without its sub transaction.
TooLarge ==
    /\ pc \in {"write", "flush log"} /\ TransactionLock
    /\ Detaching /\ ~(hasSub /\ MainBlocks < LogSize)
    /\ pc' = IF pc = "write" THEN "failed" ELSE "free"
    /\ UNCHANGED <<cacheVars, logVars, unwritten, hasSub, id, stamp, history, crashes>>

\* The transaction of the cache ends; or its sub transaction is detached and goes on.
Leave(listener) ==
    IF Detaching
    THEN DetachSubTransaction(id, listener) /\ id' = nextId /\ unwritten' = TRUE
    ELSE EndTransaction(id, listener) /\ unwritten' = FALSE /\ UNCHANGED id

\* Nothing has changed; or there is space for the entry; or ended transactions have to be
\* written first to free some.
PrepareEntry ==
    /\ pc \in {"write", "flush log"} /\ TransactionLock
    /\ Detaching => hasSub /\ MainBlocks < LogSize
    /\ hasSub' = FALSE
    /\ \/ /\ Logged = {}
          /\ Leave(FALSE)
          /\ pc' = "free"
          /\ UNCHANGED <<todo, at>>
       \/ /\ Logged # {}
          /\ LogEntryLength <= FreeLogBlocks
          /\ todo' = LogEntryBlocks /\ at' = logEnd % LogSize
          /\ pc' = "log"
          /\ UNCHANGED <<cacheVars, unwritten, id>>
       \/ /\ Logged # {}
          /\ LogEntryLength > FreeLogBlocks
          /\ SyncTransaction(id)
          /\ pc' = "space"
          /\ UNCHANGED <<unwritten, todo, at, id>>
    /\ UNCHANGED <<log, super, superBlock, logStart, logEnd, entries, lastStart, hook, stamp,
                   history, crashes, flaw>>

\* After the sync; without enough space even now the code panics.
HaveSpace ==
    /\ pc = "space" /\ Idle
    /\ LogEntryLength <= FreeLogBlocks
    /\ todo' = LogEntryBlocks /\ at' = logEnd % LogSize
    /\ pc' = "log"
    /\ UNCHANGED <<cacheVars, log, super, superBlock, logStart, logEnd, entries, unwritten,
                   hasSub, id, hook, lastStart, stamp, history, crashes, flaw>>

WriteLogBlock ==
    /\ pc = "log" /\ todo # <<>>
    /\ log' = [log EXCEPT ![at] = Head(todo)]
    /\ todo' = Tail(todo)
    /\ at' = (at + 1) % LogSize
    /\ UNCHANGED <<cacheVars, super, superBlock, logStart, logEnd, entries, unwritten, hasSub,
                   id, pc, hook, lastStart, stamp, history, crashes, flaw>>

\* superBlock.log_end gets the position after the entry.  The flaws: if that is log_start,
\* the log looks empty; and what has been logged of a block is always its current data, that
\* of the sub transaction if that has changed it and is to be detached.
SetEnd ==
    /\ pc = "log" /\ todo = <<>>
    /\ superBlock' = [superBlock EXCEPT !.end = EndOf(logEnd, LogEntryLength)]
    /\ flaw' = (\/ flaw
                \/ superBlock'.end \in {superBlock.start, logStart}
                \/ Detaching /\ \E b \in Logged : block[b].parent # Current)
    /\ pc' = "super"
    /\ UNCHANGED <<cacheVars, log, super, logStart, logEnd, entries, unwritten, hasSub, id,
                   todo, at, hook, lastStart, stamp, history, crashes>>

WriteSuperBlock ==
    /\ pc = "super"
    /\ super' = superBlock
    /\ pc' = "end"
    /\ UNCHANGED <<cacheVars, log, superBlock, logStart, logEnd, entries, unwritten, hasSub,
                   id, todo, at, hook, lastStart, stamp, history, crashes, flaw>>

\* fVolume->LogEnd() follows; the log entry remembers where the last one was.
SetLogEnd ==
    /\ pc = "end"
    /\ logEnd' = superBlock.end
    /\ at' = logEnd
    /\ pc' = "flush"
    /\ UNCHANGED <<cacheVars, log, super, superBlock, logStart, entries, unwritten, hasSub, id,
                   todo, hook, lastStart, stamp, history, crashes, flaw>>

\* B_FLUSH_DRIVE_CACHE: from here on the transaction counts as safe, except for the sub
\* transaction that is being detached.
FlushDrive ==
    /\ pc = "flush"
    /\ history' = SubSeq(history, Len(history) - (IF Detaching THEN 1 ELSE 0), Len(history))
    /\ pc' = "add"
    /\ UNCHANGED <<cacheVars, log, super, superBlock, logStart, logEnd, entries, unwritten,
                   hasSub, id, todo, at, hook, lastStart, stamp, crashes, flaw>>

\* fEntries.Add(), under fEntriesLock
AddEntry ==
    /\ pc = "add"
    /\ entries' = Append(entries, [id |-> id, start |-> at, length |-> LogEntryLength])
    /\ pc' = "ending"
    /\ UNCHANGED <<cacheVars, log, super, superBlock, logStart, logEnd, unwritten, hasSub, id,
                   todo, at, hook, lastStart, stamp, history, crashes, flaw>>

\* With _TransactionWritten() as hook; what is detached may still be too large, which makes
\* Unlock() fail.
EndEntry ==
    /\ pc = "ending"
    /\ Leave(TRUE)
    /\ pc' = IF Detaching /\ Size(transaction[id].sub) > LogSize THEN "failed" ELSE "free"
    /\ UNCHANGED <<logVars, hasSub, stamp, history, crashes>>

-----------------------------------------------------------------------------
(* Journal::_TransactionWritten(), the hook *)

\* Mutant: whichever entry is done takes log_start along.
AnyEntryIsOldest(k) == TRUE

OldestEntry(k) == k = 1

\* Under fEntriesLock: the entry leaves the list; the oldest one takes log_start along.
\* The flaw: LogEnd() may be behind an entry that is not in the list yet.
EntryWritten ==
    LET k == CHOOSE i \in 1..Len(entries) : entries[i].id = notifying
        next == IF Len(entries) > 1 THEN entries[2].start % LogSize ELSE logEnd
    IN /\ notifying # NoId /\ hook = "none"
       /\ entries' = RemoveAt(entries, k)
       /\ IF OldestEntry(k)
          THEN /\ superBlock' = [superBlock EXCEPT !.start = next]
               /\ hook' = "super"
               /\ flaw' = (flaw \/ (Len(entries) = 1 /\ pc \in {"flush", "add"}))
               /\ UNCHANGED cacheVars
          ELSE HookReturns /\ UNCHANGED <<superBlock, hook, flaw>>
       /\ UNCHANGED <<log, super, logStart, logEnd, unwritten, hasSub, id, pc, todo, at, lastStart, stamp,
                      history, crashes>>

\* WriteSuperBlock(), and then LogStart(), which has the log blocks free again.
HookWritesSuper ==
    /\ hook = "super"
    /\ super' = superBlock
    /\ hook' = "start"
    /\ UNCHANGED <<cacheVars, log, superBlock, logStart, logEnd, entries, unwritten, hasSub, id,
                   pc, todo, at, lastStart, stamp, history, crashes, flaw>>

\* Mutant: the log blocks are not free again.
HookForgetsStart ==
    /\ hook = "start"
    /\ hook' = "none"
    /\ HookReturns
    /\ UNCHANGED <<log, super, superBlock, logStart, logEnd, entries, unwritten, hasSub, id, pc,
                   todo, at, lastStart, stamp, history, crashes, flaw>>

HookSetsStart ==
    /\ hook = "start"
    /\ logStart' = superBlock.start
    /\ hook' = "none"
    /\ HookReturns
    /\ UNCHANGED <<log, super, superBlock, logEnd, entries, unwritten, hasSub, id, pc, todo,
                   at, lastStart, stamp, history, crashes, flaw>>

-----------------------------------------------------------------------------
(* Crash and mount *)

\* States in which a crash leaves what a mount cannot repair; the README describes
\* the four ways to get there, each found by TLC.
Exposed == flaw \/ (super.end = LogSize /\ super.start # super.end)

\* The memory is lost; Volume::Mount() reads the superblock.  A flaw is not forgiven: what
\* follows one is not looked at, though later transactions may make up for it.
Crash ==
    /\ crashes < MaxCrashes /\ ~Exposed
    /\ crashes' = crashes + 1
    /\ block' = [b \in Blocks |-> Absent]
    /\ transaction' = [i \in Ids |-> Gone]
    /\ nextId' = 1
    /\ events' = <<>> /\ notifying' = NoId
    /\ toWrite' = [w \in Writers |-> {}] /\ written' = [w \in Writers |-> {}]
    /\ call' = NoCall
    /\ superBlock' = super
    /\ logStart' = super.start /\ logEnd' = super.end
    /\ entries' = <<>> /\ hook' = "none"
    /\ unwritten' = FALSE /\ hasSub' = FALSE /\ id' = NoId
    /\ todo' = <<>> /\ at' = super.start /\ lastStart' = -1
    /\ pc' = "replay"
    /\ UNCHANGED <<disk, log, super, stamp, history, flaw>>

\* ReplayLog(): the array at the position "at"; if it is none, or the same again, the volume
\* is mounted read-only.
ReplayNext ==
    LET array == log[at % LogSize].runs IN
    /\ pc = "replay" /\ todo = <<>> /\ at # logEnd
    /\ IF array = <<>> \/ at = lastStart
       THEN pc' = "readonly" /\ UNCHANGED <<todo, at, lastStart>>
       ELSE /\ todo' = [j \in 1..Len(array) |->
                            <<array[j], log[(at + j) % LogSize].data>>]
            /\ at' = (at + 1 + Len(array)) % LogSize
            /\ lastStart' = at
            /\ UNCHANGED pc
    /\ UNCHANGED <<cacheVars, log, super, superBlock, logStart, logEnd, entries, unwritten,
                   hasSub, id, hook, stamp, history, crashes, flaw>>

ReplayBlock ==
    /\ pc = "replay" /\ todo # <<>>
    /\ disk' = [disk EXCEPT ![Head(todo)[1]] = Head(todo)[2]]
    /\ todo' = Tail(todo)
    /\ UNCHANGED <<block, transaction, nextId, events, notifying, toWrite, written, call,
                   log, super, superBlock, logStart, logEnd, entries, unwritten, hasSub, id,
                   pc, at, hook, lastStart, stamp, history, crashes, flaw>>

\* The log is replayed and empty; what the volume holds now is what it holds.
ReplayEnds ==
    /\ pc = "replay" /\ todo = <<>> /\ at = logEnd
    /\ superBlock' = [superBlock EXCEPT !.start = logEnd]
    /\ logStart' = logEnd
    /\ super' = superBlock'
    /\ history' = <<disk>>
    /\ lastStart' = -1
    /\ pc' = "free"
    /\ UNCHANGED <<cacheVars, log, logEnd, entries, unwritten, hasSub, id, todo, at, hook,
                   stamp, crashes, flaw>>

-----------------------------------------------------------------------------

Client ==
    \/ Lock \/ UnlockFailed \/ UnlockDone \/ FlushLog \/ FlushBlocks
    \/ \E b \in Blocks : Write(b)

Inside ==
    \/ TooLarge \/ PrepareEntry \/ HaveSpace \/ WriteLogBlock \/ SetEnd \/ WriteSuperBlock
    \/ SetLogEnd \/ FlushDrive \/ AddEntry \/ EndEntry
    \/ ReplayNext \/ ReplayBlock \/ ReplayEnds
    \/ (WriteBlock("client") \/ ClientWritten) /\ UNCHANGED journalVars

WriterThread ==
    \/ Background /\ UNCHANGED journalVars
    \/ EntryWritten \/ HookWritesSuper \/ HookSetsStart

Next == Client \/ Inside \/ WriterThread \/ Crash

Spec ==
    /\ Init /\ [][Next]_vars
    /\ WF_vars(Inside) /\ WF_vars(WriterThread)

-----------------------------------------------------------------------------
(* Properties *)

TypeOK ==
    /\ super \in [start : 0..LogSize, end : 0..LogSize]
    /\ superBlock \in [start : 0..LogSize, end : 0..LogSize]
    /\ logStart \in 0..LogSize /\ logEnd \in 0..LogSize
    /\ \A i \in 1..Len(entries) : entries[i].id \in Ids /\ entries[i].length \in 1..LogSize
    /\ at \in 0..LogSize

\* A crash now, followed by a mount, leaves a volume that holds all client transactions up
\* to some point in their order, among them every one that was flushed: none in part,
\* none out of order, none that was aborted.  ReplayLog(): "this will put the disk into a
\* consistent and clean state, if it was not correctly unmounted before".
ReplayMakesConsistent ==
    /\ Recovers
    /\ \E k \in 1..Len(history) : Replayed.disk = history[k]

\* The same, except for the windows that Exposed names.
CrashSafe == ~Exposed => ReplayMakesConsistent

\* After the sync of _WriteTransactionToLog() the whole log is free: all hooks have run, and
\* each has taken log_start along, in whatever order.
SyncFreesLog == pc = "space" /\ Idle => FreeLogBlocks = LogSize

\* Once no more transactions come, the log gets empty (or there is a crash): each entry is
\* freed, as the cache writes all its blocks and calls the hook.
LogDrains == entries # <<>> ~> entries = <<>>

=============================================================================
