----------------------------- MODULE BlockCache -----------------------------
(***************************************************************************)
(* The block cache with transactions (src/system/kernel/cache/             *)
(* block_cache.cpp): cached blocks, the open transaction and its sub       *)
(* transaction, ended transactions whose blocks still have to be written,  *)
(* the thread that writes blocks and delivers notifications, and the disk. *)
(*                                                                         *)
(* Three threads are in the code: the client, which is whoever holds the   *)
(* journal's lock, block_notifier_and_writer(), and whoever frees blocks   *)
(* when memory is low.  What runs under block_cache::lock is one action;   *)
(* BlockWriter::Write() lets the lock go while it writes, so it is a step  *)
(* per block and one for what follows.                                     *)
(* The contents of a block is a number; NoData is a NULL pointer and       *)
(* Current a parent_data that still points to current_data.  Blocks are    *)
(* gotten and put again in one step (ref_count is 0 in between).           *)
(*                                                                         *)
(* Left out: blocks changed without a transaction, I/O errors, no memory.  *)
(***************************************************************************)
EXTENDS Integers, Sequences, FiniteSets, FiniteSetsExt, SequencesExt

CONSTANTS
    Blocks,      \* the block numbers
    MaxId,       \* bound: transactions started
    MaxStamp,    \* bound: what blocks hold are numbers up to this one
    WriteMax     \* how many blocks the background writer takes at once (64)

ASSUME BlockCacheAssumption ==
    /\ Blocks \subseteq Nat /\ IsFiniteSet(Blocks)
    /\ MaxId \in Nat /\ MaxStamp \in Nat /\ WriteMax \in Nat \ {0}

VARIABLES
    block,       \* block[b]: cached_block of b
    transaction, \* transaction[i]: cache_transaction of id i
    nextId,      \* next_transaction_id
    events,      \* pending_notifications: ids of written transactions, Sync
    notifying,   \* the id whose TRANSACTION_WRITTEN hook runs, or NoId
    toWrite,     \* toWrite[w]: what writer w has marked and still has to write
    written,     \* written[w]: what w has written and not marked clean yet
    call,        \* the call of the client that is in progress
    disk         \* disk[b]: what a read of the device returns

cacheVars == <<block, transaction, nextId, events, notifying, toWrite, written,
               call, disk>>

NoId == 0
NoData == -1
Current == -2
Sync == 0
Ids == 1..MaxId
Writers == {"client", "background", "memory"}

\* A cached_block as NewBlock() initialises it, and no block at all.
NewBlock(data) ==
    [cached |-> TRUE, current |-> data, original |-> NoData, parent |-> NoData,
     transaction |-> NoId, previous |-> NoId, dirty |-> FALSE,
     discard |-> FALSE, unused |-> FALSE]

Absent == [NewBlock(NoData) EXCEPT !.cached = FALSE]

Gone == [state |-> "gone", num |-> 0, main |-> 0, sub |-> 0, hasSub |-> FALSE,
         hook |-> FALSE]

NoCall == [op |-> "none", arg |-> NoId, hook |-> FALSE]

CacheInit ==
    /\ block = [b \in Blocks |-> Absent]
    /\ transaction = [i \in Ids |-> Gone]
    /\ nextId = 1
    /\ events = <<>>
    /\ notifying = NoId
    /\ toWrite = [w \in Writers |-> {}]
    /\ written = [w \in Writers |-> {}]
    /\ call = NoCall
    /\ disk = [b \in Blocks |-> 0]

-----------------------------------------------------------------------------
(* Operators on states of the cache: records of blocks, transactions and   *)
(* pending notifications                                                   *)

Cache == [block |-> block, transaction |-> transaction, events |-> events]

Becomes(c) ==
    /\ block' = c.block
    /\ transaction' = c.transaction
    /\ events' = c.events

InTransaction(c, i) == {b \in Blocks : c.block[b].transaction = i}
InPrevious(c, i) == {b \in Blocks : c.block[b].previous = i}
Discarded(c, i) == {b \in InTransaction(c, i) : c.block[b].discard}

Busy(w) == toWrite[w] \cup written[w]
BusyWriting == Busy("client") \cup Busy("background") \cup Busy("memory")

\* Mutant: a block that is being written is taken again.
CanBeWrittenTwice(b) ==
    \/ block[b].previous # NoId
    \/ block[b].transaction = NoId /\ block[b].dirty

CanBeWritten(b) ==
    /\ b \notin BusyWriting
    /\ \/ block[b].previous # NoId
       \/ block[b].transaction = NoId /\ block[b].dirty

\* BlockWriter::_Data(): the oldest change that has not been written yet.
WritesOriginal(r) == r.previous # NoId /\ r.original # NoData

\* Mutant: what is in the cache now is written.
DataIsCurrent(r) == r.current

Data(r) == IF WritesOriginal(r) THEN r.original ELSE r.current

\* BlockWriter::_BlockDone() for one block.
Done(r) ==
    [r EXCEPT !.dirty = @ /\ WritesOriginal(r),
              !.previous = NoId,
              !.original = IF r.previous # NoId /\ r.transaction = NoId
                           THEN NoData ELSE @,
              !.unused = @ \/ r.transaction = NoId]

\* Mutants: a transaction is taken for written one block too early; nobody is notified.
BlocksDoneEarly(c, S) ==
    LET done(i) == InPrevious(c, i) \cap S
        finished == {i \in Ids : /\ done(i) # {}
                                 /\ c.transaction[i].num <= Cardinality(done(i)) + 1}
    IN [block |-> [b \in Blocks |-> IF b \in S THEN Done(c.block[b]) ELSE c.block[b]],
        transaction |-> [i \in Ids |-> IF i \in finished THEN Gone ELSE c.transaction[i]],
        events |-> c.events \o SetToSeq(finished)]

BlocksDoneSilent(c, S) ==
    LET done(i) == InPrevious(c, i) \cap S
    IN [block |-> [b \in Blocks |-> IF b \in S THEN Done(c.block[b]) ELSE c.block[b]],
        transaction |-> [i \in Ids |->
            IF done(i) # {} /\ c.transaction[i].num <= Cardinality(done(i)) THEN Gone
            ELSE [c.transaction[i] EXCEPT !.num = @ - Cardinality(done(i))]],
        events |-> c.events]

\* The elements of S in the order of their keys, which are different numbers.
InOrder(S, key) ==
    [k \in 1..Cardinality(S) |->
        CHOOSE i \in S : Cardinality({j \in S : key[j] <= key[i]}) = k]

\* _BlockDone() for all blocks in S, in their order on the disk: a transaction whose
\* last block this was is deleted, and its TRANSACTION_WRITTEN listener notified.
BlocksDone(c, S) ==
    LET done(i) == InPrevious(c, i) \cap S
        finished == {i \in Ids : /\ c.transaction[i].num > 0
                                 /\ c.transaction[i].num <= Cardinality(done(i))}
        hooked == {i \in finished : c.transaction[i].hook}
    IN [block |-> [b \in Blocks |-> IF b \in S THEN Done(c.block[b]) ELSE c.block[b]],
        transaction |-> [i \in Ids |->
            IF i \in finished THEN Gone
            ELSE [c.transaction[i] EXCEPT !.num = @ - Cardinality(done(i))]],
        events |-> c.events \o InOrder(hooked, [i \in hooked |-> Max(done(i))])]

\* What cache_end_transaction() does once no block of i waits for an earlier transaction.
Ended(c, i, hook) ==
    [block |-> [b \in Blocks |->
        IF b \in Discarded(c, i) THEN Absent
        ELSE IF b \in InTransaction(c, i)
        THEN [c.block[b] EXCEPT !.original = NoData, !.parent = NoData,
                                !.previous = i, !.transaction = NoId]
        ELSE c.block[b]],
     transaction |-> [c.transaction EXCEPT
        ![i] = [@ EXCEPT !.state = "closed", !.hook = hook,
                         !.num = c.transaction[i].num - Cardinality(Discarded(c, i))]],
     events |-> c.events]

\* Mutant: parent_data becomes original_data even if it is the same memory as current_data.
DetachedAliased(r, i, j) ==
    LET kept == IF r.parent # NoData THEN r.parent ELSE r.original
    IN IF r.discard THEN Absent
       ELSE [r EXCEPT !.original = kept, !.parent = NoData,
                      !.previous = IF r.parent # NoData THEN i ELSE @,
                      !.transaction = IF kept # NoData THEN j ELSE NoId]

\* What cache_detach_sub_transaction() does with one block of the transaction: what the
\* parent has changed waits to be written, what the sub transaction has changed moves
\* to the new transaction j.
Detached(r, i, j) ==
    LET parented == r.parent # NoData
        kept == CASE ~parented -> r.original
                  [] r.parent = Current -> NoData
                  [] OTHER -> r.parent
    IN IF r.discard THEN Absent
       ELSE [r EXCEPT !.original = kept,
                      !.parent = NoData,
                      !.previous = IF parented THEN i ELSE @,
                      !.transaction = IF kept # NoData THEN j ELSE NoId]

DetachedSub(c, i, j, hook) ==
    [block |-> [b \in Blocks |-> IF b \in InTransaction(c, i)
                                 THEN Detached(c.block[b], i, j) ELSE c.block[b]],
     transaction |-> [c.transaction EXCEPT
        ![i] = [@ EXCEPT !.state = "closed", !.hook = hook, !.hasSub = FALSE, !.sub = 0,
                         !.num = c.transaction[i].main - Cardinality(Discarded(c, i))],
        ![j] = [Gone EXCEPT !.state = "open", !.num = c.transaction[i].sub]],
     events |-> c.events]

\* What block_cache_discard() does once an earlier change of b has been written.
Discard(c, b) ==
    [c EXCEPT !.block[b] = CASE ~@.cached -> @
                             [] @.unused  -> Absent
                             [] OTHER     -> [@ EXCEPT !.discard = TRUE]]

-----------------------------------------------------------------------------
(* The operations of the client *)

Idle == call = NoCall

\* TransactionLocker: waits until no block is being written.
TransactionLock == Idle /\ BusyWriting = {}

Open(i) == transaction[i].state = "open"

\* cache_start_transaction()
StartTransaction ==
    /\ TransactionLock
    /\ nextId \in Ids /\ \A i \in Ids : ~Open(i)
    /\ transaction' = [transaction EXCEPT ![nextId] = [Gone EXCEPT !.state = "open"]]
    /\ nextId' = nextId + 1
    /\ UNCHANGED <<block, events, notifying, toWrite, written, call, disk>>

\* cache_start_sub_transaction(): an older sub transaction becomes part of its parent.
StartSubTransaction(i) ==
    /\ TransactionLock /\ Open(i)
    /\ block' = [b \in Blocks |->
            CASE b \in Discarded(Cache, i) ->
                    [block[b] EXCEPT !.parent = NoData, !.original = NoData,
                        !.current = IF block[b].original # NoData
                                    THEN block[b].original ELSE @]
              [] b \in InTransaction(Cache, i) \ Discarded(Cache, i) ->
                    [block[b] EXCEPT !.parent = Current]
              [] OTHER -> block[b]]
    /\ transaction' = [transaction EXCEPT ![i].hasSub = TRUE, ![i].sub = 0,
                                          ![i].main = transaction[i].num]
    /\ UNCHANGED <<nextId, events, notifying, toWrite, written, call, disk>>

\* The block as get_writable_cached_block() finds it, or reads it from the disk; with
\* "cleared" (block_cache_get_empty()) a new block is not read.
Found(b, cleared) ==
    IF block[b].cached THEN block[b] ELSE NewBlock(IF cleared THEN NoData ELSE disk[b])

\* Mutant: only the original data are kept.
CopiedOnce(r, isNew) ==
    [r EXCEPT !.original = IF r.original = NoData /\ ~isNew THEN r.current ELSE @]

\* What a block holds is copied before the first change of a transaction, and before that
\* of its sub transaction.
Copied(r, isNew) ==
    [r EXCEPT !.original = IF r.original = NoData /\ ~isNew THEN r.current ELSE @,
              !.parent = IF r.parent = Current THEN r.current ELSE @]

\* get_writable_cached_block(), and the client's change of the data it returns: the block
\* joins the transaction, and what it held is kept for an abort.
GetWritable(b, i, cleared, data) ==
    LET r == Found(b, cleared)
        isNew == cleared /\ ~block[b].cached
        joins == r.transaction = NoId
        wasUnchanged == r.original = NoData \/ r.previous # NoId
        forParent == r.parent = Current
        forSub == transaction[i].hasSub /\ r.parent = NoData /\ wasUnchanged
    IN /\ Idle /\ Open(i)
       /\ b \notin BusyWriting
       /\ r.transaction \in {NoId, i}
       /\ block' = [block EXCEPT ![b] =
            [Copied(r, isNew) EXCEPT !.transaction = i, !.current = data,
                                     !.dirty = TRUE, !.discard = FALSE, !.unused = FALSE]]
       /\ transaction' = [transaction EXCEPT
            ![i].num = IF joins THEN @ + 1 ELSE @,
            ![i].sub = IF forParent \/ forSub THEN @ + 1 ELSE @]
       /\ UNCHANGED <<nextId, events, notifying, toWrite, written, call, disk>>

\* cache_abort_transaction()
AbortTransaction(i) ==
    /\ TransactionLock /\ Open(i)
    /\ block' = [b \in Blocks |->
            IF b \in InTransaction(Cache, i)
            THEN [block[b] EXCEPT
                    !.current = IF block[b].original # NoData
                                THEN block[b].original ELSE @,
                    !.original = NoData, !.parent = NoData, !.transaction = NoId,
                    !.discard = FALSE,
                    !.dirty = @ /\ block[b].previous # NoId]
            ELSE block[b]]
    /\ transaction' = [transaction EXCEPT ![i] = Gone]
    /\ UNCHANGED <<nextId, events, notifying, toWrite, written, call, disk>>

\* cache_abort_sub_transaction(): what only the sub transaction has changed leaves the
\* transaction, the rest gets the parent's contents back.
AbortSubTransaction(i) ==
    LET leaving == {b \in InTransaction(Cache, i) : block[b].parent = NoData}
        left(r) == [r EXCEPT !.current = IF r.original # NoData THEN r.original ELSE @,
                             !.transaction = NoId, !.discard = FALSE,
                             !.original = IF r.previous = NoId THEN NoData ELSE @,
                             !.dirty = @ /\ r.previous # NoId,
                             !.unused = @ \/ r.previous = NoId]
        restored(r) == [r EXCEPT !.current = IF r.parent # Current THEN r.parent ELSE @,
                                 !.parent = NoData, !.discard = FALSE]
    IN /\ TransactionLock /\ Open(i) /\ transaction[i].hasSub
       /\ block' = [b \in Blocks |->
            CASE b \in leaving -> left(block[b])
              [] b \in InTransaction(Cache, i) \ leaving -> restored(block[b])
              [] OTHER -> block[b]]
       /\ transaction' = [transaction EXCEPT
            ![i].num = @ - Cardinality(leaving), ![i].hasSub = FALSE, ![i].sub = 0]
       /\ UNCHANGED <<nextId, events, notifying, toWrite, written, call, disk>>

\* What follows the BlockWriter::Write() of a call, under the cache's lock again; a
\* sync then waits for the notifications that are pending (wait_for_notifications()).
Finish(c, op, arg, hook) ==
    CASE op = "end" ->
            /\ Becomes(Ended(c, arg, hook))
            /\ call' = NoCall /\ UNCHANGED nextId
      [] op = "detach" ->
            /\ Becomes(DetachedSub(c, arg, nextId, hook))
            /\ nextId' = nextId + 1
            /\ call' = NoCall
      [] op = "discard" ->
            /\ Becomes(Discard(c, arg))
            /\ call' = NoCall /\ UNCHANGED nextId
      [] op = "sync" ->
            /\ Becomes([c EXCEPT !.events = Append(@, Sync)])
            /\ call' = [NoCall EXCEPT !.op = "wait"] /\ UNCHANGED nextId

\* A call that writes the blocks S first; without blocks the lock is never let go.
Call(op, arg, hook, S) ==
    /\ IF S = {}
       THEN Finish(Cache, op, arg, hook) /\ UNCHANGED <<toWrite, written>>
       ELSE /\ toWrite' = [toWrite EXCEPT !["client"] = S]
            /\ call' = [op |-> op, arg |-> arg, hook |-> hook]
            /\ UNCHANGED <<block, transaction, nextId, events, written>>
    /\ UNCHANGED <<notifying, disk>>

\* Mutant: blocks that wait for an earlier transaction are not written first.
InBothNone(i) == {}

\* write_blocks_in_previous_transaction()
InBoth(i) == {b \in InTransaction(Cache, i) : block[b].previous # NoId}

\* cache_end_transaction(); hook: with a listener for TRANSACTION_WRITTEN
EndTransaction(i, hook) ==
    /\ TransactionLock /\ Open(i)
    /\ Call("end", i, hook, InBoth(i))

\* cache_detach_sub_transaction()
DetachSubTransaction(i, hook) ==
    /\ TransactionLock /\ Open(i) /\ transaction[i].hasSub /\ nextId \in Ids
    /\ Call("detach", i, hook, InBoth(i))

\* block_cache_discard() of one block; the last change of a discarded block must not have
\* been made in the sub transaction that is running (panic).
CacheDiscard(b) ==
    /\ TransactionLock
    /\ block[b].transaction = NoId \/ block[b].parent \in {NoData, Current}
    /\ Call("discard", b, FALSE, {x \in {b} : block[x].previous # NoId})

\* cache_sync_transaction(): writes what ended transactions up to i have left.  No
\* transaction is busy, TransactionLocker has waited for that, so the loop ends at once.
SyncTransaction(i) ==
    /\ TransactionLock
    /\ Call("sync", i, FALSE,
            UNION {InPrevious(Cache, j) : j \in {k \in 1..i : transaction[k].state = "closed"}})

\* block_cache_sync()
SyncAll ==
    /\ Idle
    /\ Call("sync", NoId, FALSE, {b \in Blocks : CanBeWritten(b)})

-----------------------------------------------------------------------------
(* The writers *)

\* BlockWriter::_WriteBlock(), in the order of the block numbers.
WriteBlock(w) ==
    /\ toWrite[w] # {}
    /\ LET b == Min(toWrite[w]) IN
        /\ disk' = [disk EXCEPT ![b] = Data(block[b])]
        /\ toWrite' = [toWrite EXCEPT ![w] = @ \ {b}]
        /\ written' = [written EXCEPT ![w] = @ \cup {b}]
    /\ UNCHANGED <<block, transaction, nextId, events, notifying, call>>

WriteEnds(w) ==
    /\ toWrite[w] = {} /\ written[w] # {}
    /\ written' = [written EXCEPT ![w] = {}]
    /\ UNCHANGED <<notifying, toWrite, disk>>

\* The client's writer is done, and the call goes on.
ClientWritten ==
    /\ WriteEnds("client")
    /\ Finish(BlocksDone(Cache, written["client"]), call.op, call.arg, call.hook)

\* block_notifier_and_writer(): takes blocks of ended transactions that nobody writes.
BackgroundTakes ==
    LET ready == {b \in Blocks : /\ CanBeWritten(b) /\ block[b].previous # NoId
                                 /\ InPrevious(Cache, block[b].previous) \cap BusyWriting = {}}
    IN /\ Busy("background") = {} /\ notifying = NoId
       /\ ready # {}
       /\ \E S \in SUBSET ready :
            /\ Cardinality(S) = Min({WriteMax, Cardinality(ready)})
            /\ toWrite' = [toWrite EXCEPT !["background"] = S]
       /\ UNCHANGED <<block, transaction, nextId, events, notifying, written, call, disk>>

BackgroundWritten ==
    /\ WriteEnds("background")
    /\ Becomes(BlocksDone(Cache, written["background"]))
    /\ UNCHANGED <<nextId, call>>

\* flush_pending_notifications(): the hook of a written transaction starts, or the client
\* that waits in wait_for_notifications() goes on.
TakeEvent ==
    /\ events # <<>> /\ notifying = NoId /\ Busy("background") = {}
    /\ events' = Tail(events)
    /\ IF Head(events) = Sync
       THEN call' = NoCall /\ UNCHANGED notifying
       ELSE notifying' = Head(events) /\ UNCHANGED call
    /\ UNCHANGED <<block, transaction, nextId, toWrite, written, disk>>

\* The hook returns.
HookReturns ==
    /\ notifying # NoId
    /\ notifying' = NoId
    /\ UNCHANGED <<block, transaction, nextId, events, toWrite, written, call, disk>>

\* block_cache_get() and block_cache_put() by some reader.
Read(b) ==
    /\ LET r == Found(b, FALSE)
           put == r.transaction = NoId /\ r.previous = NoId
       IN block' = [block EXCEPT ![b] = IF put /\ r.discard THEN Absent
                                        ELSE [r EXCEPT !.unused = put]]
    /\ UNCHANGED <<transaction, nextId, events, notifying, toWrite, written, call, disk>>

\* block_cache::RemoveUnusedBlocks(), when memory is low: a dirty block is written first,
\* one at a time.
RemoveUnused(b) ==
    /\ block[b].unused /\ b \notin BusyWriting
    /\ IF block[b].dirty /\ ~block[b].discard
       THEN /\ Busy("memory") = {}
            /\ toWrite' = [toWrite EXCEPT !["memory"] = {b}]
            /\ UNCHANGED block
       ELSE /\ block' = [block EXCEPT ![b] = Absent]
            /\ UNCHANGED toWrite
    /\ UNCHANGED <<transaction, nextId, events, notifying, written, call, disk>>

\* It goes on without another look at the block.
WrittenRemoved ==
    LET c == BlocksDone(Cache, written["memory"])
    IN /\ WriteEnds("memory")
       /\ Becomes([c EXCEPT !.block = [b \in Blocks |->
                IF b \in written["memory"] THEN Absent ELSE c.block[b]]])
       /\ UNCHANGED <<nextId, call>>

Background ==
    \/ WriteBlock("background") \/ BackgroundTakes \/ BackgroundWritten \/ TakeEvent

=============================================================================
