------------------------------- MODULE RWLock -------------------------------
(***************************************************************************)
(* The kernel's reader/writer lock (src/system/kernel/locks/lock.cpp,      *)
(* headers/private/kernel/lock.h).                                         *)
(*                                                                         *)
(* Readers enter and leave with one atomic_add() on rw_lock::count; they   *)
(* take the spinlock only when they see a writer in it.  So between the    *)
(* atomic_add() and the slow path of a reader anything can happen, and     *)
(* that is where active_readers and pending_readers come in.  The          *)
(* atomic_add() of a reader is an action, and each section under the       *)
(* spinlock is one.                                                        *)
(*                                                                         *)
(* The clients unlock what they have locked, do not lock for writing while *)
(* they only have a read lock, and do not nest read locks; the writer may  *)
(* nest both.  A thread that holds the write lock may destroy the lock     *)
(* when nobody but the waiters is using it.                                *)
(***************************************************************************)
EXTENDS ThreadBlocking, WaitQueue, Integers, FiniteSets

CONSTANTS
    Base,          \* RW_LOCK_WRITER_COUNT_BASE: more than there can be readers
    MaxNest,       \* how often the writer nests locks
    TimedReaders,  \* the threads that call rw_lock_read_lock_with_timeout()
    Nobody         \* holder == -1

ASSUME RWLockAssumption ==
    /\ Base \in Nat /\ MaxNest \in Nat /\ MaxNest >= 1
    /\ IsFiniteSet(Threads) /\ Cardinality(Threads) + MaxNest < Base
    /\ TimedReaders \subseteq Threads
    /\ Nobody \notin Threads

VARIABLES
    count,         \* rw_lock::count: readers plus Base times writers
    holder,        \* rw_lock::holder: the writer that has the lock
    owner_count,   \* rw_lock::owner_count: the holder's reads plus Base * writes
    active_readers,
    pending_readers,
    waiters,       \* rw_lock::waiters: a sequence of [thread, writer]
    granted,       \* granted[t]: waiter.thread of t was set to NULL
    destroyed,     \* rw_lock_destroy() has run
    pc,            \* pc[t]: where in the lock code t is
    reads,         \* reads[t]: read locks t has
    writes         \* writes[t]: write locks t has

lockVars == <<count, holder, owner_count, active_readers, pending_readers, waiters,
              granted, destroyed>>
vars == <<wait, lockVars, pc, reads, writes>>

\* The values of pc[t] other than "idle":
\*   "read"         has added itself to count, enters _rw_lock_read_lock()
\*   "timedRead"    the same for _rw_lock_read_lock_with_timeout()
\*   "readWait", "timedReadWait", "writeWait"   blocked
\*   "readFailed"   timed out, about to take the spinlock again
\*   "readUnlock"   has left count, enters _rw_lock_read_unlock()

Unlocked ==
    /\ count = 0 /\ owner_count = 0 /\ active_readers = 0 /\ pending_readers = 0
    /\ holder = Nobody
    /\ waiters = <<>>
    /\ granted = [t \in Threads |-> FALSE]
    /\ destroyed = FALSE

Init ==
    /\ Unlocked
    /\ wait = NoWaits
    /\ pc = [t \in Threads |-> "idle"]
    /\ reads = [t \in Threads |-> 0]
    /\ writes = [t \in Threads |-> 0]

-----------------------------------------------------------------------------
(* rw_lock_wait() and rw_lock_unblock() *)

Goto(t, step) == pc' = [pc EXCEPT ![t] = step]
GetRead(t) == reads' = [reads EXCEPT ![t] = @ + 1]
GetWrite(t) == writes' = [writes EXCEPT ![t] = @ + 1]

\* Queue up and get ready to block.
rw_lock_wait(t, isWriter, step) ==
    /\ waiters' = Append(waiters, [thread |-> t, writer |-> isWriter])
    /\ granted' = [granted EXCEPT ![t] = FALSE]
    /\ wait' = thread_prepare_to_block(wait, t)
    /\ Goto(t, step)

\* The threads at the head of q that rw_lock_unblock() wakes: a writer when no
\* reader is active or pending, or all readers up to the next writer.
LeadingReaders(q) ==
    {i \in 1..Len(q) : \A j \in 1..i : ~q[j].writer}

\* Mutants: wake the writer although readers are pending; wake one reader only; wait for
\* one pending reader too many.
WakesWriterEarly(q, act, pend) ==
    IF q = <<>> THEN {}
    ELSE IF q[1].writer THEN IF act > 0 THEN {} ELSE {1}
    ELSE LeadingReaders(q)

WakesOneReader(q, act, pend) ==
    IF q = <<>> THEN {}
    ELSE IF q[1].writer THEN IF act > 0 \/ pend > 0 THEN {} ELSE {1}
    ELSE {1}

WakesNoWriter(q, act, pend) ==
    IF q = <<>> THEN {}
    ELSE IF q[1].writer THEN IF act > 0 \/ pend >= 0 THEN {} ELSE {1}
    ELSE LeadingReaders(q)

Wakes(q, act, pend) ==
    IF q = <<>> THEN {}
    ELSE IF q[1].writer THEN IF act > 0 \/ pend > 0 THEN {} ELSE {1}
    ELSE LeadingReaders(q)

\* What the rest of rw_lock_unblock() does, when nobody has the write lock,
\* act readers are active, pend are pending and c is the new count.  The count of
\* woken readers is the result in the code.
rw_lock_unblock(act, pend, c) ==
    LET up == Wakes(waiters, act, pend)
        n == Cardinality(up)
        woken == {waiters[i].thread : i \in up}
        wakesWriter == up # {} /\ waiters[1].writer
    IN  /\ waiters' = SubSeq(waiters, n + 1, Len(waiters))
        /\ wait' = UnblockAll(wait, woken, B_OK)
        /\ granted' = [t \in Threads |-> granted[t] \/ t \in woken]
        /\ holder' = IF wakesWriter THEN waiters[1].thread ELSE Nobody
        /\ active_readers' = IF ~wakesWriter /\ c >= Base THEN act + n ELSE act

ReadersWoken == Cardinality(Wakes(waiters, 0, 0))

\* Mutants: nobody is expected; the woken readers are expected, too.
ExpectNobody(left, readerCount) == 0
ExpectWokenReaders(left, readerCount) == left - readerCount

\* pending_readers when the last writer unlocks: the readers in count that are
\* neither the old writer's own nor woken now have yet to enter.
ExpectedReaders(left, readerCount) == left - readerCount - ReadersWoken

\* Mutant: pending readers are taken for active ones.
NotePendingToo == IF count < Base THEN count ELSE active_readers

\* active_readers when a writer has to wait: the first one notes the readers.
NotedReaders == IF count < Base THEN count - pending_readers ELSE active_readers

-----------------------------------------------------------------------------
(* Read lock *)

\* A well-behaved client may lock for reading.
MayRead(t) ==
    /\ pc[t] = "idle" /\ ~destroyed
    /\ reads[t] < IF writes[t] > 0 THEN MaxNest ELSE 1

\* rw_lock_read_lock() and its timed variant: the atomic_add().
rw_lock_read_lock(t, slow) ==
    /\ MayRead(t)
    /\ count' = count + 1
    /\ \/ /\ count < Base
          /\ GetRead(t)
          /\ UNCHANGED pc
       \/ /\ count >= Base
          /\ Goto(t, slow)
          /\ UNCHANGED reads
    /\ UNCHANGED <<wait, holder, owner_count, active_readers, pending_readers, waiters,
                   granted, destroyed, writes>>

\* _rw_lock_read_lock() and its timed variant, up to blocking.
ReadLockSlow(t, waitStep) ==
    \/ \* "We might be the writer ourselves."
       /\ holder = t
       /\ owner_count' = owner_count + 1
       /\ GetRead(t) /\ Goto(t, "idle")
       /\ UNCHANGED <<wait, count, holder, active_readers, pending_readers, waiters,
                      granted, destroyed, writes>>
    \/ \* The writer we saw has gone and made us a pending reader.
       /\ holder # t
       /\ pending_readers > 0
       /\ pending_readers' = pending_readers - 1
       /\ active_readers' = active_readers + (IF count >= Base THEN 1 ELSE 0)
       /\ GetRead(t) /\ Goto(t, "idle")
       /\ UNCHANGED <<wait, count, holder, owner_count, waiters, granted, destroyed,
                      writes>>
    \/ \* ASSERT(lock->count >= RW_LOCK_WRITER_COUNT_BASE) and wait
       /\ holder # t
       /\ pending_readers = 0
       /\ count >= Base
       /\ rw_lock_wait(t, FALSE, waitStep)
       /\ UNCHANGED <<count, holder, owner_count, active_readers, pending_readers,
                      destroyed, reads, writes>>

_rw_lock_read_lock(t) == pc[t] = "read" /\ ReadLockSlow(t, "readWait")

_rw_lock_read_lock_with_timeout(t) ==
    pc[t] = "timedRead" /\ ReadLockSlow(t, "timedReadWait")

\* thread_block() returns in rw_lock_wait() for a reader.
ReadWaitReturns(t) ==
    /\ pc[t] = "readWait" /\ Unblocked(t)
    /\ Goto(t, "idle")
    /\ IF wait[t] = B_OK THEN GetRead(t) ELSE UNCHANGED reads
    /\ UNCHANGED <<wait, lockVars, writes>>

TimerFires(t) ==
    /\ pc[t] = "timedReadWait"
    /\ thread_block_timeout(t)
    /\ UNCHANGED <<lockVars, pc, reads, writes>>

\* thread_block_with_timeout() returns.  With waiter.thread == NULL "our
\* unblocker overtook us after we already failed": this is looked at without
\* the spinlock.
TimedReadWaitReturns(t) ==
    /\ pc[t] = "timedReadWait" /\ Unblocked(t)
    /\ \/ /\ wait[t] = B_OK \/ granted[t]
          /\ GetRead(t) /\ Goto(t, "idle")
       \/ /\ wait[t] # B_OK /\ ~granted[t]
          /\ Goto(t, "readFailed") /\ UNCHANGED reads
    /\ UNCHANGED <<wait, lockVars, writes>>

\* Mutant: the reader stays in count.
FailWithoutLeaving(t) ==
    /\ pc[t] = "readFailed"
    /\ \E i \in 1..Len(waiters) :
          /\ waiters[i].thread = t
          /\ waiters' = Without(waiters, i)
    /\ Goto(t, "idle")
    /\ UNCHANGED <<wait, count, holder, owner_count, active_readers, pending_readers,
                   granted, destroyed, reads, writes>>

\* With the spinlock held the thread looks for its waiter in the queue, without
\* testing for the end of the queue, and removes it.
TimedReadFails(t) ==
    /\ pc[t] = "readFailed"
    /\ \E i \in 1..Len(waiters) :
          /\ waiters[i].thread = t
          /\ waiters' = Without(waiters, i)
    /\ count' = count - 1
    /\ Goto(t, "idle")
    /\ UNCHANGED <<wait, holder, owner_count, active_readers, pending_readers, granted,
                   destroyed, reads, writes>>

-----------------------------------------------------------------------------
(* Read unlock *)

\* rw_lock_read_unlock(): the atomic_add().
rw_lock_read_unlock(t) ==
    /\ pc[t] = "idle" /\ ~destroyed
    /\ reads[t] > 0
    /\ reads' = [reads EXCEPT ![t] = @ - 1]
    /\ count' = count - 1
    /\ Goto(t, IF count >= Base THEN "readUnlock" ELSE "idle")
    /\ UNCHANGED <<wait, holder, owner_count, active_readers, pending_readers, waiters,
                   granted, destroyed, writes>>

\* _rw_lock_read_unlock(); it panics when no reader is active.
_rw_lock_read_unlock(t) ==
    /\ pc[t] = "readUnlock"
    /\ Goto(t, "idle")
    /\ \/ /\ holder = t
          /\ owner_count % Base > 0
          /\ owner_count' = owner_count - 1
          /\ UNCHANGED <<wait, holder, active_readers, waiters, granted>>
       \/ /\ holder # t
          /\ active_readers > 1 \/ (active_readers = 1 /\ holder # Nobody)
          /\ active_readers' = active_readers - 1
          /\ UNCHANGED <<wait, holder, owner_count, waiters, granted>>
       \/ /\ holder = Nobody
          /\ active_readers = 1
          /\ rw_lock_unblock(0, pending_readers, count)
          /\ UNCHANGED owner_count
    /\ UNCHANGED <<count, pending_readers, destroyed, reads, writes>>

-----------------------------------------------------------------------------
(* Write lock and unlock *)

MayWrite(t) ==
    /\ pc[t] = "idle" /\ ~destroyed
    /\ writes[t] < MaxNest
    /\ reads[t] > 0 => writes[t] > 0

rw_lock_write_lock(t) ==
    /\ MayWrite(t)
    /\ \/ /\ holder = t
          /\ owner_count' = owner_count + Base
          /\ GetWrite(t)
          /\ UNCHANGED <<wait, count, holder, active_readers, waiters, granted, pc>>
       \/ /\ holder # t /\ count = 0
          /\ count' = Base /\ holder' = t /\ owner_count' = Base
          /\ GetWrite(t)
          /\ UNCHANGED <<wait, active_readers, waiters, granted, pc>>
       \/ /\ holder # t /\ count # 0
          /\ count' = count + Base
          /\ active_readers' = NotedReaders
          /\ rw_lock_wait(t, TRUE, "writeWait")
          /\ UNCHANGED <<holder, owner_count, writes>>
    /\ UNCHANGED <<pending_readers, destroyed, reads>>

\* thread_block() returns in rw_lock_wait() for a writer.
WriteWaitReturns(t) ==
    /\ pc[t] = "writeWait" /\ Unblocked(t)
    /\ Goto(t, "idle")
    /\ \/ /\ wait[t] = B_OK
          /\ holder' = t /\ owner_count' = Base
          /\ GetWrite(t)
       \/ wait[t] # B_OK /\ UNCHANGED <<holder, owner_count, writes>>
    /\ UNCHANGED <<wait, count, active_readers, pending_readers, waiters, granted,
                   destroyed, reads>>

\* _rw_lock_write_unlock()
rw_lock_write_unlock(t) ==
    LET readerCount == owner_count - Base      \* reads nested in the write lock
        left == count - Base
    IN
    /\ pc[t] = "idle" /\ ~destroyed
    /\ writes[t] > 0
    /\ holder = t /\ owner_count >= Base
    /\ writes' = [writes EXCEPT ![t] = @ - 1]
    /\ \/ \* an outer write lock is still held
          /\ owner_count >= 2 * Base
          /\ owner_count' = owner_count - Base
          /\ UNCHANGED <<wait, count, holder, active_readers, pending_readers, waiters,
                         granted>>
       \/ /\ owner_count < 2 * Base
          /\ owner_count' = 0
          /\ count' = left
          /\ \/ \* nobody else
                /\ left = 0
                /\ holder' = Nobody
                /\ UNCHANGED <<wait, active_readers, pending_readers, waiters, granted>>
             \/ \* "If writers are waiting, take over our reader count."
                /\ left >= Base
                /\ rw_lock_unblock(readerCount, pending_readers, left)
                /\ UNCHANGED pending_readers
             \/ \* only readers: wake those that wait, expect the others
                /\ left > 0 /\ left < Base
                /\ rw_lock_unblock(active_readers, pending_readers, left)
                /\ pending_readers' = ExpectedReaders(left, readerCount)
    /\ UNCHANGED <<destroyed, pc, reads>>

-----------------------------------------------------------------------------
(* Destroy *)

\* Nobody but t uses the lock, or t is its writer and the others wait for it.
OnlyWaiters(t) ==
    \A u \in Threads \ {t} :
        /\ reads[u] = 0 /\ writes[u] = 0
        /\ pc[u] \in {"idle"} \cup
                     IF holder = t THEN {"readWait", "timedReadWait", "writeWait"} ELSE {}

\* Mutant: the waiters are left blocked.
DestroyWithoutWake(t) ==
    /\ pc[t] = "idle" /\ ~destroyed
    /\ OnlyWaiters(t)
    /\ waiters' = <<>>
    /\ destroyed' = TRUE
    /\ reads' = [reads EXCEPT ![t] = 0]
    /\ writes' = [writes EXCEPT ![t] = 0]
    /\ UNCHANGED <<wait, count, holder, owner_count, active_readers, pending_readers,
                   granted, pc>>

rw_lock_destroy(t) ==
    /\ pc[t] = "idle" /\ ~destroyed
    /\ OnlyWaiters(t)
    /\ wait' = UnblockAll(wait, {waiters[i].thread : i \in 1..Len(waiters)}, B_ERROR)
    /\ waiters' = <<>>
    /\ destroyed' = TRUE
    /\ reads' = [reads EXCEPT ![t] = 0]
    /\ writes' = [writes EXCEPT ![t] = 0]
    /\ UNCHANGED <<count, holder, owner_count, active_readers, pending_readers, granted,
                   pc>>

\* A new lock, once all calls for the old one have returned.
rw_lock_init ==
    /\ destroyed
    /\ \A t \in Threads : pc[t] = "idle"
    /\ count' = 0 /\ owner_count' = 0 /\ active_readers' = 0 /\ pending_readers' = 0
    /\ holder' = Nobody
    /\ waiters' = <<>>
    /\ granted' = [t \in Threads |-> FALSE]
    /\ destroyed' = FALSE
    /\ UNCHANGED <<wait, pc, reads, writes>>

-----------------------------------------------------------------------------

Continue(t) ==
    \/ _rw_lock_read_lock(t)
    \/ _rw_lock_read_lock_with_timeout(t)
    \/ ReadWaitReturns(t)
    \/ TimedReadWaitReturns(t)
    \/ TimedReadFails(t)
    \/ _rw_lock_read_unlock(t)
    \/ WriteWaitReturns(t)

Release(t) == rw_lock_read_unlock(t) \/ rw_lock_write_unlock(t)

Call(t) ==
    \/ rw_lock_read_lock(t, "read")
    \/ t \in TimedReaders /\ rw_lock_read_lock(t, "timedRead")
    \/ rw_lock_write_lock(t)
    \/ rw_lock_destroy(t)

Next == rw_lock_init \/ \E t \in Threads :
            Continue(t) \/ Release(t) \/ Call(t) \/ TimerFires(t)

Spec == Init /\ [][Next]_vars

(***************************************************************************)
(* Fairness: a runnable thread is scheduled, and a client that comes back  *)
(* again and again to a level of nesting where it could give up a read or  *)
(* write lock does so.                                                     *)
(***************************************************************************)
Fairness ==
    \A t \in Threads :
        /\ WF_vars(Continue(t))
        /\ \A n \in 0..MaxNest - 1 :
              /\ SF_vars(rw_lock_read_unlock(t) /\ reads'[t] = n)
              /\ SF_vars(rw_lock_write_unlock(t) /\ writes'[t] = n)

FairSpec == Spec /\ Fairness

-----------------------------------------------------------------------------
(* Properties *)

\* While a thread has the write lock no other thread has a read or write lock.
ReaderWriterExclusion ==
    \A t, u \in Threads : t # u /\ writes[t] > 0 => reads[u] = 0 /\ writes[u] = 0

\* Readers that have entered count and not yet the critical section after it.
AboutToRead == {t \in Threads : pc[t] \in {"read", "timedRead"}}

\* Readers that have entered count and not left it, other than those with a lock.
Entering == {t \in Threads : pc[t] \in {"read", "timedRead", "readWait",
                                        "timedReadWait", "readFailed"}}

\* Writers that have the lock or wait for it.
Writers == {t \in Threads : writes[t] > 0 \/ pc[t] = "writeWait"}

\* Readers that have the lock and are on the way out of rw_lock_wait() or into
\* _rw_lock_read_unlock().
Leaving == {t \in Threads : \/ t \in Entering \ AboutToRead /\ granted[t]
                            \/ pc[t] = "readUnlock"}

\* The read locks: a thread with n of them is in n pairs.
ReadLocks == {l \in Threads \X (1..MaxNest) : l[2] <= reads[l[1]]}

\* rw_lock::count never loses or gains anybody: one for each read lock and each
\* reader that is still on its way or waits, Base for each writer that has the
\* lock or waits, whatever a reader's atomic_add() races with.
CountIsExact ==
    ~destroyed =>
        count = Cardinality(ReadLocks) + Cardinality(Entering)
                + Base * Cardinality(Writers)

\* lock.h, active_readers: while a writer waits and no writer has the lock,
\* active_readers is the number of readers that have the lock (some of them
\* still on the way out of rw_lock_wait() or into _rw_lock_read_unlock()).
\* Otherwise the writer would be woken too early or never.
ActiveReadersExact ==
    ~destroyed /\ holder = Nobody /\ count >= Base =>
        active_readers = Cardinality(ReadLocks) + Cardinality(Leaving)

\* lock.h, pending_readers: readers "that have already incremented count, but
\* have not yet started to wait at the time the last writer unlocked".  There are
\* such readers, and no writer is let in before they have come.
PendingReadersExist ==
    pending_readers > 0 =>
        /\ holder = Nobody
        /\ pending_readers <= Cardinality(AboutToRead)

\* No ASSERT() or panic() of the rw_lock code is reached: a reader that starts to
\* wait sees a writer in count, a reader that unlocks in the slow path is counted
\* in owner_count or active_readers, and who unlocks for writing is the holder.
NoPanic ==
    ~destroyed =>
    \A t \in Threads :
        /\ pc[t] \in {"read", "timedRead"} /\ holder # t /\ pending_readers = 0
              => count >= Base
        /\ pc[t] = "readUnlock" =>
              IF holder = t THEN owner_count % Base > 0 ELSE active_readers > 0
        /\ writes[t] > 0 => holder = t /\ owner_count >= Base

\* No lost wake-up: when every thread is either outside of the code or asleep,
\* somebody has what the first in the queue waits for.
NobodyForgotten ==
    (\A t \in Threads : pc[t] = "idle" \/ ~Unblocked(t)) /\ waiters # <<>> =>
        \E t \in Threads : writes[t] > 0 \/ (waiters[1].writer /\ reads[t] > 0)

\* The comment in _rw_lock_read_lock_with_timeout() after a failed wait:
\* "potentially our unblocker overtook us after we already failed.  In either case,
\* we've got the lock, now".  So who goes on to the search for its waiter in the
\* queue is still queued there.
TimedOutStillQueued ==
    \A t \in Threads : pc[t] = "readFailed" /\ ~destroyed =>
        \E i \in 1..Len(waiters) : waiters[i].thread = t

\* Every rw_lock_read_lock() and rw_lock_write_lock() returns, timed ones or not.  The
\* exception is a timed reader that looks for its waiter where it no longer is.
LocksReturn ==
    \A t \in Threads : pc[t] \in {"read", "readWait", "writeWait"} ~>
        pc[t] = "idle" \/ ~TimedOutStillQueued
=============================================================================
