-------------------------------- MODULE Mutex --------------------------------
(***************************************************************************)
(* The kernel mutex of the KDEBUG build (src/system/kernel/locks/lock.cpp, *)
(* headers/private/kernel/lock.h): the lock records its holder and every   *)
(* operation takes the spinlock mutex::lock.                               *)
(*                                                                         *)
(* A section that runs under one spinlock is one action.  Only             *)
(* mutex_switch_lock() holds a spinlock (the one of "to") while it takes a *)
(* second one (inside mutex_unlock(from)), so it is modelled in steps and  *)
(* the owner of the spinlock is part of the state.                         *)
(*                                                                         *)
(* The clients follow the rules lock.h states: only a lock not yet held is *)
(* locked, only a held one is unlocked or transferred, locks nest along    *)
(* Before, and a mutex that can go away is reached and destroyed only      *)
(* while the mutex that guards it is held.                                 *)
(*                                                                         *)
(* A panic() stops the system: a step that would panic is not enabled.     *)
(***************************************************************************)
EXTENDS ThreadBlocking, WaitQueue

CONSTANTS
    Mutexes,     \* the mutexes
    Before,      \* pairs <<a, b>>: b may be locked while a is held
    Guards,      \* pairs <<f, m>>: f guards the object the mutex m is part of
    TimedLocks,  \* the mutexes some client locks with a timeout
    Nobody,      \* holder == -1, the mutex is free
    Destroyed    \* holder == 0, the mutex is destroyed or uninitialised

ASSUME MutexAssumption ==
    /\ Before \subseteq Mutexes \X Mutexes
    /\ Guards \subseteq Before
    /\ TimedLocks \subseteq Mutexes
    /\ {Nobody, Destroyed} \cap (Threads \cup Mutexes) = {}
    /\ Nobody # Destroyed

\* A timed lock that fails takes the spinlock of its mutex again after the wait
\* (_mutex_lock_with_timeout()), so a mutex that can go away is not locked that way.
ASSUME GuardedNotTimed == \A p \in Guards : p[2] \notin TimedLocks

VARIABLES
    holder,      \* holder[m]: mutex::holder
    waiters,     \* waiters[m]: the list mutex::waiters, a sequence of threads
    spin,        \* spin[m]: who keeps the spinlock mutex::lock between steps
    pc,          \* pc[t]: where in the mutex code thread t is
    lock,        \* lock[t]: the mutex t's current operation is about
    from,        \* from[t]: the "from" of t's mutex_switch_lock()
    held         \* held[t]: the mutexes t was told it has, minus those it gave up

vars == <<wait, holder, waiters, spin, pc, lock, from, held>>

Steps == {"idle",        \* outside the mutex code
          "blocked",     \* in thread_block() of _mutex_lock()
          "timed",       \* in thread_block_with_timeout()
          "failed",      \* woken with an error, about to take the spinlock again
          "switching",   \* has the spinlock of lock[t], from[t] still locked
          "switched"}    \* has the spinlock of lock[t], from[t] unlocked

\* The types of the variables; and as mutex::waiters is a linked list of structures
\* on the stacks of the waiting threads, no structure is linked twice.
TypeOK ==
    /\ WaitTypeOK
    /\ holder \in [Mutexes -> Threads \cup {Nobody, Destroyed}]
    /\ waiters \in [Mutexes -> Seq(Threads)]
    /\ spin \in [Mutexes -> Threads \cup {Nobody}]
    /\ pc \in [Threads -> Steps]
    /\ lock \in [Threads -> Mutexes \cup {Nobody}]
    /\ from \in [Threads -> Mutexes \cup {Nobody}]
    /\ held \in [Threads -> SUBSET Mutexes]
    /\ \A m \in Mutexes : \A i, j \in 1..Len(waiters[m]) :
            waiters[m][i] = waiters[m][j] => i = j

Init ==
    /\ wait = NoWaits
    /\ holder = [m \in Mutexes |-> Nobody]
    /\ waiters = [m \in Mutexes |-> <<>>]
    /\ spin = [m \in Mutexes |-> Nobody]
    /\ pc = [t \in Threads |-> "idle"]
    /\ lock = [t \in Threads |-> Nobody]
    /\ from = [t \in Threads |-> Nobody]
    /\ held = [t \in Threads |-> {}]

-----------------------------------------------------------------------------
(* Parts of the operations *)

InQueue(m, t) == \E i \in 1..Len(waiters[m]) : waiters[m][i] = t

SpinFree(m) == spin[m] = Nobody

\* A client that keeps to the rules may call mutex_trylock() for m.
MayTry(t, m) ==
    /\ pc[t] = "idle"
    /\ m \notin held[t]
    /\ \A g \in Mutexes : <<g, m>> \in Guards =>
            g \in held[t] /\ holder[m] # Destroyed

\* It may call one that waits only if m comes after what it holds.
MayLock(t, m) ==
    /\ MayTry(t, m)
    /\ \A h \in held[t] : <<h, m>> \in Before

\* The operation of t is over.
Return(t) ==
    /\ pc' = [pc EXCEPT ![t] = "idle"]
    /\ lock' = [lock EXCEPT ![t] = Nobody]
    /\ from' = [from EXCEPT ![t] = Nobody]

\* Mutant of TakeFree: the holder is not looked at.
TakeAnyway(t, m) ==
    /\ holder' = [holder EXCEPT ![m] = t]
    /\ held' = [held EXCEPT ![t] = @ \cup {m}]
    /\ Return(t)
    /\ UNCHANGED <<wait, waiters>>

\* holder < 0: the caller becomes the holder and the call returns B_OK.
TakeFree(t, m) ==
    /\ holder[m] = Nobody
    /\ holder' = [holder EXCEPT ![m] = t]
    /\ held' = [held EXCEPT ![t] = @ \cup {m}]
    /\ Return(t)
    /\ UNCHANGED <<wait, waiters>>

\* Mutant of Enqueue: the waiter is put at the head of the queue.
EnqueueAtHead(t, m, step) ==
    /\ holder[m] \in Threads \ {t}
    /\ waiters' = [waiters EXCEPT ![m] = <<t>> \o @]
    /\ wait' = thread_prepare_to_block(wait, t)
    /\ pc' = [pc EXCEPT ![t] = step]
    /\ lock' = [lock EXCEPT ![t] = m]
    /\ from' = [from EXCEPT ![t] = Nobody]
    /\ UNCHANGED <<holder, held>>

\* Another thread has the lock: queue up and get ready to block.
Enqueue(t, m, step) ==
    /\ holder[m] \in Threads \ {t}
    /\ waiters' = [waiters EXCEPT ![m] = Append(@, t)]
    /\ wait' = thread_prepare_to_block(wait, t)
    /\ pc' = [pc EXCEPT ![t] = step]
    /\ lock' = [lock EXCEPT ![t] = m]
    /\ from' = [from EXCEPT ![t] = Nobody]
    /\ UNCHANGED <<holder, held>>

\* What _mutex_lock() does under the spinlock.  Neither case applies, and the
\* code panics, when t has the lock already or the lock is not initialised.
LockLocked(t, m, step) == TakeFree(t, m) \/ Enqueue(t, m, step)

\* Mutant of UnlockLocked: the lock is free until the woken waiter takes it.
UnlockAsFree(t, m) ==
    /\ holder[m] = t
    /\ held' = [held EXCEPT ![t] = @ \ {m}]
    /\ holder' = [holder EXCEPT ![m] = Nobody]
    /\ \/ /\ waiters[m] # <<>>
          /\ waiters' = [waiters EXCEPT ![m] = Tail(@)]
          /\ wait' = thread_unblock(wait, Head(waiters[m]), B_OK)
       \/ waiters[m] = <<>> /\ UNCHANGED <<waiters, wait>>

\* Mutant of UnlockLocked: the first waiter is dequeued but not woken.
UnlockWithoutWake(t, m) ==
    /\ holder[m] = t
    /\ held' = [held EXCEPT ![t] = @ \ {m}]
    /\ \/ /\ waiters[m] # <<>>
          /\ waiters' = [waiters EXCEPT ![m] = Tail(@)]
          /\ holder' = [holder EXCEPT ![m] = Head(waiters[m])]
       \/ /\ waiters[m] = <<>>
          /\ holder' = [holder EXCEPT ![m] = Nobody]
          /\ UNCHANGED waiters
    /\ UNCHANGED wait

\* Mutant of UnlockLocked: the first waiter is woken but stays queued.
UnlockWithoutDequeue(t, m) ==
    /\ holder[m] = t
    /\ held' = [held EXCEPT ![t] = @ \ {m}]
    /\ \/ /\ waiters[m] # <<>>
          /\ holder' = [holder EXCEPT ![m] = Head(waiters[m])]
          /\ wait' = thread_unblock(wait, Head(waiters[m]), B_OK)
       \/ /\ waiters[m] = <<>>
          /\ holder' = [holder EXCEPT ![m] = Nobody]
          /\ UNCHANGED wait
    /\ UNCHANGED waiters

\* What _mutex_unlock() does under the spinlock: the lock is handed to the
\* first waiter, who is the holder before it runs again.
UnlockLocked(t, m) ==
    /\ holder[m] = t
    /\ held' = [held EXCEPT ![t] = @ \ {m}]
    /\ \/ /\ waiters[m] # <<>>
          /\ waiters' = [waiters EXCEPT ![m] = Tail(@)]
          /\ holder' = [holder EXCEPT ![m] = Head(waiters[m])]
          /\ wait' = thread_unblock(wait, Head(waiters[m]), B_OK)
       \/ /\ waiters[m] = <<>>
          /\ holder' = [holder EXCEPT ![m] = Nobody]
          /\ UNCHANGED <<waiters, wait>>

-----------------------------------------------------------------------------
(* Lock *)

\* Mutant of _mutex_lock: the spinlock is not taken.
LockWithoutSpinlock(t, m) ==
    /\ MayLock(t, m)
    /\ LockLocked(t, m, "blocked")
    /\ UNCHANGED spin

_mutex_lock(t, m) ==
    /\ MayLock(t, m)
    /\ SpinFree(m)
    /\ LockLocked(t, m, "blocked")
    /\ UNCHANGED spin

\* A failing trylock returns B_WOULD_BLOCK and changes nothing.
_mutex_trylock(t, m) ==
    /\ MayTry(t, m)
    /\ SpinFree(m)
    /\ TakeFree(t, m)
    /\ UNCHANGED spin

_mutex_lock_with_timeout(t, m) ==
    /\ m \in TimedLocks
    /\ MayLock(t, m)
    /\ SpinFree(m)
    /\ LockLocked(t, m, "timed")
    /\ UNCHANGED spin

\* thread_block() or thread_block_with_timeout() returns B_OK; the code asserts
\* that t is the holder.
BlockSucceeds(t) ==
    /\ pc[t] \in {"blocked", "timed"}
    /\ wait[t] = B_OK
    /\ holder[lock[t]] = t
    /\ held' = [held EXCEPT ![t] = @ \cup {lock[t]}]
    /\ Return(t)
    /\ UNCHANGED <<wait, holder, waiters, spin>>

\* thread_block() returns an error, and so does _mutex_lock().
BlockFails(t) ==
    /\ pc[t] = "blocked"
    /\ Unblocked(t) /\ wait[t] # B_OK
    /\ Return(t)
    /\ UNCHANGED <<wait, holder, waiters, spin, held>>

\* The timer of t's wait fires.
TimerFires(t) ==
    /\ pc[t] = "timed"
    /\ thread_block_timeout(t)
    /\ UNCHANGED <<holder, waiters, spin, pc, lock, from, held>>

\* thread_block_with_timeout() returns an error.
TimedBlockFails(t) ==
    /\ pc[t] = "timed"
    /\ Unblocked(t) /\ wait[t] # B_OK
    /\ pc' = [pc EXCEPT ![t] = "failed"]
    /\ UNCHANGED <<wait, holder, waiters, spin, lock, from, held>>

\* Mutant of TimedLockFails: the waiter stays queued.
FailWithoutDequeue(t) ==
    /\ pc[t] = "failed"
    /\ SpinFree(lock[t])
    /\ Return(t)
    /\ UNCHANGED <<wait, holder, waiters, spin, held>>

\* The tail of _mutex_lock_with_timeout(): dequeue if still queued; the error
\* is returned either way.
TimedLockFails(t) ==
    LET m == lock[t] IN
    /\ pc[t] = "failed"
    /\ SpinFree(m)
    /\ \/ \E i \in 1..Len(waiters[m]) :
            /\ waiters[m][i] = t
            /\ waiters' = [waiters EXCEPT ![m] = Without(@, i)]
       \/ ~InQueue(m, t) /\ UNCHANGED waiters
    /\ Return(t)
    /\ UNCHANGED <<wait, holder, spin, held>>

-----------------------------------------------------------------------------
(* Unlock, transfer, switch *)

_mutex_unlock(t, m) ==
    /\ pc[t] = "idle"
    /\ m \in held[t]
    /\ SpinFree(m)
    /\ UnlockLocked(t, m)
    /\ UNCHANGED <<spin, pc, lock, from>>

\* Writes mutex::holder without the spinlock.  The client hands a held mutex to
\* a thread that is outside of the lock code and holds nothing.
mutex_transfer_lock(t, m, u) ==
    /\ pc[t] = "idle" /\ pc[u] = "idle" /\ t # u
    /\ m \in held[t] /\ held[u] = {}
    /\ holder[m] = t
    /\ holder' = [holder EXCEPT ![m] = u]
    /\ held' = [held EXCEPT ![t] = @ \ {m}, ![u] = {m}]
    /\ UNCHANGED <<wait, waiters, spin, pc, lock, from>>

\* Mutant of mutex_switch_lock: the spinlock of "to" is not kept.
SwitchWithoutSpinlock(t, f, m) ==
    /\ <<f, m>> \in Guards
    /\ f \in held[t]
    /\ MayLock(t, m)
    /\ pc' = [pc EXCEPT ![t] = "switching"]
    /\ lock' = [lock EXCEPT ![t] = m]
    /\ from' = [from EXCEPT ![t] = f]
    /\ UNCHANGED <<wait, holder, waiters, spin, held>>

\* mutex_switch_lock() takes the spinlock of "to" ...
mutex_switch_lock(t, f, m) ==
    /\ <<f, m>> \in Guards
    /\ f \in held[t]
    /\ MayLock(t, m)
    /\ SpinFree(m)
    /\ spin' = [spin EXCEPT ![m] = t]
    /\ pc' = [pc EXCEPT ![t] = "switching"]
    /\ lock' = [lock EXCEPT ![t] = m]
    /\ from' = [from EXCEPT ![t] = f]
    /\ UNCHANGED <<wait, holder, waiters, held>>

\* ... unlocks "from" ...
SwitchUnlocks(t) ==
    /\ pc[t] = "switching"
    /\ SpinFree(from[t])
    /\ UnlockLocked(t, from[t])
    /\ pc' = [pc EXCEPT ![t] = "switched"]
    /\ UNCHANGED <<spin, lock, from>>

\* ... and takes "to" or queues up for it; in both cases the spinlock is dropped.
SwitchLocks(t) ==
    /\ pc[t] = "switched"
    /\ LockLocked(t, lock[t], "blocked")
    /\ spin' = [spin EXCEPT ![lock[t]] = Nobody]

-----------------------------------------------------------------------------
(* Destroy and initialise again *)

\* Mutant of mutex_destroy: the waiters are not woken.
DestroyWithoutWake(t, m) ==
    /\ pc[t] = "idle"
    /\ \E g \in held[t] : <<g, m>> \in Guards
    /\ holder[m] = Nobody \/ (holder[m] = t /\ m \in held[t])
    /\ SpinFree(m)
    /\ waiters' = [waiters EXCEPT ![m] = <<>>]
    /\ holder' = [holder EXCEPT ![m] = Destroyed]
    /\ held' = [held EXCEPT ![t] = @ \ {m}]
    /\ UNCHANGED <<wait, spin, pc, lock, from>>

\* Every waiter is woken with B_ERROR.  The client holds the guard of m; m is free or its
\* own as well, the code panics otherwise.
mutex_destroy(t, m) ==
    /\ pc[t] = "idle"
    /\ \E g \in held[t] : <<g, m>> \in Guards
    /\ holder[m] = Nobody \/ (holder[m] = t /\ m \in held[t])
    /\ SpinFree(m)
    /\ wait' = UnblockAll(wait, {u \in Threads : InQueue(m, u)}, B_ERROR)
    /\ waiters' = [waiters EXCEPT ![m] = <<>>]
    /\ holder' = [holder EXCEPT ![m] = Destroyed]
    /\ held' = [held EXCEPT ![t] = @ \ {m}]
    /\ UNCHANGED <<spin, pc, lock, from>>

\* A new object, with a new mutex, takes the place of the destroyed one.
mutex_init(t, m) ==
    /\ pc[t] = "idle"
    /\ \E g \in held[t] : <<g, m>> \in Guards
    /\ holder[m] = Destroyed
    /\ holder' = [holder EXCEPT ![m] = Nobody]
    /\ waiters' = [waiters EXCEPT ![m] = <<>>]
    /\ UNCHANGED <<wait, spin, pc, lock, from, held>>

-----------------------------------------------------------------------------

\* The steps of a thread inside the mutex code.
Continue(t) ==
    \/ BlockSucceeds(t)
    \/ BlockFails(t)
    \/ TimedBlockFails(t)
    \/ TimedLockFails(t)
    \/ SwitchUnlocks(t)
    \/ SwitchLocks(t)

\* The calls a client makes.
Call(t) ==
    \E m \in Mutexes :
        \/ _mutex_lock(t, m)
        \/ _mutex_trylock(t, m)
        \/ _mutex_lock_with_timeout(t, m)
        \/ _mutex_unlock(t, m)
        \/ mutex_destroy(t, m)
        \/ mutex_init(t, m)
        \/ \E u \in Threads : mutex_transfer_lock(t, m, u)
        \/ \E f \in Mutexes : mutex_switch_lock(t, f, m)

Next == \E t \in Threads : Continue(t) \/ Call(t) \/ TimerFires(t)

Spec == Init /\ [][Next]_vars

(***************************************************************************)
(* Fairness: a runnable thread is scheduled (WF), and the clients do not   *)
(* keep a mutex among them for ever, say by locking and unlocking another  *)
(* one in between or by transferring it back and forth (SF).               *)
(***************************************************************************)
Fairness ==
    /\ \A t \in Threads : WF_vars(Continue(t))
    /\ \A m \in Mutexes : SF_vars(\E t \in Threads : _mutex_unlock(t, m))

FairSpec == Spec /\ Fairness

-----------------------------------------------------------------------------
(* Properties *)

\* Two threads never both believe they have the same mutex.
MutualExclusion ==
    \A t, u \in Threads : t # u => held[t] \cap held[u] = {}

\* The checks on the holder never fail: a thread that was told it has the mutex
\* is its holder when it unlocks, transfers or destroys it (panics of
\* _mutex_unlock, mutex_transfer_lock, mutex_destroy), and a thread woken with
\* B_OK is the holder (ASSERTs after thread_block in _mutex_lock and
\* _mutex_lock_with_timeout).  The panic about a double lock is not among them: a thread
\* that was told of a timeout, but is the holder, reaches it if it tries again.
HolderChecksHold ==
    \A t \in Threads :
        /\ \A m \in held[t] : holder[m] = t
        /\ pc[t] = "switching" => holder[from[t]] = t
        /\ pc[t] \in {"blocked", "timed"} /\ wait[t] = B_OK
                => holder[lock[t]] = t

\* thread.h, thread_prepare_to_block(): when the unblocking thread associated a
\* resource with the unblocked one, success is necessary "or otherwise the
\* unblocked thread would have to reverse that here".  So a thread that is
\* outside of the lock code holds exactly the mutexes it was told it has.
FailedLockNotOwned ==
    \A t \in Threads, m \in Mutexes :
        pc[t] = "idle" /\ holder[m] = t => m \in held[t]

\* A mutex_waiter lives on the stack of the thread that waits: whatever is in a
\* queue belongs to a call that has not returned and, when that call cannot time
\* out, has not been woken either.
QueuedWaitersLive ==
    \A m \in Mutexes : \A i \in 1..Len(waiters[m]) :
        LET t == waiters[m][i] IN
        /\ lock[t] = m
        /\ pc[t] \in {"blocked", "timed", "failed"}
        /\ pc[t] = "blocked" => thread_is_blocked(wait, t)

\* No lost wake-up: a thread that sleeps in _mutex_lock() is in the queue of its
\* mutex, and another thread is its holder, whose _mutex_unlock() would wake it.  (A holder
\* that was told of a timeout does not know that it has to unlock.)
NoLostWakeup ==
    \A t \in Threads :
        pc[t] \in {"blocked", "timed"} /\ thread_is_blocked(wait, t) =>
            /\ InQueue(lock[t], t)
            /\ holder[lock[t]] \in Threads \ {t}

\* lock.h, mutex_switch_lock(): "if from guards the object to belongs to, the
\* operation is safe as long as from is held while destroying to".  When a mutex
\* is destroyed no thread is left that would still use it: those that slept on
\* it have been woken with B_ERROR and return without another look at the mutex.
DestroyedUnused ==
    \A m \in Mutexes : holder[m] = Destroyed =>
        /\ waiters[m] = <<>> /\ spin[m] = Nobody
        /\ \A t \in Threads :
              /\ m \notin held[t]
              /\ lock[t] = m => pc[t] = "blocked" /\ wait[t] = B_ERROR

\* lock.h, mutex_switch_lock(): "unlocking and starting to wait for the lock is
\* atomically": from the unlock of "from" until the thread has "to" or is queued
\* for it, nobody else gets into the queue of "to" or destroys it.
SwitchIsAtomic ==
    [][\A t \in Threads : pc[t] = "switched" =>
          \/ pc'[t] # "switched"
          \/ /\ waiters'[lock[t]] = waiters[lock[t]]
             /\ holder'[lock[t]] # Destroyed]_vars

\* Every _mutex_lock() and mutex_switch_lock() returns: nobody gets stuck on a panic or
\* on a spinlock either.  The exceptions: a timed lock that has left its caller as the
\* holder without telling it; and switches in opposite directions, which Before excludes.
LockReturns ==
    \A t \in Threads :
        pc[t] \in {"blocked", "switching"} ~> pc[t] = "idle" \/ ~FailedLockNotOwned

(***************************************************************************)
(* The mutex implements FifoLock: the holder followed by the queue is the  *)
(* line.                                                                   *)
(***************************************************************************)
Line == [m \in Mutexes |-> IF holder[m] \in Threads
                           THEN <<holder[m]>> \o waiters[m] ELSE <<>>]

Fifo == INSTANCE FifoLock WITH Locks <- Mutexes, line <- Line, holds <- held

ImplementsFifoLock == Fifo!FifoSpec
=============================================================================
