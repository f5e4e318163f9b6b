----------------------------- MODULE Semaphore -----------------------------
(***************************************************************************)
(* The kernel's counting semaphores (src/system/kernel/sem.cpp).           *)
(*                                                                         *)
(* A sem_entry keeps two numbers: net_count, the units that are really     *)
(* there, and count, net_count less what the queued threads ask for.  A    *)
(* thread whose wait has failed stays queued until it runs again, and the  *)
(* others have to tell it from one that still waits.                       *)
(*                                                                         *)
(* A section under sem_entry::lock is an action.  The lock is a variable   *)
(* for the one place that takes the lock of another semaphore with it.     *)
(* A sem_id is a slot of sSems with its generation, id / sMaxSems.         *)
(* Releases come from threads and interrupt handlers alike, so they are    *)
(* actions of nobody in particular, except for the one in switch_sem_etc().*)
(* Calls that fail at once (a bad id, B_WOULD_BLOCK) change nothing and    *)
(* are no actions.  Owners, names, permissions and select are left out.    *)
(***************************************************************************)
EXTENDS ThreadBlocking, WaitQueue, Integers, FiniteSets, FiniteSetsExt, SequencesExt

CONSTANTS
    Slots,         \* the indices of sSems
    Counts,        \* how many units threads acquire and release at a time
    MaxCount,      \* bound on net_count when a release starts
    MaxGeneration, \* the last generation of an id that is not negative
    Switches,      \* pairs: switch_sem_etc() releases the first, acquires the second
    Interruptible, \* threads that acquire with B_CAN_INTERRUPT
    Timed,         \* threads that acquire with a timeout
    None           \* semToBeReleased == -1, and a free lock

ASSUME SemaphoreAssumption ==
    /\ Counts \subseteq Nat \ {0}
    /\ MaxCount \in Nat /\ MaxGeneration \in Nat
    /\ IsFiniteSet(Threads) /\ IsFiniteSet(Slots)
    /\ Switches \subseteq Slots \X Slots
    /\ Interruptible \subseteq Threads /\ Timed \subseteq Threads
    /\ None \notin Threads

VARIABLES
    count, net_count,  \* sem_entry::u.used
    queue,         \* sem_entry::queue: [thread, count] in order
    semLock,       \* sem_entry::lock: who has it between two actions
    used,          \* used[s]: sem_entry::id is not -1
    generation,    \* of sem_entry::id, or next_id when the slot is not in use
    free,          \* the free list
    queued,        \* queued[t]: queued_thread::queued of t
    pc, sem, amount, toRelease,   \* the state and the arguments of t's call
    units          \* history: the units created and released, less those acquired

semVars == <<count, net_count, queue>>
slotVars == <<used, generation, free>>
callVars == <<sem, amount, toRelease>>
vars == <<wait, semVars, semLock, slotVars, queued, pc, callVars, units>>

\* The values of pc[t] other than "idle" and "blocked":
\*   "switching"    queued, about to release the other semaphore
\*   "interrupted"  about to release it, with the lock of this one
\*   "freeing"      has invalidated a semaphore, about to free its slot

Init ==
    /\ wait = NoWaits
    /\ count = [s \in Slots |-> 0] /\ net_count = [s \in Slots |-> 0]
    /\ queue = [s \in Slots |-> <<>>]
    /\ semLock = [s \in Slots |-> None]
    /\ used = [s \in Slots |-> FALSE] /\ generation = [s \in Slots |-> 0]
    /\ free = SetToSeq(Slots)
    /\ queued = [t \in Threads |-> FALSE]
    /\ pc = [t \in Threads |-> "idle"]
    /\ sem = [t \in Threads |-> None]
    /\ amount = [t \in Threads |-> 0]
    /\ toRelease = [t \in Threads |-> None]
    /\ units = [s \in Slots |-> 0]

Goto(t, step) == pc' = [pc EXCEPT ![t] = step]
Return(t) == /\ Goto(t, "idle")
             /\ sem' = [sem EXCEPT ![t] = None]
             /\ amount' = [amount EXCEPT ![t] = 0]

IdOf(s) == [slot |-> s, generation |-> generation[s]]
Valid(id) == used[id.slot] /\ generation[id.slot] = id.generation

-----------------------------------------------------------------------------
(* Waking up queued threads *)

\* The sum of f[x] over S, as the number of pairs: f[x] of them for each x.
UnitsOf(f, S) == Cardinality(UNION {{x} \X (1..f[x]) : x \in S})

\* What the entries S of q ask for.
CountOf(q, S) == UnitsOf([i \in S |-> q[i].count], S)

\* Mutant: who timed out is taken for waiting.
StillWaitingAll(q, n) == 1..n

\* The entries up to the n-th whose threads still wait, and those whose don't.
StillWaiting(q, n) == {i \in 1..n : thread_is_blocked(wait, q[i].thread)}
Failed(q, n) == (1..n) \ StillWaiting(q, n)

\* Mutant: wake nobody.
TakenOffNone(q, supply, limit) == 0

\* The loops over the queue in release_sem_etc() and remove_thread_from_sem(): how many
\* entries they take off its head.  A thread that still waits is woken if supply
\* suffices for it, too; one that doesn't is dropped.  The loop is left at a thread that
\* cannot be satisfied, and once limit units were given away.
TakenOff(q, supply, limit) ==
    Max({n \in 0..Len(q) :
            \A i \in 1..n :
                LET given == CountOf(q, StillWaiting(q, i - 1)) IN
                /\ given < limit
                /\ thread_is_blocked(wait, q[i].thread) => q[i].count <= supply - given})

\* Unblock the waiting ones of the first n entries of q, and take them all off.
Dequeue(s, q, n) ==
    /\ wait' = UnblockAll(wait, {q[i].thread : i \in StillWaiting(q, n)}, B_OK)
    /\ queue' = [queue EXCEPT ![s] = SubSeq(q, n + 1, Len(q))]
    /\ queued' = [t \in Threads |-> queued[t] /\ ~\E i \in 1..n : q[i].thread = t]

\* Mutant: count is not corrected for the threads that are dropped.
ReleaseKeepsDropped(s, n, ifWaitingOnly) ==
    LET q == queue[s]
        taken == TakenOff(q, net_count[s] + n, n)
        given == CountOf(q, StillWaiting(q, taken))
        released == IF ifWaitingOnly /\ given < n /\ taken = Len(q) THEN given ELSE n
    IN  /\ Dequeue(s, q, taken)
        /\ net_count' = [net_count EXCEPT ![s] = @ + released - given]
        /\ count' = [count EXCEPT ![s] = @ + released]
        /\ units' = [units EXCEPT ![s] = @ + released]

\* The body of release_sem_etc() for a valid semaphore.
ReleaseLocked(s, n, ifWaitingOnly) ==
    LET q == queue[s]
        taken == TakenOff(q, net_count[s] + n, n)
        given == CountOf(q, StillWaiting(q, taken))
        dropped == CountOf(q, Failed(q, taken))
        \* what is left when the queue is empty is not released with ifWaitingOnly
        released == IF ifWaitingOnly /\ given < n /\ taken = Len(q) THEN given ELSE n
    IN  /\ Dequeue(s, q, taken)
        /\ net_count' = [net_count EXCEPT ![s] = @ + released - given]
        /\ count' = [count EXCEPT ![s] = @ + released + dropped]
        /\ units' = [units EXCEPT ![s] = @ + released]

\* release_sem_etc() from an interrupt handler or a thread.
release_sem_etc(s, n, ifWaitingOnly) ==
    /\ used[s] /\ semLock[s] = None
    /\ net_count[s] + n <= MaxCount
    /\ ReleaseLocked(s, n, ifWaitingOnly)
    /\ UNCHANGED <<semLock, slotVars, pc, callVars>>

\* The same with B_RELEASE_ALL.
ReleaseAll(s) ==
    /\ used[s] /\ semLock[s] = None
    /\ net_count[s] # count[s]
    /\ ReleaseLocked(s, net_count[s] - count[s], TRUE)
    /\ UNCHANGED <<semLock, slotVars, pc, callVars>>

-----------------------------------------------------------------------------
(* Acquiring *)

Arguments(t, r, s, n) ==
    /\ sem' = [sem EXCEPT ![t] = IdOf(s)]
    /\ amount' = [amount EXCEPT ![t] = n]
    /\ toRelease' = [toRelease EXCEPT ![t] = r]

\* switch_sem_etc(), up to blocking.  acquire_sem_etc() is the case r = None.
switch_sem_etc(t, r, s, n) ==
    /\ pc[t] = "idle"
    /\ used[s] /\ semLock[s] = None
    /\ \/ \* there are enough units
          /\ count[s] >= n
          /\ count' = [count EXCEPT ![s] = @ - n]
          /\ net_count' = [net_count EXCEPT ![s] = @ - n]
          /\ units' = [units EXCEPT ![s] = @ - n]
          /\ UNCHANGED <<wait, queue, queued, semLock, pc, callVars>>
       \/ \* a signal is pending; the other semaphore is released with semLock[s]
          /\ count[s] < n
          /\ t \in Interruptible
          /\ IF r = None THEN UNCHANGED <<semLock, pc, callVars>>
             ELSE /\ semLock' = [semLock EXCEPT ![s] = t]
                  /\ Arguments(t, r, s, n)
                  /\ Goto(t, "interrupted")
          /\ UNCHANGED <<wait, semVars, queued, units>>
       \/ /\ count[s] < n
          /\ count' = [count EXCEPT ![s] = @ - n]
          /\ queue' = [queue EXCEPT ![s] = Append(@, [thread |-> t, count |-> n])]
          /\ queued' = [queued EXCEPT ![t] = TRUE]
          /\ wait' = thread_prepare_to_block(wait, t)
          /\ Arguments(t, r, s, n)
          /\ Goto(t, IF r = None THEN "blocked" ELSE "switching")
          /\ UNCHANGED <<net_count, semLock, units>>
    /\ UNCHANGED slotVars

\* release_sem_etc(semToBeReleased, 1, B_DO_NOT_RESCHEDULE)
ReleaseOther(t) ==
    LET r == toRelease[t] IN
    /\ semLock[r.slot] = None
    /\ toRelease' = [toRelease EXCEPT ![t] = None]
    /\ IF Valid(r) THEN ReleaseLocked(r.slot, 1, FALSE)
       ELSE UNCHANGED <<wait, semVars, queued, units>>
    /\ UNCHANGED slotVars

SwitchReleases(t) ==
    /\ pc[t] = "switching"
    /\ ReleaseOther(t)
    /\ Goto(t, "blocked")
    /\ UNCHANGED <<semLock, sem, amount>>

InterruptedReleases(t) ==
    /\ pc[t] = "interrupted"
    /\ ReleaseOther(t)
    /\ Return(t)
    /\ semLock' = [semLock EXCEPT ![sem[t].slot] = None]

\* The timer of thread_block_with_timeout(), or a signal.
WaitFails(t) ==
    /\ pc[t] \in {"blocked", "switching"}
    /\ thread_is_blocked(wait, t)
    /\ \/ t \in Timed /\ wait' = thread_unblock(wait, t, B_TIMED_OUT)
       \/ t \in Interruptible /\ wait' = thread_unblock(wait, t, B_INTERRUPTED)
    /\ UNCHANGED <<semVars, semLock, slotVars, queued, pc, callVars, units>>

remove_thread_from_sem(t, s) ==
    LET at == CHOOSE i \in 1..Len(queue[s]) : queue[s][i].thread = t
        q == Without(queue[s], at)
        taken == TakenOff(q, net_count[s], CountOf(q, 1..Len(q)) + 1)
    IN  /\ wait' = UnblockAll(wait, {q[i].thread : i \in StillWaiting(q, taken)}, B_OK)
        /\ queue' = [queue EXCEPT ![s] = SubSeq(q, taken + 1, Len(q))]
        /\ queued' = [u \in Threads |-> queued[u] /\ u # t
                                       /\ ~\E i \in 1..taken : q[i].thread = u]
        /\ net_count' = [net_count EXCEPT ![s] = @ - CountOf(q, StillWaiting(q, taken))]
        /\ count' = [count EXCEPT ![s] = @ + amount[t] + CountOf(q, Failed(q, taken))]

\* The rest of switch_sem_etc().
BlockReturns(t) ==
    LET s == sem[t].slot IN
    /\ pc[t] = "blocked" /\ Unblocked(t)
    /\ semLock[s] = None
    /\ IF queued[t] THEN remove_thread_from_sem(t, s)
       ELSE UNCHANGED <<wait, semVars, queued>>
    /\ units' = IF wait[t] = B_OK /\ Valid(sem[t])
                THEN [units EXCEPT ![s] = @ - amount[t]] ELSE units
    /\ Return(t)
    /\ UNCHANGED <<semLock, slotVars, toRelease>>

-----------------------------------------------------------------------------
(* Creating and deleting *)

\* An id comes back after 2^31 / sMaxSems deletions of its slot; no call takes that long.
\* Semaphores start with no unit or more; the code lets them start with less.
create_sem_etc(n) ==
    LET s == Head(free) IN
    /\ free # <<>>
    /\ \A t \in Threads : pc[t] # "idle" => sem[t] # IdOf(s)
    /\ semLock[s] = None
    /\ free' = Tail(free)
    /\ used' = [used EXCEPT ![s] = TRUE]
    /\ count' = [count EXCEPT ![s] = n]
    /\ net_count' = [net_count EXCEPT ![s] = n]
    /\ queue' = [queue EXCEPT ![s] = <<>>]
    /\ units' = [units EXCEPT ![s] = n]
    /\ UNCHANGED <<wait, semLock, generation, queued, pc, callVars>>

\* Mutants: the queue is forgotten; the id is not checked.
DeleteWithoutWake(t, s) ==
    /\ pc[t] = "idle"
    /\ used[s] /\ semLock[s] = None
    /\ queue' = [queue EXCEPT ![s] = <<>>]
    /\ used' = [used EXCEPT ![s] = FALSE]
    /\ sem' = [sem EXCEPT ![t] = IdOf(s)]
    /\ Goto(t, "freeing")
    /\ UNCHANGED <<wait, queued, count, net_count, semLock, generation, free, amount,
                   toRelease, units>>

DeleteUnchecked(t, s) ==
    /\ pc[t] = "idle"
    /\ semLock[s] = None /\ queue[s] = <<>>
    /\ used' = [used EXCEPT ![s] = FALSE]
    /\ sem' = [sem EXCEPT ![t] = IdOf(s)]
    /\ Goto(t, "freeing")
    /\ UNCHANGED <<wait, queue, queued, count, net_count, semLock, generation, free,
                   amount, toRelease, units>>

\* delete_sem_internal() up to the unlocking in uninit_sem_locked() ...
delete_sem_internal(t, s) ==
    /\ pc[t] = "idle"
    /\ used[s] /\ semLock[s] = None
    /\ wait' = UnblockAll(wait, {queue[s][i].thread : i \in 1..Len(queue[s])}, B_ERROR)
    /\ queued' = [u \in Threads |-> queued[u] /\ ~\E i \in 1..Len(queue[s]) :
                                                        queue[s][i].thread = u]
    /\ queue' = [queue EXCEPT ![s] = <<>>]
    /\ used' = [used EXCEPT ![s] = FALSE]
    /\ sem' = [sem EXCEPT ![t] = IdOf(s)]
    /\ Goto(t, "freeing")
    /\ UNCHANGED <<count, net_count, semLock, generation, free, amount, toRelease, units>>

\* ... and its rest: the slot gets the next id, the first one again when that would be
\* negative, and goes to the end of the free list.
free_sem_slot(t) ==
    LET s == sem[t].slot IN
    /\ pc[t] = "freeing"
    /\ generation' = [generation EXCEPT ![s] = (sem[t].generation + 1) % (MaxGeneration + 1)]
    /\ free' = Append(free, s)
    /\ Return(t)
    /\ UNCHANGED <<wait, semVars, semLock, used, queued, toRelease, units>>

-----------------------------------------------------------------------------

Continue(t) == SwitchReleases(t) \/ InterruptedReleases(t) \/ BlockReturns(t)
               \/ free_sem_slot(t)

Release(s) ==
    \E n \in Counts : release_sem_etc(s, n, FALSE) \/ release_sem_etc(s, n, TRUE)

Next ==
    \/ \E s \in Slots : Release(s) \/ ReleaseAll(s)
    \/ \E n \in 0..MaxCount : create_sem_etc(n)
    \/ \E t \in Threads :
          \/ Continue(t) \/ WaitFails(t)
          \/ \E s \in Slots, n \in Counts : switch_sem_etc(t, None, s, n)
          \/ \E p \in Switches : /\ used[p[1]] /\ net_count[p[1]] < MaxCount
                                 /\ switch_sem_etc(t, IdOf(p[1]), p[2], 1)
          \/ \E s \in Slots : delete_sem_internal(t, s)

Spec == Init /\ [][Next]_vars

\* Fairness: a runnable thread is scheduled, and each semaphore is released again as
\* long as it has no units.
FairSpec ==
    /\ Spec
    /\ \A t \in Threads : WF_vars(Continue(t))
    /\ \A s \in Slots : WF_vars(release_sem_etc(s, 1, FALSE))

-----------------------------------------------------------------------------
(* Properties *)

\* t waits in switch_sem_etc(), or is about to.
Waits(t) == pc[t] \in {"blocked", "switching"}

\* sem_entry: "net_count: count + acquisition count of all blocked threads", and
\* queued_thread::queued tells who is in the queue.
CountsAgree ==
    \A s \in Slots : used[s] =>
        /\ net_count[s] = count[s] + CountOf(queue[s], 1..Len(queue[s]))
        /\ \A t \in Threads :
              Cardinality({i \in 1..Len(queue[s]) : queue[s][i].thread = t})
              = IF queued[t] /\ sem[t] = IdOf(s) THEN 1 ELSE 0

\* No unit is lost and none is acquired twice, whatever timeouts, interruptions and
\* releases race: net_count is what was created and released less what was acquired, by
\* calls that returned B_OK or are about to.
UnitsConserved ==
    \A s \in Slots : used[s] =>
        units[s] = net_count[s]
                   + UnitsOf(amount, {t \in Threads : Waits(t) /\ sem[t] = IdOf(s)
                                                     /\ wait[t] = B_OK})

\* Whoever sleeps is queued at a semaphore that exists: no deletion forgets a thread.
SleepersQueued ==
    \A t \in Threads :
        Waits(t) /\ thread_is_blocked(wait, t) =>
            queued[t] /\ Valid(sem[t])

\* Each slot is in use, on the free list once, or about to be put there by one thread.
SlotsAccounted ==
    \A s \in Slots :
        Cardinality({i \in 1..Len(free) : free[i] = s})
        + Cardinality({t \in Threads : pc[t] = "freeing" /\ sem[t].slot = s})
        = IF used[s] THEN 0 ELSE 1

\* "Forcibly removes a thread from a semaphores wait queue.  May have to wake up other
\* threads in the process": the first thread of a queue does not sleep when there are
\* enough units for it.
HeadNotSatisfied ==
    \A s \in Slots : used[s] /\ queue[s] # <<>> =>
        LET e == Head(queue[s]) IN
        thread_is_blocked(wait, e.thread) => e.count > net_count[s]

\* Who waits for a semaphore that is released again and again gets it.  A thread that was
\* left asleep by one release (see HeadNotSatisfied) is woken by a later one.
AcquireReturns ==
    \A t \in Threads : pc[t] = "blocked" ~> pc[t] = "idle"
=============================================================================
