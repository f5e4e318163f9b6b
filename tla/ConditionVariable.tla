------------------------- MODULE ConditionVariable -------------------------
(***************************************************************************)
(* The kernel's condition variables                                        *)
(* (src/system/kernel/condition_variable.cpp and its header).              *)
(*                                                                         *)
(* One variable, published under an object, and one entry per thread.  An  *)
(* entry lives on the stack of the thread that waits, so nobody may touch  *)
(* it once Wait() has returned; the variable belongs to who unpublishes    *)
(* it, so nobody may touch it once Unpublish() has returned.  Three kinds  *)
(* of spinlock are involved: that of the hash table, that of the variable  *)
(* and that of each entry.  Wait() takes the entry's and then the          *)
(* variable's; a notifier lets go of the variable's before it takes the    *)
(* entry's.  A critical section is an action when it takes no second lock  *)
(* inside; where it does, the lock it keeps is a variable of the model.    *)
(*                                                                         *)
(* The clients, as the header asks of them, do not unpublish a variable    *)
(* that they are notifying or adding entries to directly, and wait for     *)
(* what they have added.                                                   *)
(***************************************************************************)
EXTENDS ThreadBlocking, WaitQueue

CONSTANTS
    WaitThreads,     \* the threads that wait for the variable
    NotifyThreads,   \* the threads that notify, publish and unpublish it
    Nobody           \* a free lock

ASSUME ConditionVariableAssumption ==
    /\ WaitThreads \subseteq Threads
    /\ NotifyThreads \subseteq Threads
    /\ Nobody \notin Threads

VARIABLES
    published,     \* the variable is in sConditionVariableHash
    hashReaders,   \* who has sConditionVariableHashLock for reading ...
    hashWriter,    \* ... and for writing
    fEntries,      \* ConditionVariable::fEntries: threads, by their entries
    fLock,         \* ConditionVariable::fLock: who has it between two actions
    entryLock,     \* ConditionVariableEntry::fLock, the same
    fVariable,     \* fVariable[t]: ConditionVariableEntry::fVariable # NULL
    fWaitStatus,   \* ConditionVariableEntry::fWaitStatus
    pc,            \* pc[t]: where in the code t is
    entry,         \* entry[t]: the entry in the hands of notifier t
    all, result    \* the arguments of _NotifyLocked()

hashVars == <<published, hashReaders, hashWriter>>
entryVars == <<fVariable, fWaitStatus>>
notifyVars == <<entry, all, result>>
vars == <<wait, hashVars, fEntries, fLock, entryLock, entryVars, pc, notifyVars>>

STATUS_ADDED   == "added"
STATUS_WAITING == "waiting"
B_ENTRY_NOT_FOUND == B_ERROR

Waiters == {"add", "added", "blocked", "leave", "spin"}
Notifiers == {"notify", "notifyEntry", "notifyNext"}
Steps == {"idle", "unpublish"} \cup Waiters \cup Notifiers

TypeOK ==
    /\ WaitTypeOK
    /\ published \in BOOLEAN
    /\ hashReaders \subseteq Threads
    /\ hashWriter \in Threads \cup {Nobody}
    /\ fEntries \in Seq(Threads)
    /\ fLock \in Threads \cup {Nobody}
    /\ entryLock \in [Threads -> Threads \cup {Nobody}]
    /\ fVariable \in [Threads -> BOOLEAN]
    /\ fWaitStatus \in [Threads -> Results \cup {STATUS_ADDED, STATUS_WAITING}]
    /\ pc \in [Threads -> Steps]
    /\ entry \in [Threads -> Threads \cup {Nobody}]
    /\ all \in [Threads -> BOOLEAN]
    /\ result \in [Threads -> Results]

Init ==
    /\ wait = NoWaits
    /\ published = FALSE /\ hashReaders = {} /\ hashWriter = Nobody
    /\ fEntries = <<>> /\ fLock = Nobody
    /\ entryLock = [t \in Threads |-> Nobody]
    /\ fVariable = [t \in Threads |-> FALSE]
    /\ fWaitStatus = [t \in Threads |-> B_OK]
    /\ pc = [t \in Threads |-> "idle"]
    /\ entry = [t \in Threads |-> Nobody]
    /\ all = [t \in Threads |-> FALSE]
    /\ result = [t \in Threads |-> B_OK]

Goto(t, step) == pc' = [pc EXCEPT ![t] = step]

InEntries(t) == t \in Members(fEntries)

\* No client that has to keep the variable published is at work.
Unused == \A t \in Threads : pc[t] \notin Notifiers \cup {"unpublish"}

-----------------------------------------------------------------------------
(* Publish and Unpublish *)

Publish(t) ==
    /\ pc[t] = "idle"
    /\ ~published /\ Unused
    /\ hashReaders = {} /\ hashWriter = Nobody
    /\ published' = TRUE
    /\ fEntries' = <<>> /\ fLock' = Nobody
    /\ UNCHANGED <<wait, hashReaders, hashWriter, entryLock, entryVars, pc, notifyVars>>

\* Unpublish() takes the hash table's lock ...
Unpublish(t) ==
    /\ pc[t] = "idle"
    /\ published /\ Unused
    /\ hashReaders = {} /\ hashWriter = Nobody
    /\ hashWriter' = t
    /\ Goto(t, "unpublish")
    /\ UNCHANGED <<wait, published, hashReaders, fEntries, fLock, entryLock, entryVars,
                   notifyVars>>

\* Mutant: all entries are taken off the list at once, and one is notified.
NotifyDropsRest(t) ==
    IF fEntries = <<>>
    THEN Goto(t, "idle") /\ UNCHANGED <<fEntries, entry>>
    ELSE /\ Goto(t, "notifyEntry")
         /\ entry' = [entry EXCEPT ![t] = Head(fEntries)]
         /\ fEntries' = <<>>

\* _NotifyLocked(), with fLock: take the first entry off the list, if there is one and
\* more has to be notified, and let go of fLock.
NotifyHead(t) ==
    IF fEntries = <<>>
    THEN Goto(t, "idle") /\ UNCHANGED <<fEntries, entry>>
    ELSE /\ Goto(t, "notifyEntry")
         /\ entry' = [entry EXCEPT ![t] = Head(fEntries)]
         /\ fEntries' = Tail(fEntries)

\* ... then the variable's, removes the variable from the table and wakes everybody.
UnpublishLocked(t) ==
    /\ pc[t] = "unpublish"
    /\ fLock = Nobody
    /\ published' = FALSE
    /\ hashWriter' = Nobody
    /\ all' = [all EXCEPT ![t] = TRUE]
    /\ result' = [result EXCEPT ![t] = B_ENTRY_NOT_FOUND]
    /\ NotifyHead(t)
    /\ UNCHANGED <<wait, hashReaders, fLock, entryLock, entryVars>>

-----------------------------------------------------------------------------
(* Notify *)

\* Mutant: a positive result is passed on.
NotifyInvalidResult(t, isAll) ==
    /\ pc[t] = "idle"
    /\ published
    /\ \A u \in Threads : pc[u] # "unpublish"
    /\ all' = [all EXCEPT ![t] = isAll]
    /\ result' = [result EXCEPT ![t] = Waiting]
    /\ Goto(t, "notify")
    /\ UNCHANGED <<wait, hashVars, fEntries, fLock, entryLock, entryVars, entry>>

\* NotifyOne() and NotifyAll(): the caller knows that the variable stays published,
\* so it does not matter whether it is looked up or given.
Notify(t, isAll) ==
    /\ pc[t] = "idle"
    /\ published
    /\ \A u \in Threads : pc[u] # "unpublish"
    /\ all' = [all EXCEPT ![t] = isAll]
    /\ result' = [result EXCEPT ![t] = B_OK]
    /\ Goto(t, "notify")
    /\ UNCHANGED <<wait, hashVars, fEntries, fLock, entryLock, entryVars, entry>>

\* _Notify()
_Notify(t) ==
    /\ pc[t] = "notify"
    /\ fLock = Nobody
    /\ NotifyHead(t)
    /\ UNCHANGED <<wait, hashVars, fLock, entryLock, entryVars, all, result>>

\* Mutant: fVariable keeps pointing to the variable.
NotifyWithoutReset(t) ==
    LET e == entry[t] IN
    /\ pc[t] = "notifyEntry"
    /\ entryLock[e] = Nobody
    /\ wait' = IF fWaitStatus[e] = STATUS_WAITING
               THEN thread_unblock(wait, e, result[t]) ELSE wait
    /\ fWaitStatus' = [fWaitStatus EXCEPT ![e] = result[t]]
    /\ entry' = [entry EXCEPT ![t] = Nobody]
    /\ Goto(t, "notifyNext")
    /\ UNCHANGED <<hashVars, fEntries, fLock, entryLock, fVariable, all, result>>

\* The body of the loop in _NotifyLocked(), with the lock of the entry.  An entry in the list
\* is added or waiting, so the branch that skips others (fWaitStatus <= 0) is not taken.
NotifyEntry(t) ==
    LET e == entry[t] IN
    /\ pc[t] = "notifyEntry"
    /\ entryLock[e] = Nobody
    /\ fVariable' = [fVariable EXCEPT ![e] = FALSE]
    /\ fWaitStatus[e] \in {STATUS_ADDED, STATUS_WAITING}
    /\ wait' = IF fWaitStatus[e] = STATUS_WAITING
               THEN thread_unblock(wait, e, result[t]) ELSE wait
    /\ fWaitStatus' = [fWaitStatus EXCEPT ![e] = result[t]]
    /\ entry' = [entry EXCEPT ![t] = Nobody]
    /\ Goto(t, "notifyNext")
    /\ UNCHANGED <<hashVars, fEntries, fLock, entryLock, all, result>>

NotifyNext(t) ==
    /\ pc[t] = "notifyNext"
    /\ fLock = Nobody
    /\ \/ all[t] /\ NotifyHead(t)
       \/ ~all[t] /\ Goto(t, "idle") /\ UNCHANGED <<fEntries, entry>>
    /\ UNCHANGED <<wait, hashVars, fLock, entryLock, entryVars, all, result>>

-----------------------------------------------------------------------------
(* Add and Wait *)

\* Mutant: the hash table's lock is released before the variable's is taken.
AddWithoutHashLock(t) ==
    /\ pc[t] = "idle"
    /\ hashWriter = Nobody
    /\ published
    /\ Goto(t, "add")
    /\ UNCHANGED <<wait, hashVars, fEntries, fLock, entryLock, entryVars, notifyVars>>

\* ConditionVariableEntry::Add(object): look the variable up; when it is not there
\* the call fails.
AddByObject(t) ==
    /\ pc[t] = "idle"
    /\ hashWriter = Nobody
    /\ \/ /\ published
          /\ hashReaders' = hashReaders \cup {t}
          /\ Goto(t, "add")
          /\ UNCHANGED fWaitStatus
       \/ /\ ~published
          /\ fWaitStatus' = [fWaitStatus EXCEPT ![t] = B_ENTRY_NOT_FOUND]
          /\ UNCHANGED <<hashReaders, pc>>
    /\ UNCHANGED <<wait, published, hashWriter, fEntries, fLock, entryLock, fVariable,
                   notifyVars>>

AddToLockedVariable(t) ==
    /\ fLock = Nobody
    /\ fVariable' = [fVariable EXCEPT ![t] = TRUE]
    /\ fWaitStatus' = [fWaitStatus EXCEPT ![t] = STATUS_ADDED]
    /\ fEntries' = Append(fEntries, t)
    /\ Goto(t, "added")

\* The rest of it: the variable's lock is taken before the hash table's is released.
AddFound(t) ==
    /\ pc[t] = "add"
    /\ AddToLockedVariable(t)
    /\ hashReaders' = hashReaders \ {t}
    /\ UNCHANGED <<wait, published, hashWriter, fLock, entryLock, notifyVars>>

\* ConditionVariable::Add()
Add(t) ==
    /\ pc[t] = "idle"
    /\ published
    /\ \A u \in Threads : pc[u] # "unpublish"
    /\ AddToLockedVariable(t)
    /\ UNCHANGED <<wait, hashVars, fLock, entryLock, notifyVars>>

\* Mutant: Wait() does not look whether the entry was notified before.
WaitRegardless(t) ==
    /\ pc[t] = "added"
    /\ entryLock[t] = Nobody
    /\ wait' = thread_prepare_to_block(wait, t)
    /\ fWaitStatus' = [fWaitStatus EXCEPT ![t] = STATUS_WAITING]
    /\ Goto(t, "blocked")
    /\ UNCHANGED <<hashVars, fEntries, fLock, entryLock, fVariable, notifyVars>>

\* ConditionVariableEntry::Wait(), up to blocking; it returns at once when the entry
\* was notified before.
Wait(t) ==
    /\ pc[t] = "added"
    /\ entryLock[t] = Nobody
    /\ \/ /\ ~fVariable[t]
          /\ Goto(t, "idle")
          /\ UNCHANGED <<wait, fWaitStatus>>
       \/ /\ fVariable[t]
          /\ wait' = thread_prepare_to_block(wait, t)
          /\ fWaitStatus' = [fWaitStatus EXCEPT ![t] = STATUS_WAITING]
          /\ Goto(t, "blocked")
    /\ UNCHANGED <<hashVars, fEntries, fLock, entryLock, fVariable, notifyVars>>

TimerFires(t) ==
    /\ pc[t] = "blocked"
    /\ thread_block_timeout(t)
    /\ UNCHANGED <<hashVars, fEntries, fLock, entryLock, entryVars, pc, notifyVars>>

\* thread_block() returns: take the entry's lock.  Without a notification the entry
\* has to leave the list, and its lock is kept for that.
BlockReturns(t) ==
    /\ pc[t] = "blocked" /\ Unblocked(t)
    /\ entryLock[t] = Nobody
    /\ \/ ~fVariable[t] /\ Goto(t, "idle") /\ UNCHANGED entryLock
       \/ fVariable[t] /\ Goto(t, "leave") /\ entryLock' = [entryLock EXCEPT ![t] = t]
    /\ UNCHANGED <<wait, hashVars, fEntries, fLock, entryVars, notifyVars>>

\* Mutants: return at once although a notifier has the entry; keep the lock of the
\* entry while spinning.
LeaveWithoutSpin(t) ==
    /\ pc[t] = "leave"
    /\ fLock = Nobody
    /\ entryLock' = [entryLock EXCEPT ![t] = Nobody]
    /\ fEntries' = SelectSeq(fEntries, LAMBDA e : e # t)
    /\ fVariable' = [fVariable EXCEPT ![t] = FALSE]
    /\ Goto(t, "idle")
    /\ UNCHANGED <<wait, hashVars, fLock, fWaitStatus, notifyVars>>

LeaveKeepsEntryLock(t) ==
    /\ pc[t] = "leave"
    /\ fLock = Nobody
    /\ \/ /\ \E i \in 1..Len(fEntries) :
                fEntries[i] = t /\ fEntries' = Without(fEntries, i)
          /\ fVariable' = [fVariable EXCEPT ![t] = FALSE]
          /\ entryLock' = [entryLock EXCEPT ![t] = Nobody]
          /\ Goto(t, "idle")
          /\ UNCHANGED fLock
       \/ /\ ~InEntries(t)
          /\ fLock' = t
          /\ Goto(t, "spin")
          /\ UNCHANGED <<fEntries, fVariable, entryLock>>
    /\ UNCHANGED <<wait, hashVars, fWaitStatus, notifyVars>>

\* With the variable's lock as well: remove the entry from the list.  If it is not
\* there, a notifier has it: let go of the entry's lock, and keep the variable's.
Leave(t) ==
    /\ pc[t] = "leave"
    /\ fLock = Nobody
    /\ entryLock' = [entryLock EXCEPT ![t] = Nobody]
    /\ \/ /\ \E i \in 1..Len(fEntries) :
                fEntries[i] = t /\ fEntries' = Without(fEntries, i)
          /\ fVariable' = [fVariable EXCEPT ![t] = FALSE]
          /\ Goto(t, "idle")
          /\ UNCHANGED fLock
       \/ /\ ~InEntries(t)
          /\ fLock' = t
          /\ Goto(t, "spin")
          /\ UNCHANGED <<fEntries, fVariable>>
    /\ UNCHANGED <<wait, hashVars, fWaitStatus, notifyVars>>

\* Spin until the notifier has reset fVariable, and wait for it to let go of the entry.
Spin(t) ==
    /\ pc[t] = "spin"
    /\ ~fVariable[t]
    /\ entryLock[t] = Nobody
    /\ fLock' = Nobody
    /\ Goto(t, "idle")
    /\ UNCHANGED <<wait, hashVars, fEntries, entryLock, entryVars, notifyVars>>

-----------------------------------------------------------------------------

Continue(t) ==
    \/ UnpublishLocked(t)
    \/ _Notify(t) \/ NotifyEntry(t) \/ NotifyNext(t)
    \/ AddFound(t) \/ Wait(t)
    \/ BlockReturns(t) \/ Leave(t) \/ Spin(t)

Call(t) ==
    \/ /\ t \in NotifyThreads
       /\ Publish(t) \/ Unpublish(t) \/ Notify(t, FALSE) \/ Notify(t, TRUE)
    \/ /\ t \in WaitThreads
       /\ AddByObject(t) \/ Add(t)

Next == \E t \in Threads : Continue(t) \/ Call(t) \/ TimerFires(t)

Spec == Init /\ [][Next]_vars

\* Fairness: a thread inside of this code is scheduled until it is out of it.
FairSpec == Spec /\ \A t \in Threads : WF_vars(Continue(t))

-----------------------------------------------------------------------------
(* Properties *)

\* "It is possible we will be destroyed immediately upon returning here": the entry in
\* the hands of a notifier belongs to a thread that has not returned from Wait(), and
\* only one notifier has it.
EntryInUseExists ==
    \A n \in Threads : pc[n] = "notifyEntry" =>
        /\ pc[entry[n]] \in {"added", "blocked", "leave", "spin"}
        /\ fVariable[entry[n]]
        /\ ~InEntries(entry[n])
        /\ \A m \in Threads \ {n} : pc[m] = "notifyEntry" => entry[m] # entry[n]

\* When Unpublish() has returned, its caller may free the variable: nobody holds its
\* lock or is about to take it, and no entry points to it.
UnpublishedUnused ==
    ~published /\ Unused =>
        /\ fEntries = <<>> /\ fLock = Nobody
        /\ \A t \in Threads : ~fVariable[t] /\ pc[t] \notin {"add", "leave", "spin"}

\* An entry that waits for the variable is in its list or in the hands of a notifier:
\* no notification can miss it.
EntryReachable ==
    \A t \in Threads : fVariable[t] =>
        \/ InEntries(t)
        \/ \E n \in Threads : pc[n] = "notifyEntry" /\ entry[n] = t

\* _NotifyLocked() wakes the thread or Wait() never blocks: an entry that was notified
\* belongs to no blocked thread, whether Wait() was called before or after.
NotifiedDoesNotBlock ==
    \A t \in Threads : pc[t] \in {"added", "blocked"} /\ ~fVariable[t] =>
        /\ fWaitStatus[t] \in Results
        /\ pc[t] = "blocked" => Unblocked(t)

\* Wait() tells the truth: it returns what a notifier has passed, or a timeout.
WaitResultIsNotified ==
    \A t \in Threads : pc[t] = "blocked" /\ wait[t] \in {B_OK, B_ENTRY_NOT_FOUND} =>
        ~fVariable[t] /\ fWaitStatus[t] = wait[t]

\* Once an entry is off the list its Wait() returns: the notifier and the waiter that
\* spins with the variable's lock do not wait for each other.
NotifiedReturns ==
    \A t \in Threads :
        (pc[t] \in {"blocked", "leave", "spin"} /\ ~InEntries(t)) ~> pc[t] = "idle"

\* Unpublish() comes to an end.
UnpublishReturns ==
    \A t \in Threads : pc[t] = "unpublish" ~> pc[t] = "idle"
=============================================================================
