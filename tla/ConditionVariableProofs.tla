----------------------- MODULE ConditionVariableProofs -----------------------
(***************************************************************************)
(* What TLAPS proves about ConditionVariable, for any sets of waiting and  *)
(* notifying threads.                                                      *)
(***************************************************************************)
EXTENDS ConditionVariable, TLAPS

-----------------------------------------------------------------------------
(* Queues *)

\* Removing the i-th entry of a sequence gives a sequence one shorter.
LEMMA WithoutType ==
    ASSUME NEW S, NEW q \in Seq(S), NEW i \in 1..Len(q)
    PROVE  /\ Without(q, i) \in Seq(S)
           /\ Len(Without(q, i)) = Len(q) - 1
           /\ \A j \in 1..(Len(q) - 1) :
                 Without(q, i)[j] = IF j < i THEN q[j] ELSE q[j + 1]
<1>1. Len(q) \in Nat /\ Len(q) - 1 \in Nat
  OBVIOUS
<1>2. \A j \in 1..(Len(q) - 1) : (IF j < i THEN q[j] ELSE q[j + 1]) \in S
  BY <1>1
<1>3. Without(q, i) \in [1..(Len(q) - 1) -> S]
  BY <1>2 DEF Without
<1>4. Without(q, i) \in Seq(S)
  BY <1>1, <1>3
<1>5. Len(Without(q, i)) = Len(q) - 1
  BY <1>1, <1>3, <1>4
<1>6. QED
  BY <1>4, <1>5 DEF Without

\* The entries of a sequence without its head.
LEMMA TailEntries ==
    ASSUME NEW S, NEW q \in Seq(S), q # <<>>
    PROVE  /\ Len(q) \in Nat \ {0}
           /\ Tail(q) \in Seq(S)
           /\ Len(Tail(q)) = Len(q) - 1
           /\ \A i \in 1..(Len(q) - 1) : Tail(q)[i] = q[i + 1]
           /\ Head(q) = q[1] /\ Head(q) \in S
OBVIOUS

\* A queue without duplicates stays so when a new thread joins it.
LEMMA DistinctAppend ==
    ASSUME NEW S, NEW q \in Seq(S), NEW x \in S, Distinct(q),
           \A i \in 1..Len(q) : q[i] # x
    PROVE  Distinct(Append(q, x))
BY DEF Distinct

\* A queue without duplicates stays so when its first thread leaves it, which is then in it no more.
LEMMA DistinctTail ==
    ASSUME NEW S, NEW q \in Seq(S), q # <<>>, Distinct(q)
    PROVE  /\ Distinct(Tail(q))
           /\ \A i \in 1..Len(Tail(q)) : Tail(q)[i] # Head(q)
BY DEF Distinct

\* A queue without duplicates stays so when any of its threads leaves it.
LEMMA DistinctWithout ==
    ASSUME NEW S, NEW q \in Seq(S), NEW i \in 1..Len(q), Distinct(q)
    PROVE  /\ Distinct(Without(q, i))
           /\ \A j \in 1..Len(Without(q, i)) : Without(q, i)[j] # q[i]
<1> DEFINE w == Without(q, i)
<1>1. /\ Len(w) = Len(q) - 1
      /\ \A j \in 1..(Len(q) - 1) : w[j] = IF j < i THEN q[j] ELSE q[j + 1]
  BY WithoutType
<1> HIDE DEF w
<1>2. Distinct(w)
  BY <1>1, SMTT(20) DEF Distinct
<1>3. \A j \in 1..Len(w) : w[j] # q[i]
  BY <1>1 DEF Distinct
<1>4. QED
  BY <1>2, <1>3 DEF w

\* Who joins the end of a queue is in it then, along with those before.
LEMMA MembersAppend ==
    ASSUME NEW S, NEW q \in Seq(S), NEW x \in S
    PROVE  Members(Append(q, x)) = Members(q) \cup {x}
<1> DEFINE r == Append(q, x)
<1>1. /\ Len(q) \in Nat /\ Len(r) = Len(q) + 1 /\ r[Len(q) + 1] = x
      /\ \A i \in 1..Len(q) : r[i] = q[i]
  OBVIOUS
<1> HIDE DEF r
<1>2. ASSUME NEW y \in Members(r) PROVE y \in Members(q) \cup {x}
  <2>1. PICK i \in 1..Len(r) : y = r[i]
    BY DEF Members
  <2>2. CASE i = Len(q) + 1
    BY <1>1, <2>1, <2>2
  <2>3. CASE i # Len(q) + 1
    BY <1>1, <2>1, <2>3 DEF Members
  <2>4. QED
    BY <2>2, <2>3
<1>3. ASSUME NEW y \in Members(q) PROVE y \in Members(r)
  <2>1. PICK i \in 1..Len(q) : y = q[i]
    BY DEF Members
  <2>2. QED
    BY <1>1, <2>1 DEF Members
<1>4. x \in Members(r)
  BY <1>1 DEF Members
<1>5. QED
  BY <1>2, <1>3, <1>4 DEF r

\* The head of a queue without duplicates is not in its tail, and all others are.
LEMMA MembersTail ==
    ASSUME NEW S, NEW q \in Seq(S), q # <<>>, Distinct(q)
    PROVE  Head(q) \in Members(q) /\ Members(Tail(q)) = Members(q) \ {Head(q)}
<1> DEFINE r == Tail(q)
           h == Head(q)
<1>1. /\ Len(q) \in Nat \ {0} /\ Len(r) = Len(q) - 1 /\ h = q[1]
      /\ \A i \in 1..Len(r) : r[i] = q[i + 1]
  BY TailEntries
<1> HIDE DEF r, h
<1>2. h \in Members(q)
  BY <1>1 DEF Members
<1>3. ASSUME NEW y \in Members(r) PROVE y \in Members(q) \ {h}
  <2>1. PICK i \in 1..Len(r) : y = r[i]
    BY DEF Members
  <2>2. i + 1 \in 1..Len(q) /\ y = q[i + 1] /\ i + 1 # 1
    BY <1>1, <2>1
  <2>3. q[i + 1] # q[1]
    BY <1>1, <2>2 DEF Distinct
  <2>4. QED
    BY <1>1, <2>2, <2>3 DEF Members
<1>4. ASSUME NEW y \in Members(q) \ {h} PROVE y \in Members(r)
  <2>1. PICK i \in 1..Len(q) : y = q[i]
    BY DEF Members
  <2>2. i - 1 \in 1..Len(r) /\ r[i - 1] = y
    BY <1>1, <2>1
  <2>3. QED
    BY <2>2 DEF Members
<1>5. QED
  BY <1>2, <1>3, <1>4 DEF r, h

\* Who leaves a queue without duplicates is not in it then, and all others are.
LEMMA MembersWithout ==
    ASSUME NEW S, NEW q \in Seq(S), NEW k \in 1..Len(q), Distinct(q)
    PROVE  Members(Without(q, k)) = Members(q) \ {q[k]}
<1> DEFINE r == Without(q, k)
<1>1. /\ Len(q) \in Nat /\ Len(r) = Len(q) - 1
      /\ \A i \in 1..Len(r) : r[i] = IF i < k THEN q[i] ELSE q[i + 1]
  BY WithoutType
<1> HIDE DEF r
<1>2. ASSUME NEW y \in Members(r) PROVE y \in Members(q) \ {q[k]}
  <2>1. PICK i \in 1..Len(r) : y = r[i]
    BY DEF Members
  <2>2. \E j \in 1..Len(q) : j # k /\ y = q[j]
    <3>1. CASE i < k
      BY <1>1, <2>1, <3>1
    <3>2. CASE ~(i < k)
      <4>1. i + 1 \in 1..Len(q) /\ i + 1 # k /\ y = q[i + 1]
        BY <1>1, <2>1, <3>2
      <4>2. QED
        BY <4>1
    <3>3. QED
      BY <3>1, <3>2
  <2>3. PICK j \in 1..Len(q) : j # k /\ y = q[j]
    BY <2>2
  <2>4. y # q[k]
    BY <2>3 DEF Distinct
  <2>5. QED
    BY <2>3, <2>4 DEF Members
<1>3. ASSUME NEW y \in Members(q) \ {q[k]} PROVE y \in Members(r)
  <2>1. PICK i \in 1..Len(q) : y = q[i]
    BY DEF Members
  <2>2. i # k
    BY <2>1
  <2>3. CASE i < k
    <3>1. i \in 1..Len(r) /\ r[i] = y
      BY <1>1, <2>1, <2>3
    <3>2. QED
      BY <3>1 DEF Members
  <2>4. CASE i > k
    <3>1. i - 1 \in 1..Len(r) /\ r[i - 1] = y
      BY <1>1, <2>1, <2>4
    <3>2. QED
      BY <3>1 DEF Members
  <2>5. QED
    BY <1>1, <2>1, <2>2, <2>3, <2>4
<1>4. QED
  BY <1>2, <1>3 DEF r

-----------------------------------------------------------------------------
(***************************************************************************)
(* The inductive invariant.  EntryInUseExists needs to know where a thread *)
(* can be while its entry points to the variable, and who can hold which   *)
(* lock; UnpublishedUnused needs that one thread only takes the variable   *)
(* down and that it works on all entries.                                  *)
(***************************************************************************)

\* Where the thread of an entry is while the entry points to the variable, and that
\* a notifier has the entry of some thread.
Attached ==
    \A t \in Threads :
        /\ InEntries(t) => fVariable[t] /\ pc[t] \in {"added", "blocked", "leave"}
        /\ fVariable[t] =>
              /\ pc[t] \in {"added", "blocked", "leave", "spin"}
              /\ fWaitStatus[t] = IF pc[t] = "added" THEN STATUS_ADDED ELSE STATUS_WAITING
        /\ pc[t] = "leave" => fVariable[t]
        /\ pc[t] = "notifyEntry" => entry[t] \in Threads

\* Who has the locks between two actions.
Locks ==
    /\ \A t \in Threads : entryLock[t] = IF pc[t] = "leave" THEN t ELSE Nobody
    /\ \A t \in Threads : fLock = t <=> pc[t] = "spin"
    /\ \A t \in Threads : t \in hashReaders <=> pc[t] = "add"
    /\ \A t \in Threads : hashWriter = t <=> pc[t] = "unpublish"
    /\ hashWriter # Nobody => hashReaders = {}

\* A published variable is taken down by one thread, which notifies all entries.
OneUnpublisher ==
    /\ \A t \in Threads : pc[t] \in {"unpublish", "add"} => published
    /\ \A t, u \in Threads :
          pc[t] = "unpublish" /\ u # t => pc[u] \notin Notifiers \cup {"unpublish"}
    /\ ~published => \A t \in Threads : pc[t] \in Notifiers =>
          /\ pc[t] # "notify" /\ all[t]
          /\ \A u \in Threads : pc[u] \in Notifiers => u = t

IInv ==
    /\ TypeOK
    /\ Distinct(fEntries)
    /\ Attached
    /\ Locks
    /\ OneUnpublisher
    /\ EntryInUseExists
    /\ EntryReachable
    /\ NotifiedDoesNotBlock
    /\ WaitResultIsNotified
    /\ UnpublishedUnused

USE DEF WaitTypeOK, Results, Waiting, B_OK, B_ERROR, B_TIMED_OUT, B_INTERRUPTED,
        B_ENTRY_NOT_FOUND, STATUS_ADDED, STATUS_WAITING, Waiters, Notifiers, Steps,
        thread_is_blocked, Unblocked, InEntries, Unused, Goto,
        hashVars, entryVars, notifyVars

\* The invariant holds before the variable is published.
LEMMA InitIInv == Init => IInv
<1> SUFFICES ASSUME Init PROVE IInv
  OBVIOUS
<1> USE ConditionVariableAssumption DEF Init
<1>1. Members(fEntries) = {} /\ Distinct(fEntries)
  BY DEF Members, Distinct
<1>2. TypeOK
  <2>1. WaitTypeOK /\ fEntries \in Seq(Threads)
    BY DEF NoWaits
  <2>2. /\ fLock \in Threads \cup {Nobody}
        /\ entryLock \in [Threads -> Threads \cup {Nobody}]
        /\ hashReaders \subseteq Threads /\ hashWriter \in Threads \cup {Nobody}
        /\ entry \in [Threads -> Threads \cup {Nobody}]
    OBVIOUS
  <2>3. /\ published \in BOOLEAN /\ fVariable \in [Threads -> BOOLEAN]
        /\ all \in [Threads -> BOOLEAN]
    OBVIOUS
  <2>4. /\ fWaitStatus \in [Threads -> Results \cup {STATUS_ADDED, STATUS_WAITING}]
        /\ pc \in [Threads -> Steps] /\ result \in [Threads -> Results]
    OBVIOUS
  <2>5. QED
    BY <2>1, <2>2, <2>3, <2>4 DEF TypeOK
<1>3. Attached /\ Locks /\ OneUnpublisher
  BY <1>1 DEF Attached, Locks, OneUnpublisher
<1>4. EntryInUseExists /\ EntryReachable /\ NotifiedDoesNotBlock
  BY DEF EntryInUseExists, EntryReachable, NotifiedDoesNotBlock
<1>5. WaitResultIsNotified /\ UnpublishedUnused
  BY DEF WaitResultIsNotified, UnpublishedUnused
<1>6. QED
  BY <1>1, <1>2, <1>3, <1>4, <1>5 DEF IInv

\* A timeout ends the wait of a thread, not the membership of its entry.
LEMMA TimerFiresIInv ==
    ASSUME NEW t \in Threads, IInv, TimerFires(t)
    PROVE  IInv'
<1> USE ConditionVariableAssumption
        DEF TimerFires, thread_block_timeout, thread_unblock, IInv
<1>0. fEntries' = fEntries /\ Members(fEntries)' = Members(fEntries)
  BY DEF Members
<1>1. TypeOK'
  BY <1>0 DEF TypeOK
<1>2. Distinct(fEntries)'
  BY <1>0 DEF Distinct
<1>3. Attached'
  BY <1>0 DEF Attached
<1>4. Locks'
  BY <1>0 DEF Locks
<1>5. OneUnpublisher'
  BY <1>0 DEF OneUnpublisher
<1>6. EntryInUseExists'
  BY <1>0 DEF EntryInUseExists
<1>7. EntryReachable'
  BY <1>0 DEF EntryReachable
<1>8. NotifiedDoesNotBlock'
  BY <1>0 DEF NotifiedDoesNotBlock
<1>9. WaitResultIsNotified'
  BY <1>0 DEF WaitResultIsNotified
<1>10. UnpublishedUnused'
  BY <1>0 DEF UnpublishedUnused
<1>11. QED
  BY <1>1, <1>2, <1>3, <1>4, <1>5, <1>6, <1>7, <1>8, <1>9, <1>10 DEF IInv

\* A variable is published anew only when nothing is left of the one before.
LEMMA PublishIInv ==
    ASSUME NEW t \in Threads, IInv, Publish(t)
    PROVE  IInv'
<1> USE ConditionVariableAssumption DEF Publish, IInv
<1>0. /\ Members(fEntries)' = {} /\ fEntries' = <<>> /\ fEntries' \in Seq(Threads)
      /\ \A u \in Threads : ~fVariable[u] /\ pc[u] \notin Notifiers
      /\ fLock = Nobody
  BY DEF Members, UnpublishedUnused
<1>1. TypeOK'
  BY <1>0 DEF TypeOK
<1>2. Distinct(fEntries)'
  BY <1>0 DEF Distinct
<1>3. Attached'
  BY <1>0 DEF Attached
<1>4. Locks'
  BY <1>0 DEF Locks
<1>5. OneUnpublisher'
  BY <1>0 DEF OneUnpublisher
<1>6. EntryInUseExists'
  BY <1>0 DEF EntryInUseExists
<1>7. EntryReachable'
  BY <1>0 DEF EntryReachable
<1>8. NotifiedDoesNotBlock'
  BY <1>0 DEF NotifiedDoesNotBlock
<1>9. WaitResultIsNotified'
  BY <1>0 DEF WaitResultIsNotified
<1>10. UnpublishedUnused'
  BY <1>0 DEF UnpublishedUnused
<1>11. QED
  BY <1>1, <1>2, <1>3, <1>4, <1>5, <1>6, <1>7, <1>8, <1>9, <1>10 DEF IInv

\* Taking the hash table's lock keeps lookups and other unpublishers out.
LEMMA UnpublishIInv ==
    ASSUME NEW t \in Threads, IInv, Unpublish(t)
    PROVE  IInv'
<1> USE ConditionVariableAssumption DEF Unpublish, IInv
<1>0. fEntries' = fEntries /\ Members(fEntries)' = Members(fEntries)
  BY DEF Members
<1>1. TypeOK'
  BY <1>0 DEF TypeOK
<1>2. Distinct(fEntries)'
  BY <1>0 DEF Distinct
<1>3. Attached'
  BY <1>0 DEF Attached
<1>4. Locks'
  BY <1>0 DEF TypeOK, Locks
<1>5. OneUnpublisher'
  BY <1>0 DEF OneUnpublisher
<1>6. EntryInUseExists'
  BY <1>0 DEF EntryInUseExists
<1>7. EntryReachable'
  BY <1>0 DEF EntryReachable
<1>8. NotifiedDoesNotBlock'
  BY <1>0 DEF NotifiedDoesNotBlock
<1>9. WaitResultIsNotified'
  BY <1>0 DEF WaitResultIsNotified
<1>10. UnpublishedUnused'
  BY <1>0 DEF UnpublishedUnused
<1>11. QED
  BY <1>1, <1>2, <1>3, <1>4, <1>5, <1>6, <1>7, <1>8, <1>9, <1>10 DEF IInv

\* A notifier starts on a variable that stays published.
LEMMA NotifyIInv ==
    ASSUME NEW t \in Threads, NEW isAll \in BOOLEAN, IInv, Notify(t, isAll)
    PROVE  IInv'
<1> USE ConditionVariableAssumption DEF Notify, IInv
<1>0. fEntries' = fEntries /\ Members(fEntries)' = Members(fEntries)
  BY DEF Members
<1>1. TypeOK'
  BY <1>0 DEF TypeOK
<1>2. Distinct(fEntries)'
  BY <1>0 DEF Distinct
<1>3. Attached'
  BY <1>0 DEF Attached
<1>4. Locks'
  BY <1>0 DEF Locks
<1>5. OneUnpublisher'
  BY <1>0 DEF OneUnpublisher
<1>6. EntryInUseExists'
  <2> SUFFICES ASSUME NEW n \in Threads, pc'[n] = "notifyEntry"
               PROVE  /\ pc'[entry'[n]] \in {"added", "blocked", "leave", "spin"}
                      /\ fVariable'[entry'[n]]
                      /\ entry'[n] \notin Members(fEntries)'
                      /\ \A m \in Threads \ {n} :
                            pc'[m] = "notifyEntry" => entry'[m] # entry'[n]
    BY DEF EntryInUseExists
  <2>1. n # t /\ pc[n] = "notifyEntry" /\ entry'[n] = entry[n]
    BY DEF TypeOK
  <2>2. entry[n] \in Threads /\ entry[n] # t
    BY <2>1 DEF TypeOK, EntryInUseExists, Attached
  <2>3. \A m \in Threads \ {n} :
           pc'[m] = "notifyEntry" => pc[m] = "notifyEntry" /\ entry'[m] = entry[m]
    BY DEF TypeOK
  <2>4. QED
    BY <1>0, <2>1, <2>2, <2>3 DEF TypeOK, EntryInUseExists
<1>7. EntryReachable'
  BY <1>0 DEF EntryReachable
<1>8. NotifiedDoesNotBlock'
  BY <1>0 DEF NotifiedDoesNotBlock
<1>9. WaitResultIsNotified'
  BY <1>0 DEF WaitResultIsNotified
<1>10. UnpublishedUnused'
  BY <1>0 DEF UnpublishedUnused
<1>11. QED
  BY <1>1, <1>2, <1>3, <1>4, <1>5, <1>6, <1>7, <1>8, <1>9, <1>10 DEF IInv

\* The notifier hands the entry back, and does not touch it afterwards.
LEMMA NotifyEntryIInv ==
    ASSUME NEW t \in Threads, IInv, NotifyEntry(t)
    PROVE  IInv'
<1> USE ConditionVariableAssumption DEF NotifyEntry, thread_unblock, IInv
<1>0. fEntries' = fEntries /\ Members(fEntries)' = Members(fEntries)
  BY DEF Members
<1>1. TypeOK'
  BY <1>0 DEF TypeOK
<1>2. Distinct(fEntries)'
  BY <1>0 DEF Distinct
<1>3. Attached'
  BY <1>0 DEF TypeOK, Attached, Locks, EntryInUseExists
<1>4. Locks'
  BY <1>0 DEF Locks
<1>5. OneUnpublisher'
  BY <1>0 DEF OneUnpublisher
<1>6. EntryInUseExists'
  <2> SUFFICES ASSUME NEW n \in Threads, pc'[n] = "notifyEntry"
               PROVE  /\ pc'[entry'[n]] \in {"added", "blocked", "leave", "spin"}
                      /\ fVariable'[entry'[n]]
                      /\ entry'[n] \notin Members(fEntries)'
                      /\ \A m \in Threads \ {n} :
                            pc'[m] = "notifyEntry" => entry'[m] # entry'[n]
    BY DEF EntryInUseExists
  <2>1. n # t /\ pc[n] = "notifyEntry" /\ entry'[n] = entry[n]
    BY DEF TypeOK
  <2>2. entry[n] \in Threads /\ entry[n] # entry[t]
    BY <2>1 DEF TypeOK, EntryInUseExists, Attached
  <2>3. \A m \in Threads \ {n} :
           pc'[m] = "notifyEntry" => pc[m] = "notifyEntry" /\ entry'[m] = entry[m]
    BY DEF TypeOK
  <2>4. QED
    BY <1>0, <2>1, <2>2, <2>3 DEF TypeOK, EntryInUseExists
<1>7. EntryReachable'
  BY <1>0 DEF TypeOK, EntryReachable
<1>8. NotifiedDoesNotBlock'
  BY <1>0 DEF TypeOK, Attached, NotifiedDoesNotBlock
<1>9. WaitResultIsNotified'
  BY <1>0 DEF TypeOK, WaitResultIsNotified
<1>10. UnpublishedUnused'
  BY <1>0 DEF UnpublishedUnused
<1>11. QED
  BY <1>1, <1>2, <1>3, <1>4, <1>5, <1>6, <1>7, <1>8, <1>9, <1>10 DEF IInv

\* A lookup keeps the hash table's lock, or fails.
LEMMA AddByObjectIInv ==
    ASSUME NEW t \in Threads, IInv, AddByObject(t)
    PROVE  IInv'
<1> USE ConditionVariableAssumption DEF AddByObject, IInv
<1>0. fEntries' = fEntries /\ Members(fEntries)' = Members(fEntries)
  BY DEF Members
<1>1. TypeOK'
  BY <1>0 DEF TypeOK
<1>2. Distinct(fEntries)'
  BY <1>0 DEF Distinct
<1>3. Attached'
  BY <1>0 DEF TypeOK, Attached
<1>4. Locks'
  <2>1. CASE published
    BY <2>1 DEF TypeOK, Locks
  <2>2. CASE ~published
    BY <2>2 DEF TypeOK, Locks
  <2>3. QED
    BY <2>1, <2>2
<1>5. OneUnpublisher'
  BY <1>0 DEF TypeOK, OneUnpublisher
<1>6. EntryInUseExists'
  <2> SUFFICES ASSUME NEW n \in Threads, pc'[n] = "notifyEntry"
               PROVE  /\ pc'[entry'[n]] \in {"added", "blocked", "leave", "spin"}
                      /\ fVariable'[entry'[n]]
                      /\ entry'[n] \notin Members(fEntries)'
                      /\ \A m \in Threads \ {n} :
                            pc'[m] = "notifyEntry" => entry'[m] # entry'[n]
    BY DEF EntryInUseExists
  <2>1. n # t /\ pc[n] = "notifyEntry" /\ entry'[n] = entry[n]
    BY DEF TypeOK
  <2>2. entry[n] \in Threads /\ entry[n] # t
    BY <2>1 DEF TypeOK, EntryInUseExists, Attached
  <2>3. \A m \in Threads \ {n} :
           pc'[m] = "notifyEntry" => pc[m] = "notifyEntry" /\ entry'[m] = entry[m]
    BY DEF TypeOK
  <2>4. QED
    BY <1>0, <2>1, <2>2, <2>3 DEF TypeOK, EntryInUseExists
<1>7. EntryReachable'
  BY <1>0 DEF TypeOK, EntryReachable
<1>8. NotifiedDoesNotBlock'
  BY <1>0 DEF TypeOK, NotifiedDoesNotBlock
<1>9. WaitResultIsNotified'
  BY <1>0 DEF TypeOK, WaitResultIsNotified
<1>10. UnpublishedUnused'
  BY <1>0 DEF UnpublishedUnused
<1>11. QED
  BY <1>1, <1>2, <1>3, <1>4, <1>5, <1>6, <1>7, <1>8, <1>9, <1>10 DEF IInv

\* A waiter blocks only while its entry points to the variable.
LEMMA WaitIInv ==
    ASSUME NEW t \in Threads, IInv, Wait(t)
    PROVE  IInv'
<1> USE ConditionVariableAssumption DEF Wait, thread_prepare_to_block, IInv
<1>0. fEntries' = fEntries /\ Members(fEntries)' = Members(fEntries)
  BY DEF Members
<1>1. TypeOK'
  BY <1>0 DEF TypeOK
<1>2. Distinct(fEntries)'
  BY <1>0 DEF Distinct
<1>3. Attached'
  BY <1>0 DEF TypeOK, Attached
<1>4. Locks'
  BY <1>0 DEF TypeOK, Locks
<1>5. OneUnpublisher'
  BY <1>0 DEF TypeOK, OneUnpublisher
<1>6. EntryInUseExists'
  <2> SUFFICES ASSUME NEW n \in Threads, pc'[n] = "notifyEntry"
               PROVE  /\ pc'[entry'[n]] \in {"added", "blocked", "leave", "spin"}
                      /\ fVariable'[entry'[n]]
                      /\ entry'[n] \notin Members(fEntries)'
                      /\ \A m \in Threads \ {n} :
                            pc'[m] = "notifyEntry" => entry'[m] # entry'[n]
    BY DEF EntryInUseExists
  <2>1. n # t /\ pc[n] = "notifyEntry" /\ entry'[n] = entry[n]
    BY DEF TypeOK
  <2>2. entry[n] \in Threads
    BY <2>1 DEF TypeOK, EntryInUseExists, Attached
  <2>3. \A m \in Threads \ {n} :
           pc'[m] = "notifyEntry" => pc[m] = "notifyEntry" /\ entry'[m] = entry[m]
    BY DEF TypeOK
  <2>4. QED
    BY <1>0, <2>1, <2>2, <2>3 DEF TypeOK, EntryInUseExists
<1>7. EntryReachable'
  BY <1>0 DEF TypeOK, EntryReachable
<1>8. NotifiedDoesNotBlock'
  BY <1>0 DEF TypeOK, NotifiedDoesNotBlock
<1>9. WaitResultIsNotified'
  BY <1>0 DEF TypeOK, WaitResultIsNotified
<1>10. UnpublishedUnused'
  BY <1>0 DEF TypeOK, UnpublishedUnused
<1>11. QED
  BY <1>1, <1>2, <1>3, <1>4, <1>5, <1>6, <1>7, <1>8, <1>9, <1>10 DEF IInv

\* A waiter that was not notified locks its entry.
LEMMA BlockReturnsIInv ==
    ASSUME NEW t \in Threads, IInv, BlockReturns(t)
    PROVE  IInv'
<1> USE ConditionVariableAssumption DEF BlockReturns, IInv
<1>0. fEntries' = fEntries /\ Members(fEntries)' = Members(fEntries)
  BY DEF Members
<1>1. TypeOK'
  BY <1>0 DEF TypeOK
<1>2. Distinct(fEntries)'
  BY <1>0 DEF Distinct
<1>3. Attached'
  BY <1>0 DEF TypeOK, Attached
<1>4. Locks'
  BY <1>0 DEF TypeOK, Attached, Locks
<1>5. OneUnpublisher'
  BY <1>0 DEF TypeOK, OneUnpublisher
<1>6. EntryInUseExists'
  <2> SUFFICES ASSUME NEW n \in Threads, pc'[n] = "notifyEntry"
               PROVE  /\ pc'[entry'[n]] \in {"added", "blocked", "leave", "spin"}
                      /\ fVariable'[entry'[n]]
                      /\ entry'[n] \notin Members(fEntries)'
                      /\ \A m \in Threads \ {n} :
                            pc'[m] = "notifyEntry" => entry'[m] # entry'[n]
    BY DEF EntryInUseExists
  <2>1. n # t /\ pc[n] = "notifyEntry" /\ entry'[n] = entry[n]
    BY DEF TypeOK
  <2>2. entry[n] \in Threads
    BY <2>1 DEF TypeOK, EntryInUseExists, Attached
  <2>3. \A m \in Threads \ {n} :
           pc'[m] = "notifyEntry" => pc[m] = "notifyEntry" /\ entry'[m] = entry[m]
    BY DEF TypeOK
  <2>4. QED
    BY <1>0, <2>1, <2>2, <2>3 DEF TypeOK, EntryInUseExists
<1>7. EntryReachable'
  BY <1>0 DEF TypeOK, EntryReachable
<1>8. NotifiedDoesNotBlock'
  BY <1>0 DEF TypeOK, NotifiedDoesNotBlock
<1>9. WaitResultIsNotified'
  BY <1>0 DEF TypeOK, WaitResultIsNotified
<1>10. UnpublishedUnused'
  BY <1>0 DEF TypeOK, UnpublishedUnused
<1>11. QED
  BY <1>1, <1>2, <1>3, <1>4, <1>5, <1>6, <1>7, <1>8, <1>9, <1>10 DEF IInv

\* A waiter whose entry a notifier had returns after that notifier is done.
LEMMA SpinIInv ==
    ASSUME NEW t \in Threads, IInv, Spin(t)
    PROVE  IInv'
<1> USE ConditionVariableAssumption DEF Spin, IInv
<1>0. fEntries' = fEntries /\ Members(fEntries)' = Members(fEntries)
  BY DEF Members
<1>1. TypeOK'
  BY <1>0 DEF TypeOK
<1>2. Distinct(fEntries)'
  BY <1>0 DEF Distinct
<1>3. Attached'
  BY <1>0 DEF Attached
<1>4. Locks'
  BY <1>0 DEF TypeOK, Locks
<1>5. OneUnpublisher'
  BY <1>0 DEF OneUnpublisher
<1>6. EntryInUseExists'
  BY <1>0 DEF EntryInUseExists
<1>7. EntryReachable'
  BY <1>0 DEF EntryReachable
<1>8. NotifiedDoesNotBlock'
  BY <1>0 DEF NotifiedDoesNotBlock
<1>9. WaitResultIsNotified'
  BY <1>0 DEF WaitResultIsNotified
<1>10. UnpublishedUnused'
  BY <1>0 DEF UnpublishedUnused
<1>11. QED
  BY <1>1, <1>2, <1>3, <1>4, <1>5, <1>6, <1>7, <1>8, <1>9, <1>10 DEF IInv

\* NotifyHead takes the first entry off the list, if there is one.
LEMMA HeadTaken ==
    ASSUME NEW t \in Threads, TypeOK, Distinct(fEntries), NotifyHead(t)
    PROVE  \/ /\ fEntries = <<>> /\ fEntries' = <<>>
              /\ Members(fEntries) = {} /\ Members(fEntries)' = {}
              /\ pc' = [pc EXCEPT ![t] = "idle"] /\ entry' = entry
           \/ \E h \in Members(fEntries) \cap Threads :
                 /\ fEntries' \in Seq(Threads) /\ Distinct(fEntries)'
                 /\ Members(fEntries)' = Members(fEntries) \ {h}
                 /\ pc' = [pc EXCEPT ![t] = "notifyEntry"]
                 /\ entry' = [entry EXCEPT ![t] = h]
<1>1. CASE fEntries = <<>>
  BY <1>1 DEF NotifyHead, Members
<1>2. CASE fEntries # <<>>
  <2> DEFINE r == Tail(fEntries)
             h == Head(fEntries)
  <2>1. fEntries \in Seq(Threads)
    BY DEF TypeOK
  <2>2. /\ r \in Seq(Threads) /\ Distinct(r) /\ h \in Threads
        /\ h \in Members(fEntries) /\ Members(r) = Members(fEntries) \ {h}
    BY <1>2, <2>1, TailEntries, DistinctTail, MembersTail
  <2>3. /\ fEntries' = r /\ pc' = [pc EXCEPT ![t] = "notifyEntry"]
        /\ entry' = [entry EXCEPT ![t] = h]
    BY <1>2 DEF NotifyHead
  <2> HIDE DEF r, h
  <2>4. Distinct(fEntries)' /\ Members(fEntries)' = Members(r)
    BY <2>2, <2>3 DEF Distinct, Members
  <2>5. QED
    BY <2>2, <2>3, <2>4
<1>3. QED
  BY <1>1, <1>2

\* ... and what the invariant says of the entries is then true of the new notifier.
LEMMA NotifyHeadEntries ==
    ASSUME NEW t \in Threads, IInv, NotifyHead(t),
           pc[t] \in {"unpublish", "notify", "notifyNext"},
           wait' = wait, fVariable' = fVariable, fWaitStatus' = fWaitStatus
    PROVE  /\ fEntries' \in Seq(Threads) /\ Distinct(fEntries)'
           /\ pc' \in [Threads -> Steps] /\ entry' \in [Threads -> Threads \cup {Nobody}]
           /\ Attached' /\ EntryInUseExists' /\ EntryReachable'
           /\ NotifiedDoesNotBlock' /\ WaitResultIsNotified'
           /\ pc'[t] = "idle" => fEntries = <<>> /\ fEntries' = <<>>
           /\ \A u \in Threads \ {t} : pc'[u] = pc[u]
           /\ pc'[t] \in {"idle", "notifyEntry"}
<1> USE DEF IInv
<1>1. CASE /\ fEntries = <<>> /\ fEntries' = <<>>
           /\ Members(fEntries) = {} /\ Members(fEntries)' = {}
           /\ pc' = [pc EXCEPT ![t] = "idle"] /\ entry' = entry
  <2>1. Distinct(fEntries)'
    BY <1>1 DEF Distinct
  <2>2. Attached' /\ EntryInUseExists' /\ EntryReachable'
    BY <1>1 DEF TypeOK, Attached, EntryInUseExists, EntryReachable
  <2>3. NotifiedDoesNotBlock' /\ WaitResultIsNotified'
    BY <1>1 DEF TypeOK, NotifiedDoesNotBlock, WaitResultIsNotified
  <2>4. QED
    BY <1>1, <2>1, <2>2, <2>3 DEF TypeOK
<1>2. ASSUME NEW h \in Members(fEntries) \cap Threads,
             fEntries' \in Seq(Threads), Distinct(fEntries)',
             Members(fEntries)' = Members(fEntries) \ {h},
             pc' = [pc EXCEPT ![t] = "notifyEntry"],
             entry' = [entry EXCEPT ![t] = h]
      PROVE  /\ Attached' /\ EntryInUseExists' /\ EntryReachable'
             /\ NotifiedDoesNotBlock' /\ WaitResultIsNotified'
             /\ entry' \in [Threads -> Threads \cup {Nobody}]
  <2>1. Attached' /\ entry' \in [Threads -> Threads \cup {Nobody}]
    BY <1>2 DEF TypeOK, Attached
  <2>2. EntryInUseExists'
    <3> SUFFICES ASSUME NEW n \in Threads, pc'[n] = "notifyEntry"
                 PROVE  /\ pc'[entry'[n]] \in {"added", "blocked", "leave", "spin"}
                        /\ fVariable'[entry'[n]]
                        /\ entry'[n] \notin Members(fEntries)'
                        /\ \A m \in Threads \ {n} :
                              pc'[m] = "notifyEntry" => entry'[m] # entry'[n]
      BY DEF EntryInUseExists
    <3>1. \A m \in Threads \ {t} : pc'[m] = pc[m] /\ entry'[m] = entry[m]
      BY <1>2 DEF TypeOK
    <3>2. entry'[t] = h /\ pc'[t] = "notifyEntry"
      BY <1>2 DEF TypeOK
    <3>3. \A m \in Threads \ {t} : pc'[m] = "notifyEntry" => entry[m] # h /\ entry[m] # t
      BY <3>1 DEF EntryInUseExists
    <3>4. CASE n = t
      BY <1>2, <3>1, <3>2, <3>3, <3>4 DEF Attached
    <3>5. CASE n # t
      <4>1. /\ pc[n] = "notifyEntry" /\ entry'[n] = entry[n]
            /\ entry[n] \in Threads \ {t}
        BY <3>1, <3>3, <3>5 DEF Attached
      <4>2. pc'[entry'[n]] = pc[entry[n]]
        BY <3>1, <4>1
      <4>3. QED
        BY <1>2, <3>1, <3>2, <3>3, <3>5, <4>1, <4>2 DEF EntryInUseExists
    <3>6. QED
      BY <3>4, <3>5
  <2>3. EntryReachable'
    BY <1>2 DEF TypeOK, EntryReachable
  <2>4. NotifiedDoesNotBlock' /\ WaitResultIsNotified'
    BY <1>2 DEF TypeOK, NotifiedDoesNotBlock, WaitResultIsNotified
  <2>5. QED
    BY <2>1, <2>2, <2>3, <2>4
<1>3. QED
  <2>1. CASE \E h \in Members(fEntries) \cap Threads :
                 /\ fEntries' \in Seq(Threads) /\ Distinct(fEntries)'
                 /\ Members(fEntries)' = Members(fEntries) \ {h}
                 /\ pc' = [pc EXCEPT ![t] = "notifyEntry"]
                 /\ entry' = [entry EXCEPT ![t] = h]
    BY <1>2, <2>1, ZenonT(30) DEF TypeOK
  <2>2. QED
    BY <1>1, <2>1, HeadTaken

\* UnpublishLocked(): from here on no variable is published, and t has all entries.
LEMMA UnpublishLockedIInv ==
    ASSUME NEW t \in Threads, IInv, UnpublishLocked(t)
    PROVE  IInv'
<1> USE ConditionVariableAssumption DEF UnpublishLocked, IInv
<1>1. /\ Distinct(fEntries)' /\ Attached' /\ EntryInUseExists' /\ EntryReachable'
      /\ NotifiedDoesNotBlock' /\ WaitResultIsNotified'
      /\ pc'[t] = "idle" => fEntries' = <<>>
      /\ \A u \in Threads \ {t} : pc'[u] = pc[u]
      /\ pc'[t] \in {"idle", "notifyEntry"}
  BY NotifyHeadEntries
<1>2. TypeOK'
  BY NotifyHeadEntries DEF TypeOK
<1>3. Locks'
  BY <1>1, <1>2 DEF TypeOK, Locks
<1>4. OneUnpublisher'
  BY <1>1 DEF TypeOK, OneUnpublisher, Locks
<1>5. UnpublishedUnused'
  <2> SUFFICES ASSUME ~published', Unused'
               PROVE  /\ fEntries' = <<>> /\ fLock' = Nobody
                      /\ \A u \in Threads :
                            ~fVariable'[u] /\ pc'[u] \notin {"add", "leave", "spin"}
    BY DEF UnpublishedUnused
  <2>1. pc'[t] = "idle" /\ fEntries' = <<>> /\ fLock' = Nobody /\ Members(fEntries)' = {}
    BY <1>1 DEF Members
  <2>2. \A u \in Threads : ~fVariable'[u]
    BY <1>1, <2>1 DEF EntryReachable
  <2>3. QED
    BY <1>1, <1>2, <1>3, <1>4, <2>1, <2>2 DEF Attached, Locks, OneUnpublisher
<1>6. QED
  BY <1>1, <1>2, <1>3, <1>4, <1>5 DEF IInv

\* _Notify() and the next turn of the loop in _NotifyLocked(): another entry, or the end.
LEMMA NotifyMoreIInv ==
    ASSUME NEW t \in Threads, IInv, _Notify(t) \/ NotifyNext(t)
    PROVE  IInv'
<1> USE ConditionVariableAssumption DEF _Notify, NotifyNext, IInv
<1>1. CASE NotifyHead(t)
  <2>1. /\ Distinct(fEntries)' /\ Attached' /\ EntryInUseExists' /\ EntryReachable'
        /\ NotifiedDoesNotBlock' /\ WaitResultIsNotified'
        /\ pc'[t] = "idle" => fEntries' = <<>>
        /\ \A u \in Threads \ {t} : pc'[u] = pc[u]
        /\ pc'[t] \in {"idle", "notifyEntry"}
    BY <1>1, NotifyHeadEntries
  <2>2. TypeOK'
    BY <1>1, NotifyHeadEntries DEF TypeOK
  <2>3. Locks'
    BY <2>1, <2>2 DEF TypeOK, Locks
  <2>4. OneUnpublisher'
    BY <2>1 DEF TypeOK, OneUnpublisher
  <2>5. UnpublishedUnused'
    <3> SUFFICES ASSUME ~published', Unused'
                 PROVE  /\ fEntries' = <<>> /\ fLock' = Nobody
                        /\ \A u \in Threads :
                              ~fVariable'[u] /\ pc'[u] \notin {"add", "leave", "spin"}
      BY DEF UnpublishedUnused
    <3>1. /\ pc'[t] = "idle" /\ fEntries' = <<>> /\ fLock' = Nobody
          /\ Members(fEntries)' = {}
      BY <1>1, <2>1 DEF Members
    <3>2. \A u \in Threads : ~fVariable'[u]
      BY <2>1, <3>1 DEF EntryReachable
    <3>3. QED
      BY <2>1, <2>2, <2>3, <2>4, <3>1, <3>2 DEF Attached, Locks, OneUnpublisher
  <2>6. QED
    BY <2>1, <2>2, <2>3, <2>4, <2>5 DEF IInv
<1>2. CASE /\ pc[t] = "notifyNext" /\ ~all[t] /\ Goto(t, "idle")
           /\ UNCHANGED <<fEntries, entry>>
  <2>0. fEntries' = fEntries /\ Members(fEntries)' = Members(fEntries) /\ published
    BY <1>2 DEF Members, OneUnpublisher
  <2>1. TypeOK' /\ Distinct(fEntries)'
    BY <1>2, <2>0 DEF TypeOK, Distinct
  <2>2. Attached' /\ Locks' /\ OneUnpublisher'
    BY <1>2, <2>0 DEF TypeOK, Attached, Locks, OneUnpublisher
  <2>3. EntryInUseExists' /\ EntryReachable'
    BY <1>2, <2>0 DEF TypeOK, Attached, EntryInUseExists, EntryReachable
  <2>4. NotifiedDoesNotBlock' /\ WaitResultIsNotified' /\ UnpublishedUnused'
    BY <1>2, <2>0
       DEF TypeOK, NotifiedDoesNotBlock, WaitResultIsNotified, UnpublishedUnused
  <2>5. QED
    BY <2>1, <2>2, <2>3, <2>4 DEF IInv
<1>3. QED
  BY <1>1, <1>2

\* A new entry in the list.
LEMMA AddIInv ==
    ASSUME NEW t \in Threads, IInv, AddFound(t) \/ Add(t)
    PROVE  IInv'
<1> USE ConditionVariableAssumption DEF AddFound, Add, IInv
<1>1. /\ fEntries' = Append(fEntries, t)
      /\ pc' = [pc EXCEPT ![t] = "added"] /\ pc[t] \in {"idle", "add"}
      /\ fVariable' = [fVariable EXCEPT ![t] = TRUE]
      /\ fWaitStatus' = [fWaitStatus EXCEPT ![t] = STATUS_ADDED]
      /\ fLock' = fLock /\ published' = published /\ wait' = wait /\ entry' = entry
      /\ hashReaders' = IF pc[t] = "add" THEN hashReaders \ {t} ELSE hashReaders
      /\ hashWriter' = hashWriter /\ entryLock' = entryLock /\ all' = all
      /\ result' = result /\ published
  BY DEF AddToLockedVariable, OneUnpublisher
<1> HIDE DEF AddFound, Add
<1>2. /\ Members(fEntries)' = Members(fEntries) \cup {t} /\ t \notin Members(fEntries)
      /\ fEntries' \in Seq(Threads) /\ Distinct(fEntries)'
  <2>1. t \notin Members(fEntries)
    BY <1>1 DEF Attached
  <2>2. (\A i \in 1..Len(fEntries) : fEntries[i] # t) /\ fEntries \in Seq(Threads)
    BY <2>1 DEF Members, TypeOK
  <2> DEFINE r == Append(fEntries, t)
  <2>3. Distinct(r) /\ Members(r) = Members(fEntries) \cup {t} /\ r \in Seq(Threads)
    BY <2>2, DistinctAppend, MembersAppend
  <2>4. fEntries' = r
    BY <1>1
  <2> HIDE DEF r
  <2>5. Distinct(fEntries)' /\ Members(fEntries)' = Members(r)
    BY <2>3, <2>4 DEF Distinct, Members
  <2>6. QED
    BY <2>1, <2>3, <2>4, <2>5
<1>3. \A u \in Threads \ {t} : pc'[u] = pc[u] /\ fVariable'[u] = fVariable[u]
                            /\ fWaitStatus'[u] = fWaitStatus[u]
  BY <1>1 DEF TypeOK
<1>4. pc'[t] = "added" /\ fVariable'[t] = TRUE /\ fWaitStatus'[t] = STATUS_ADDED
  BY <1>1 DEF TypeOK
<1>5. TypeOK'
  BY <1>1, <1>2 DEF TypeOK
<1>6. Attached'
  BY <1>1, <1>2, <1>3, <1>4 DEF TypeOK, Attached
<1>7. Locks'
  BY <1>1, <1>3, <1>4 DEF TypeOK, Locks
<1>8. OneUnpublisher'
  BY <1>1, <1>3, <1>4 DEF OneUnpublisher
<1>9. EntryInUseExists'
  <2>1. \A n \in Threads : pc'[n] = "notifyEntry" => pc[n] = "notifyEntry"
    BY <1>3, <1>4
  <2>2. \A n \in Threads : pc'[n] = "notifyEntry" => entry[n] \in Threads \ {t}
    BY <1>1, <2>1 DEF Attached, EntryInUseExists
  <2>3. QED
    BY <1>1, <1>2, <1>3, <2>1, <2>2 DEF EntryInUseExists
<1>10. EntryReachable'
  BY <1>1, <1>2, <1>3, <1>4 DEF EntryReachable
<1>11. NotifiedDoesNotBlock' /\ WaitResultIsNotified'
  BY <1>1, <1>3, <1>4 DEF NotifiedDoesNotBlock, WaitResultIsNotified
<1>12. UnpublishedUnused'
  BY <1>1 DEF UnpublishedUnused
<1>13. QED
  BY <1>2, <1>5, <1>6, <1>7, <1>8, <1>9, <1>10, <1>11, <1>12 DEF IInv

\* Without a notification the entry leaves the list; a notifier that has it is
\* waited for.
LEMMA LeaveIInv ==
    ASSUME NEW t \in Threads, IInv, Leave(t)
    PROVE  IInv'
<1> USE ConditionVariableAssumption DEF IInv
<1>0. /\ pc[t] = "leave" /\ fLock = Nobody
      /\ entryLock' = [entryLock EXCEPT ![t] = Nobody]
      /\ wait' = wait /\ published' = published /\ hashReaders' = hashReaders
      /\ hashWriter' = hashWriter /\ fWaitStatus' = fWaitStatus
      /\ entry' = entry /\ all' = all /\ result' = result
  BY DEF Leave
<1>1. CASE /\ ~InEntries(t) /\ fLock' = t /\ Goto(t, "spin")
           /\ UNCHANGED <<fEntries, fVariable>>
  <2>0. /\ fEntries' = fEntries /\ Members(fEntries)' = Members(fEntries)
        /\ pc' = [pc EXCEPT ![t] = "spin"] /\ fVariable' = fVariable /\ fLock' = t
        /\ t \notin Members(fEntries)
    BY <1>1 DEF Members
  <2>1. TypeOK' /\ Distinct(fEntries)'
    BY <1>0, <2>0 DEF TypeOK, Distinct
  <2>2. Attached'
    BY <1>0, <2>0 DEF TypeOK, Attached
  <2>3. Locks'
    BY <1>0, <2>0 DEF TypeOK, Locks
  <2>4. OneUnpublisher'
    BY <1>0, <2>0 DEF TypeOK, OneUnpublisher
  <2>5. EntryInUseExists'
    BY <1>0, <2>0 DEF TypeOK, Attached, EntryInUseExists
  <2>6. EntryReachable'
    BY <1>0, <2>0 DEF TypeOK, EntryReachable
  <2>7. NotifiedDoesNotBlock' /\ WaitResultIsNotified'
    BY <1>0, <2>0 DEF TypeOK, NotifiedDoesNotBlock, WaitResultIsNotified
  <2>8. UnpublishedUnused'
    BY <1>0, <2>0 DEF TypeOK, UnpublishedUnused
  <2>9. QED
    BY <2>1, <2>2, <2>3, <2>4, <2>5, <2>6, <2>7, <2>8 DEF IInv
<1>2. ASSUME NEW i \in 1..Len(fEntries), fEntries[i] = t,
             fEntries' = Without(fEntries, i), fLock' = fLock,
             fVariable' = [fVariable EXCEPT ![t] = FALSE], Goto(t, "idle")
      PROVE  IInv'
  <2>0. /\ Members(fEntries)' = Members(fEntries) \ {t} /\ Distinct(fEntries)'
        /\ fEntries' \in Seq(Threads) /\ t \in Members(fEntries)
    <3> DEFINE r == Without(fEntries, i)
    <3>1. fEntries \in Seq(Threads) /\ t \in Members(fEntries)
      BY <1>2 DEF TypeOK, Members
    <3>2. r \in Seq(Threads) /\ Distinct(r) /\ Members(r) = Members(fEntries) \ {t}
      BY <1>2, <3>1, WithoutType, DistinctWithout, MembersWithout
    <3>3. fEntries' = r
      BY <1>2
    <3> HIDE DEF r
    <3>4. Distinct(fEntries)' /\ Members(fEntries)' = Members(r)
      BY <3>2, <3>3 DEF Distinct, Members
    <3>5. QED
      BY <3>1, <3>2, <3>3, <3>4
  <2>1. TypeOK'
    BY <1>0, <1>2, <2>0 DEF TypeOK
  <2>2. Attached'
    BY <1>0, <1>2, <2>0 DEF TypeOK, Attached
  <2>3. Locks'
    BY <1>0, <1>2 DEF TypeOK, Locks
  <2>4. OneUnpublisher'
    BY <1>0, <1>2 DEF TypeOK, OneUnpublisher
  <2>5. EntryInUseExists'
    <3>1. \A n \in Threads : pc'[n] = "notifyEntry" =>
             pc[n] = "notifyEntry" /\ entry[n] \in Threads \ {t}
      BY <1>0, <1>2, <2>0 DEF TypeOK, Attached, EntryInUseExists
    <3>2. QED
      BY <1>0, <1>2, <2>0, <3>1 DEF TypeOK, EntryInUseExists
  <2>6. EntryReachable'
    BY <1>0, <1>2, <2>0 DEF TypeOK, EntryReachable
  <2>7. NotifiedDoesNotBlock' /\ WaitResultIsNotified'
    BY <1>0, <1>2 DEF TypeOK, NotifiedDoesNotBlock, WaitResultIsNotified
  <2>8. UnpublishedUnused'
    BY <1>0, <1>2 DEF TypeOK, UnpublishedUnused
  <2>9. QED
    BY <2>0, <2>1, <2>2, <2>3, <2>4, <2>5, <2>6, <2>7, <2>8 DEF IInv
<1>3. QED
  BY <1>1, <1>2 DEF Leave

\* Every step keeps the invariant.
LEMMA NextIInv == IInv /\ [Next]_vars => IInv'
<1> SUFFICES ASSUME IInv, [Next]_vars PROVE IInv'
  OBVIOUS
<1>1. CASE UNCHANGED vars
  <2>1. /\ wait' = wait /\ published' = published /\ hashReaders' = hashReaders
        /\ hashWriter' = hashWriter /\ fEntries' = fEntries /\ fLock' = fLock
        /\ entryLock' = entryLock /\ fVariable' = fVariable
        /\ fWaitStatus' = fWaitStatus /\ pc' = pc /\ entry' = entry /\ all' = all
        /\ result' = result /\ Members(fEntries)' = Members(fEntries)
    BY <1>1 DEF vars, Members
  <2>2. TypeOK' /\ Distinct(fEntries)' /\ Attached' /\ Locks' /\ OneUnpublisher'
    BY <2>1 DEF IInv, TypeOK, Distinct, Attached, Locks, OneUnpublisher
  <2>3. EntryInUseExists' /\ EntryReachable' /\ NotifiedDoesNotBlock'
    BY <2>1 DEF IInv, EntryInUseExists, EntryReachable, NotifiedDoesNotBlock
  <2>4. WaitResultIsNotified' /\ UnpublishedUnused'
    BY <2>1 DEF IInv, WaitResultIsNotified, UnpublishedUnused
  <2>5. QED
    BY <2>2, <2>3, <2>4 DEF IInv
<1>2. CASE Next
  <2>1. PICK t \in Threads : Continue(t) \/ Call(t) \/ TimerFires(t)
    BY <1>2 DEF Next
  <2>2. CASE Continue(t)
    BY <2>2, UnpublishLockedIInv, NotifyMoreIInv, NotifyEntryIInv, AddIInv, WaitIInv,
       BlockReturnsIInv, LeaveIInv, SpinIInv DEF Continue
  <2>3. CASE Call(t)
    BY <2>3, PublishIInv, UnpublishIInv, NotifyIInv, AddByObjectIInv, AddIInv DEF Call
  <2>4. CASE TimerFires(t)
    BY <2>4, TimerFiresIInv
  <2>5. QED
    BY <2>1, <2>2, <2>3, <2>4
<1>3. QED
  BY <1>1, <1>2

-----------------------------------------------------------------------------

\* The inductive invariant IInv holds in every reachable state of the code of the
\* condition variable, for every number of waiters and notifiers.
THEOREM InvariantHolds == Spec => []IInv
BY InitIInv, NextIInv, PTL DEF Spec

\* The variable, its list of entries, the locks and the entries keep their types.
THEOREM TypeCorrect == Spec => []TypeOK
<1>1. IInv => TypeOK
  BY DEF IInv
<1>2. QED
  BY <1>1, InvariantHolds, PTL

\* An entry that _NotifyLocked() writes to is on the stack of a thread that is still in
\* Wait() or on its way to it, and no second notifier has it.
THEOREM NoEntryUsedAfterReturn == Spec => []EntryInUseExists
<1>1. IInv => EntryInUseExists
  BY DEF IInv
<1>2. QED
  BY <1>1, InvariantHolds, PTL

\* When Unpublish() has returned nobody has the variable's lock, no entry points to the
\* variable and none is in its list: the caller may free it.
THEOREM NoVariableUsedAfterUnpublish == Spec => []UnpublishedUnused
<1>1. IInv => UnpublishedUnused
  BY DEF IInv
<1>2. QED
  BY <1>1, InvariantHolds, PTL

\* Every entry that waits is in the list or in the hands of a notifier.
THEOREM EveryEntryReachable == Spec => []EntryReachable
<1>1. IInv => EntryReachable
  BY DEF IInv
<1>2. QED
  BY <1>1, InvariantHolds, PTL

\* A thread whose entry _NotifyLocked() has dealt with is not asleep, whether it was
\* blocked at the time or only about to be.
THEOREM NotificationWakes == Spec => []NotifiedDoesNotBlock
<1>1. IInv => NotifiedDoesNotBlock
  BY DEF IInv
<1>2. QED
  BY <1>1, InvariantHolds, PTL

\* A wait that ends with the code of a notifier was ended by a notifier that is done
\* with the entry.
THEOREM WaitResultTrue == Spec => []WaitResultIsNotified
<1>1. IInv => WaitResultIsNotified
  BY DEF IInv
<1>2. QED
  BY <1>1, InvariantHolds, PTL
=============================================================================
