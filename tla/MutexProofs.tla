----------------------------- MODULE MutexProofs -----------------------------
(***************************************************************************)
(* What TLAPS proves about Mutex, for any sets of threads and mutexes, any *)
(* nesting and guarding relation and any choice of timed locks.            *)
(***************************************************************************)
EXTENDS Mutex, TLAPS

-----------------------------------------------------------------------------
(* Queues *)

\* Removing the i-th entry of a sequence gives a sequence one shorter.
LEMMA WithoutType ==
    ASSUME NEW S, NEW q \in Seq(S), NEW i \in 1..Len(q)
    PROVE  /\ Without(q, i) \in Seq(S)
           /\ Len(Without(q, i)) = Len(q) - 1
           /\ \A j \in 1..(Len(q) - 1) :
                 Without(q, i)[j] = IF j < i THEN q[j] ELSE q[j + 1]
<1>1. Len(q) \in Nat /\ Len(q) - 1 \in Nat
  OBVIOUS
<1>2. \A j \in 1..(Len(q) - 1) : (IF j < i THEN q[j] ELSE q[j + 1]) \in S
  BY <1>1
<1>3. Without(q, i) \in [1..(Len(q) - 1) -> S]
  BY <1>2 DEF Without
<1>4. Without(q, i) \in Seq(S)
  BY <1>1, <1>3
<1>5. Len(Without(q, i)) = Len(q) - 1
  BY <1>1, <1>3, <1>4
<1>6. QED
  BY <1>4, <1>5 DEF Without

\* The entries of a sequence without its head.
LEMMA TailEntries ==
    ASSUME NEW S, NEW q \in Seq(S), q # <<>>
    PROVE  /\ Len(q) \in Nat \ {0}
           /\ Tail(q) \in Seq(S)
           /\ Len(Tail(q)) = Len(q) - 1
           /\ \A i \in 1..(Len(q) - 1) : Tail(q)[i] = q[i + 1]
           /\ Head(q) = q[1] /\ Head(q) \in S
OBVIOUS

\* A queue without duplicates stays so when a new thread joins it.
LEMMA DistinctAppend ==
    ASSUME NEW S, NEW q \in Seq(S), NEW x \in S, Distinct(q),
           \A i \in 1..Len(q) : q[i] # x
    PROVE  Distinct(Append(q, x))
BY DEF Distinct

\* A queue without duplicates stays so when its first thread leaves it, which is then in it no more.
LEMMA DistinctTail ==
    ASSUME NEW S, NEW q \in Seq(S), q # <<>>, Distinct(q)
    PROVE  /\ Distinct(Tail(q))
           /\ \A i \in 1..Len(Tail(q)) : Tail(q)[i] # Head(q)
BY DEF Distinct

\* A queue without duplicates stays so when any of its threads leaves it.
LEMMA DistinctWithout ==
    ASSUME NEW S, NEW q \in Seq(S), NEW i \in 1..Len(q), Distinct(q)
    PROVE  /\ Distinct(Without(q, i))
           /\ \A j \in 1..Len(Without(q, i)) : Without(q, i)[j] # q[i]
<1> DEFINE w == Without(q, i)
<1>1. /\ Len(w) = Len(q) - 1
      /\ \A j \in 1..(Len(q) - 1) : w[j] = IF j < i THEN q[j] ELSE q[j + 1]
  BY WithoutType
<1> HIDE DEF w
<1>2. Distinct(w)
  BY <1>1, SMTT(20) DEF Distinct
<1>3. \A j \in 1..Len(w) : w[j] # q[i]
  BY <1>1 DEF Distinct
<1>4. QED
  BY <1>2, <1>3 DEF w

-----------------------------------------------------------------------------
(***************************************************************************)
(* The inductive invariant.  HolderChecksHold is not inductive by itself:  *)
(* that a thread woken with B_OK is the holder needs that a queued thread  *)
(* waits for the mutex it is queued for (QueuedWaitersLive), and that its  *)
(* queue has a holder other than itself.                                   *)
(***************************************************************************)
OperationOK ==
    \A t \in Threads :
        /\ pc[t] # "idle" => lock[t] \in Mutexes
        /\ pc[t] = "switching" => from[t] \in held[t]

QueueHasHolder ==
    \A m \in Mutexes : \A i \in 1..Len(waiters[m]) :
        holder[m] \in Threads \ {waiters[m][i]}

SleeperQueued ==
    \A t \in Threads :
        pc[t] \in {"blocked", "timed"} /\ wait[t] = Waiting => InQueue(lock[t], t)

IInv == /\ TypeOK
        /\ OperationOK
        /\ HolderChecksHold
        /\ QueuedWaitersLive
        /\ QueueHasHolder
        /\ SleeperQueued

USE DEF WaitTypeOK, Results, Waiting, B_OK, B_ERROR, B_TIMED_OUT, B_INTERRUPTED,
        Steps, thread_is_blocked

\* The invariant holds before the first call.
LEMMA InitIInv == Init => IInv
BY MutexAssumption
   DEF Init, IInv, TypeOK, OperationOK, HolderChecksHold, QueuedWaitersLive,
       QueueHasHolder, SleeperQueued, NoWaits

\* A step of t that changes no queue and leaves t awake.
LEMMA SleepersUnaffected ==
    ASSUME NEW t \in Threads, SleeperQueued, waiters' = waiters,
           pc'[t] \notin {"blocked", "timed"},
           \A u \in Threads \ {t} :
              pc'[u] = pc[u] /\ lock'[u] = lock[u] /\ wait'[u] = wait[u]
    PROVE  SleeperQueued'
<1> SUFFICES ASSUME NEW u \in Threads, pc'[u] \in {"blocked", "timed"},
                    wait'[u] = Waiting
             PROVE  \E i \in 1..Len(waiters[lock'[u]]) : waiters[lock'[u]][i] = u
  BY DEF SleeperQueued, InQueue
<1>1. u \in Threads \ {t}
  OBVIOUS
<1>2. QED
  BY <1>1 DEF SleeperQueued, InQueue

\* Taking a free mutex (the fast end of _mutex_lock(), _mutex_trylock(), the timed lock and
\* the switch) keeps the invariant.
LEMMA TakeFreeIInv ==
    ASSUME NEW t \in Threads, NEW m \in Mutexes, IInv,
           pc[t] \in {"idle", "switched"}, TakeFree(t, m),
           spin' \in [Mutexes -> Threads \cup {Nobody}]
    PROVE  IInv'
<1> USE MutexAssumption DEF IInv, TakeFree, Return
<1>0. wait' = wait /\ waiters' = waiters
  OBVIOUS
<1>1. TypeOK'
  <2>1. holder' \in [Mutexes -> Threads \cup {Nobody, Destroyed}]
    BY DEF TypeOK
  <2>2. held' \in [Threads -> SUBSET Mutexes]
    BY DEF TypeOK
  <2>3. QED
    BY <1>0, <2>1, <2>2 DEF TypeOK
<1>2. OperationOK'
  BY DEF TypeOK, OperationOK
<1>3. HolderChecksHold'
  BY DEF TypeOK, OperationOK, HolderChecksHold
<1>4. QueuedWaitersLive'
  BY DEF TypeOK, QueuedWaitersLive
<1>5. QueueHasHolder'
  BY DEF TypeOK, QueueHasHolder
<1>6. SleeperQueued'
  BY <1>0 DEF TypeOK, OperationOK, SleeperQueued, InQueue
<1>7. QED
  BY <1>1, <1>2, <1>3, <1>4, <1>5, <1>6

\* Queueing up behind the holder and preparing to block keeps the invariant.
LEMMA EnqueueIInv ==
    ASSUME NEW t \in Threads, NEW m \in Mutexes, NEW step \in {"blocked", "timed"},
           IInv, pc[t] \in {"idle", "switched"}, Enqueue(t, m, step),
           spin' \in [Mutexes -> Threads \cup {Nobody}]
    PROVE  IInv'
<1>1. \A n \in Mutexes : \A i \in 1..Len(waiters[n]) : waiters[n][i] # t
  BY DEF IInv, QueuedWaitersLive
<1> USE MutexAssumption DEF IInv, Enqueue, thread_prepare_to_block
<1>2. /\ waiters[m] \in Seq(Threads)
      /\ waiters'[m] = Append(waiters[m], t)
      /\ \A n \in Mutexes \ {m} : waiters'[n] = waiters[n]
      /\ waiters' \in [Mutexes -> Seq(Threads)]
  BY DEF TypeOK
<1>3. TypeOK'
  <2>1. Distinct(waiters'[m])
    BY <1>1, <1>2, DistinctAppend DEF TypeOK, Distinct
  <2>2. QED
    BY <1>2, <2>1 DEF TypeOK, Distinct
<1>4. OperationOK'
  BY DEF TypeOK, OperationOK
<1>5. HolderChecksHold'
  BY DEF TypeOK, OperationOK, HolderChecksHold
<1>6. QueuedWaitersLive'
  BY <1>1, <1>2 DEF TypeOK, QueuedWaitersLive
<1>7. QueueHasHolder'
  BY <1>2 DEF TypeOK, QueueHasHolder
<1>8. SleeperQueued'
  BY <1>2 DEF TypeOK, OperationOK, SleeperQueued, InQueue
<1>9. QED
  BY <1>3, <1>4, <1>5, <1>6, <1>7, <1>8

\* _mutex_unlock() keeps the invariant: the first waiter becomes the holder in the same
\* critical section, or the mutex becomes free.
LEMMA UnlockIInv ==
    ASSUME NEW t \in Threads, NEW m \in held[t], IInv, UnlockLocked(t, m),
           UNCHANGED <<spin, lock, from>>,
           \/ pc[t] = "idle" /\ pc' = pc
           \/ pc[t] = "switching" /\ m = from[t]
              /\ pc' = [pc EXCEPT ![t] = "switched"]
    PROVE  IInv'
<1>0. /\ m \in Mutexes /\ TypeOK /\ holder[m] = t
      /\ held' = [held EXCEPT ![t] = @ \ {m}]
      /\ spin' = spin /\ lock' = lock /\ from' = from
      /\ pc' \in [Threads -> Steps]
      /\ \A u \in Threads : u # t => pc'[u] = pc[u]
      /\ pc[t] \in {"idle", "switching"} /\ pc'[t] \in {"idle", "switched"}
      /\ pc'[t] = "switched" => pc[t] = "switching"
  BY DEF IInv, TypeOK, UnlockLocked
<1>1. CASE waiters[m] = <<>>
  <2>1. /\ waiters' = waiters /\ wait' = wait
        /\ holder' = [holder EXCEPT ![m] = Nobody]
    BY <1>1 DEF UnlockLocked
  <2>2. TypeOK'
    <3>1. /\ holder' \in [Mutexes -> Threads \cup {Nobody, Destroyed}]
          /\ held' \in [Threads -> SUBSET Mutexes]
      BY <1>0, <2>1 DEF TypeOK
    <3>2. QED
      BY <1>0, <2>1, <3>1 DEF TypeOK
  <2>3. OperationOK'
    BY <1>0 DEF IInv, TypeOK, OperationOK
  <2>4. HolderChecksHold'
    BY <1>0, <2>1 DEF IInv, TypeOK, OperationOK, HolderChecksHold
  <2>5. QueuedWaitersLive'
    BY <1>0, <2>1 DEF IInv, TypeOK, QueuedWaitersLive
  <2>6. QueueHasHolder'
    BY <1>0, <1>1, <2>1 DEF IInv, TypeOK, QueueHasHolder
  <2>7. SleeperQueued'
    BY <1>0, <2>1, SMTT(20) DEF IInv, TypeOK, OperationOK, SleeperQueued, InQueue
  <2>8. QED
    BY <2>2, <2>3, <2>4, <2>5, <2>6, <2>7 DEF IInv
<1>2. CASE waiters[m] # <<>>
  <2> DEFINE h == Head(waiters[m])
  <2>1. /\ waiters[m] \in Seq(Threads) /\ Distinct(waiters[m])
        /\ h \in Threads /\ h = waiters[m][1] /\ 1 \in 1..Len(waiters[m])
    BY <1>0, <1>2 DEF TypeOK, Distinct
  <2>2. /\ h # t /\ lock[h] = m /\ pc[h] \in {"blocked", "timed", "failed"}
        /\ \A n \in Mutexes : \A i \in 1..Len(waiters[n]) :
              waiters[n][i] = h => n = m
    BY <1>0, <2>1 DEF IInv, QueuedWaitersLive
  <2>3. /\ waiters' = [waiters EXCEPT ![m] = Tail(waiters[m])]
        /\ holder' = [holder EXCEPT ![m] = h]
        /\ wait' = IF wait[h] = Waiting THEN [wait EXCEPT ![h] = B_OK] ELSE wait
    BY <1>0, <1>2 DEF UnlockLocked, thread_unblock
  <2> DEFINE tl == Tail(waiters[m])
  <2>T. /\ tl \in Seq(Threads) /\ Len(tl) = Len(waiters[m]) - 1
        /\ \A i \in 1..Len(tl) : tl[i] = waiters[m][i + 1] /\ i + 1 \in 1..Len(waiters[m])
        /\ \A j \in 1..Len(waiters[m]) : j # 1 =>
              j - 1 \in 1..Len(tl) /\ tl[j - 1] = waiters[m][j]
    BY <1>2, <2>1, TailEntries
  <2>6. Distinct(tl) /\ \A i \in 1..Len(tl) : tl[i] # h
    BY <1>2, <2>1, DistinctTail
  <2> HIDE DEF h, tl
  <2>4. /\ wait' \in [Threads -> Results \cup {Waiting}]
        /\ wait'[h] # Waiting
        /\ \A u \in Threads : u # h => wait'[u] = wait[u]
    BY <1>0, <2>1, <2>3 DEF TypeOK
  <2>5. /\ waiters'[m] = tl
        /\ \A n \in Mutexes : n # m => waiters'[n] = waiters[n]
        /\ waiters' \in [Mutexes -> Seq(Threads)]
    BY <1>0, <2>3, <2>T DEF TypeOK, tl
  <2>7. /\ holder'[m] = h
        /\ \A n \in Mutexes : n # m => holder'[n] = holder[n]
        /\ holder' \in [Mutexes -> Threads \cup {Nobody, Destroyed}]
    BY <1>0, <2>1, <2>3 DEF TypeOK
  <2>8. held' \in [Threads -> SUBSET Mutexes]
    BY <1>0 DEF TypeOK
  <2>9. TypeOK'
    <3>1. \A n \in Mutexes : Distinct(waiters'[n])
      <4>1. \A n \in Mutexes : Distinct(waiters[n])
        BY <1>0 DEF TypeOK, Distinct
      <4>2. QED
        BY <2>5, <2>6, <4>1
    <3>2. QED
      BY <1>0, <2>4, <2>5, <2>7, <2>8, <3>1 DEF TypeOK, Distinct
  <2>10. OperationOK'
    BY <1>0 DEF IInv, TypeOK, OperationOK
  <2>11. HolderChecksHold'
    <3> SUFFICES ASSUME NEW u \in Threads
                 PROVE  /\ \A n \in held'[u] : holder'[n] = u
                        /\ pc'[u] = "switching" => holder'[from[u]] = u
                        /\ pc'[u] \in {"blocked", "timed"} /\ wait'[u] = B_OK
                              => holder'[lock[u]] = u
      BY <1>0 DEF HolderChecksHold
    <3>1. \A n \in held'[u] : n \in held[u] /\ n \in Mutexes /\ n # m
      BY <1>0 DEF IInv, TypeOK, HolderChecksHold
    <3>2. \A n \in held'[u] : holder'[n] = u
      BY <2>7, <3>1 DEF IInv, HolderChecksHold
    <3>3. ASSUME pc'[u] = "switching" PROVE holder'[from[u]] = u
      BY <1>0, <2>7, <3>3 DEF IInv, TypeOK, OperationOK, HolderChecksHold
    <3>4. ASSUME pc'[u] \in {"blocked", "timed"}, wait'[u] = B_OK
          PROVE  holder'[lock[u]] = u
      BY <1>0, <2>2, <2>4, <2>7, <3>4 DEF IInv, OperationOK, HolderChecksHold
    <3>5. QED
      BY <3>2, <3>3, <3>4
  <2>12. QueuedWaitersLive'
    <3> SUFFICES ASSUME NEW n \in Mutexes, NEW i \in 1..Len(waiters'[n])
                 PROVE  /\ lock'[waiters'[n][i]] = n
                        /\ pc'[waiters'[n][i]] \in {"blocked", "timed", "failed"}
                        /\ pc'[waiters'[n][i]] = "blocked"
                              => wait'[waiters'[n][i]] = Waiting
      BY DEF QueuedWaitersLive
    <3>1. /\ \E j \in 1..Len(waiters[n]) : waiters'[n][i] = waiters[n][j]
          /\ n = m => waiters'[n][i] # h
      <4>1. CASE n # m
        BY <2>5, <4>1
      <4>2. CASE n = m
        BY <2>5, <2>6, <2>T, <4>2
      <4>3. QED
        BY <4>1, <4>2
    <3> PICK j \in 1..Len(waiters[n]) : waiters'[n][i] = waiters[n][j]
      BY <3>1
    <3>2. waiters[n][j] \in Threads /\ waiters[n][j] # t /\ waiters[n][j] # h
      <4>1. waiters[n] \in Seq(Threads) /\ waiters[n][j] \in Threads
        BY <1>0 DEF TypeOK
      <4>2. waiters[n][j] # t
        BY <1>0 DEF IInv, QueuedWaitersLive
      <4>3. waiters[n][j] # h
        BY <2>2, <3>1
      <4>4. QED
        BY <4>1, <4>2, <4>3
    <3>3. QED
      BY <1>0, <2>4, <3>2 DEF IInv, QueuedWaitersLive
  <2>13. QueueHasHolder'
    <3> SUFFICES ASSUME NEW n \in Mutexes, NEW i \in 1..Len(waiters'[n])
                 PROVE  holder'[n] \in Threads \ {waiters'[n][i]}
      BY DEF QueueHasHolder
    <3>1. CASE n # m
      BY <2>5, <2>7, <3>1 DEF IInv, QueueHasHolder
    <3>2. CASE n = m
      BY <2>1, <2>5, <2>6, <2>7, <3>2
    <3>3. QED
      BY <3>1, <3>2
  <2>14. SleeperQueued'
    <3> SUFFICES ASSUME NEW u \in Threads, pc'[u] \in {"blocked", "timed"},
                        wait'[u] = Waiting
                 PROVE  InQueue(lock[u], u)'
      BY <1>0 DEF SleeperQueued
    <3>1. u # h /\ u # t /\ InQueue(lock[u], u) /\ lock[u] \in Mutexes
      BY <1>0, <2>4 DEF IInv, SleeperQueued, OperationOK
    <3>2. PICK j \in 1..Len(waiters[lock[u]]) : waiters[lock[u]][j] = u
      BY <3>1 DEF InQueue
    <3>3. CASE lock[u] # m
      BY <1>0, <2>5, <3>1, <3>2, <3>3 DEF InQueue
    <3>4. CASE lock[u] = m
      <4>1. j - 1 \in 1..Len(tl) /\ tl[j - 1] = u
        BY <2>1, <2>T, <3>1, <3>2, <3>4
      <4>2. QED
        BY <1>0, <2>5, <3>4, <4>1 DEF InQueue
    <3>5. QED
      BY <3>3, <3>4
  <2>15. QED
    BY <2>9, <2>10, <2>11, <2>12, <2>13, <2>14 DEF IInv
<1>3. QED
  BY <1>1, <1>2

\* Leaving the queue after a timeout keeps the invariant, wherever in the queue the
\* thread was, and also if it was handed the mutex in the meantime.
LEMMA TimedLockFailsIInv ==
    ASSUME NEW t \in Threads, IInv, TimedLockFails(t)
    PROVE  IInv'
<1> DEFINE m == lock[t]
<1>0. /\ TypeOK /\ pc[t] = "failed" /\ m \in Mutexes
      /\ wait' = wait /\ holder' = holder /\ spin' = spin /\ held' = held
      /\ Return(t)
  BY DEF TimedLockFails, IInv, OperationOK
<1>1. CASE ~InQueue(m, t) /\ waiters' = waiters
  <2>1. \A n \in Mutexes : \A i \in 1..Len(waiters[n]) : waiters[n][i] # t
    BY <1>0, <1>1 DEF IInv, QueuedWaitersLive, InQueue
  <2>2. TypeOK'
    BY <1>0, <1>1 DEF TypeOK, Return
  <2>3. OperationOK' /\ HolderChecksHold'
    BY <1>0, <1>1 DEF IInv, TypeOK, OperationOK, HolderChecksHold, Return
  <2>4. QueuedWaitersLive'
    <3> SUFFICES ASSUME NEW n \in Mutexes, NEW i \in 1..Len(waiters[n])
                 PROVE  /\ lock'[waiters[n][i]] = n
                        /\ pc'[waiters[n][i]] \in {"blocked", "timed", "failed"}
                        /\ pc'[waiters[n][i]] = "blocked"
                              => wait[waiters[n][i]] = Waiting
      BY <1>0, <1>1 DEF QueuedWaitersLive
    <3>1. waiters[n][i] # t /\ waiters[n][i] \in Threads
      BY <1>0, <2>1 DEF TypeOK
    <3>2. QED
      BY <1>0, <3>1 DEF IInv, TypeOK, QueuedWaitersLive, Return
  <2>5. QueueHasHolder'
    BY <1>0, <1>1 DEF IInv, QueueHasHolder
  <2>6. SleeperQueued'
    <3> SUFFICES ASSUME NEW u \in Threads, pc'[u] \in {"blocked", "timed"},
                        wait[u] = Waiting
                 PROVE  \E i \in 1..Len(waiters[lock'[u]]) : waiters[lock'[u]][i] = u
      BY <1>0, <1>1 DEF SleeperQueued, InQueue
    <3>1. u # t /\ lock'[u] = lock[u] /\ pc'[u] = pc[u]
      BY <1>0 DEF TypeOK, Return
    <3>2. QED
      BY <3>1 DEF IInv, SleeperQueued, InQueue
  <2>7. QED
    BY <2>2, <2>3, <2>4, <2>5, <2>6 DEF IInv
<1>2. ASSUME NEW k \in 1..Len(waiters[m]), waiters[m][k] = t,
             waiters' = [waiters EXCEPT ![m] = Without(@, k)]
      PROVE  IInv'
  <2> DEFINE w == Without(waiters[m], k)
  <2>1. waiters[m] \in Seq(Threads) /\ \A n \in Mutexes : Distinct(waiters[n])
    BY <1>0 DEF TypeOK, Distinct
  <2>2. /\ w \in Seq(Threads) /\ Len(w) = Len(waiters[m]) - 1
        /\ \A j \in 1..Len(w) :
              w[j] = IF j < k THEN waiters[m][j] ELSE waiters[m][j + 1]
    BY <1>2, <2>1, WithoutType
  <2>3. Distinct(w) /\ \A j \in 1..Len(w) : w[j] # t
    <3>1. Distinct(w) /\ \A j \in 1..Len(w) : w[j] # waiters[m][k]
      BY <1>0, <2>1, DistinctWithout
    <3>2. QED
      BY <1>2, <3>1
  <2>4. /\ waiters'[m] = w
        /\ \A n \in Mutexes : n # m => waiters'[n] = waiters[n]
        /\ waiters' \in [Mutexes -> Seq(Threads)]
    BY <1>0, <1>2, <2>2 DEF TypeOK
  <2> HIDE DEF w, m
  <2>5. \A n \in Mutexes : \A i \in 1..Len(waiters'[n]) :
           /\ \E j \in 1..Len(waiters[n]) : waiters'[n][i] = waiters[n][j]
           /\ waiters'[n][i] # t
    <3> SUFFICES ASSUME NEW n \in Mutexes, NEW i \in 1..Len(waiters'[n])
                 PROVE  /\ \E j \in 1..Len(waiters[n]) : waiters'[n][i] = waiters[n][j]
                        /\ waiters'[n][i] # t
      OBVIOUS
    <3>1. CASE n = m
      <4>1. i \in 1..Len(w) /\ waiters'[n][i] = w[i]
        BY <2>4, <3>1
      <4>2. \E j \in 1..Len(waiters[m]) : w[i] = waiters[m][j]
        BY <2>1, <2>2, <4>1
      <4>3. QED
        BY <2>3, <3>1, <4>1, <4>2
    <3>2. CASE n # m
      <4>1. lock[waiters[n][i]] = n
        BY <2>4, <3>2 DEF IInv, QueuedWaitersLive
      <4>2. waiters[n][i] # t
        BY <3>2, <4>1 DEF m
      <4>3. QED
        BY <2>4, <3>2, <4>2
    <3>3. QED
      BY <3>1, <3>2
  <2>6. TypeOK'
    <3>1. \A n \in Mutexes : Distinct(waiters'[n])
      BY <2>1, <2>3, <2>4
    <3>2. QED
      BY <1>0, <2>4, <3>1 DEF TypeOK, Return, Distinct
  <2>7. OperationOK' /\ HolderChecksHold'
    BY <1>0 DEF IInv, TypeOK, OperationOK, HolderChecksHold, Return
  <2>8. QueuedWaitersLive'
    <3> SUFFICES ASSUME NEW n \in Mutexes, NEW i \in 1..Len(waiters'[n])
                 PROVE  /\ lock'[waiters'[n][i]] = n
                        /\ pc'[waiters'[n][i]] \in {"blocked", "timed", "failed"}
                        /\ pc'[waiters'[n][i]] = "blocked"
                              => wait'[waiters'[n][i]] = Waiting
      BY DEF QueuedWaitersLive
    <3>1. PICK j \in 1..Len(waiters[n]) : waiters'[n][i] = waiters[n][j]
      BY <2>5
    <3>2. waiters[n][j] # t /\ waiters[n][j] \in Threads
      BY <1>0, <2>5, <3>1 DEF TypeOK
    <3>3. QED
      BY <1>0, <3>1, <3>2 DEF IInv, TypeOK, QueuedWaitersLive, Return
  <2>9. QueueHasHolder'
    BY <1>0, <2>5 DEF IInv, QueueHasHolder
  <2>10. SleeperQueued'
    <3> SUFFICES ASSUME NEW u \in Threads, pc'[u] \in {"blocked", "timed"},
                        wait'[u] = Waiting
                 PROVE  \E i \in 1..Len(waiters'[lock'[u]]) : waiters'[lock'[u]][i] = u
      BY DEF SleeperQueued, InQueue
    <3>1. u # t /\ lock'[u] = lock[u] /\ lock[u] \in Mutexes
      BY <1>0 DEF IInv, TypeOK, OperationOK, Return
    <3>2. PICK j \in 1..Len(waiters[lock[u]]) : waiters[lock[u]][j] = u
      BY <1>0, <3>1 DEF IInv, TypeOK, SleeperQueued, InQueue, Return
    <3>3. CASE lock[u] # m
      BY <2>4, <3>1, <3>2, <3>3
    <3>4. CASE lock[u] = m
      <4>1. j # k
        BY <1>2, <3>1, <3>2, <3>4
      <4>2. CASE j < k
        BY <2>1, <2>2, <2>4, <3>1, <3>2, <3>4, <4>2
      <4>3. CASE j > k
        <5>1. j - 1 \in 1..Len(w) /\ w[j - 1] = u
          BY <2>1, <2>2, <3>2, <3>4, <4>3
        <5>2. QED
          BY <2>4, <3>1, <3>4, <5>1
      <4>4. QED
        BY <2>1, <4>1, <4>2, <4>3
    <3>5. QED
      BY <3>3, <3>4
  <2>11. QED
    BY <2>6, <2>7, <2>8, <2>9, <2>10 DEF IInv
<1>3. QED
  BY <1>1, <1>2 DEF TimedLockFails

\* The steps that leave the queues and the holders alone.
LEMMA OtherStepsIInv ==
    ASSUME NEW t \in Threads, IInv,
           \/ BlockSucceeds(t) \/ BlockFails(t)
           \/ TimedBlockFails(t) \/ TimerFires(t)
           \/ \E f, m \in Mutexes : mutex_switch_lock(t, f, m)
    PROVE  IInv'
<1>0. TypeOK /\ holder' = holder /\ waiters' = waiters
  BY DEF IInv, BlockSucceeds, BlockFails, TimedBlockFails, TimerFires, mutex_switch_lock
<1>1. CASE BlockSucceeds(t)
  <2>0. wait' = wait /\ spin' = spin /\ lock[t] \in Mutexes
    BY <1>1 DEF BlockSucceeds, IInv, OperationOK
  <2>1. \A n \in Mutexes : \A i \in 1..Len(waiters[n]) : waiters[n][i] # t
    BY <1>1 DEF BlockSucceeds, IInv, QueueHasHolder, QueuedWaitersLive
  <2> USE <1>0, <1>1, <2>0 DEF IInv, BlockSucceeds, Return
  <2>2. TypeOK'
    BY DEF TypeOK
  <2>3. OperationOK' /\ HolderChecksHold'
    BY DEF TypeOK, OperationOK, HolderChecksHold
  <2>4. QueuedWaitersLive'
    BY <2>1 DEF TypeOK, QueuedWaitersLive
  <2>5. QueueHasHolder'
    BY DEF QueueHasHolder
  <2>6. SleeperQueued'
    BY SleepersUnaffected DEF TypeOK
  <2>7. QED
    BY <2>2, <2>3, <2>4, <2>5, <2>6
<1>2. CASE BlockFails(t)
  <2>0. wait' = wait /\ spin' = spin /\ held' = held /\ lock[t] \in Mutexes
    BY <1>2 DEF BlockFails, IInv, OperationOK
  <2>1. \A n \in Mutexes : \A i \in 1..Len(waiters[n]) : waiters[n][i] # t
    BY <1>2 DEF BlockFails, IInv, QueuedWaitersLive, Unblocked
  <2> USE <1>0, <1>2, <2>0 DEF IInv, BlockFails, Return
  <2>2. TypeOK'
    BY DEF TypeOK
  <2>3. OperationOK' /\ HolderChecksHold'
    BY DEF TypeOK, OperationOK, HolderChecksHold
  <2>4. QueuedWaitersLive'
    BY <2>1 DEF TypeOK, QueuedWaitersLive
  <2>5. QueueHasHolder'
    BY DEF QueueHasHolder
  <2>6. SleeperQueued'
    BY SleepersUnaffected DEF TypeOK
  <2>7. QED
    BY <2>2, <2>3, <2>4, <2>5, <2>6
<1>3. CASE TimedBlockFails(t)
  <2>0. /\ wait' = wait /\ spin' = spin /\ held' = held /\ lock' = lock
        /\ from' = from /\ pc[t] = "timed" /\ pc' = [pc EXCEPT ![t] = "failed"]
    BY <1>3 DEF TimedBlockFails
  <2> USE <1>0, <2>0 DEF IInv
  <2>2. TypeOK'
    BY DEF TypeOK
  <2>3. OperationOK' /\ HolderChecksHold'
    BY DEF TypeOK, OperationOK, HolderChecksHold
  <2>4. QueuedWaitersLive'
    BY DEF TypeOK, QueuedWaitersLive
  <2>5. QueueHasHolder'
    BY DEF QueueHasHolder
  <2>6. SleeperQueued'
    BY DEF TypeOK, SleeperQueued, InQueue
  <2>7. QED
    BY <2>2, <2>3, <2>4, <2>5, <2>6
<1>4. CASE TimerFires(t)
  <2>0. /\ wait' = [wait EXCEPT ![t] = B_TIMED_OUT] /\ spin' = spin /\ held' = held
        /\ lock' = lock /\ from' = from /\ pc' = pc /\ pc[t] = "timed"
    BY <1>4 DEF TimerFires, thread_block_timeout, thread_unblock
  <2> USE <1>0, <2>0 DEF IInv
  <2>2. TypeOK'
    BY DEF TypeOK
  <2>3. OperationOK' /\ HolderChecksHold'
    BY DEF TypeOK, OperationOK, HolderChecksHold
  <2>4. QueuedWaitersLive'
    BY DEF TypeOK, QueuedWaitersLive
  <2>5. QueueHasHolder'
    BY DEF QueueHasHolder
  <2>6. SleeperQueued'
    BY DEF TypeOK, SleeperQueued, InQueue
  <2>7. QED
    BY <2>2, <2>3, <2>4, <2>5, <2>6
<1>5. ASSUME NEW f \in Mutexes, NEW m \in Mutexes, mutex_switch_lock(t, f, m)
      PROVE  IInv'
  <2>0. /\ wait' = wait /\ held' = held /\ pc[t] = "idle" /\ f \in held[t]
        /\ spin' = [spin EXCEPT ![m] = t]
        /\ pc' = [pc EXCEPT ![t] = "switching"]
        /\ lock' = [lock EXCEPT ![t] = m]
        /\ from' = [from EXCEPT ![t] = f]
    BY <1>5 DEF mutex_switch_lock, MayLock, MayTry
  <2>1. \A n \in Mutexes : \A i \in 1..Len(waiters[n]) : waiters[n][i] # t
    BY <2>0 DEF IInv, QueuedWaitersLive
  <2> USE <1>0, <2>0 DEF IInv
  <2>2. TypeOK'
    BY DEF TypeOK
  <2>3. OperationOK' /\ HolderChecksHold'
    BY DEF TypeOK, OperationOK, HolderChecksHold
  <2>4. QueuedWaitersLive'
    BY <2>1 DEF TypeOK, QueuedWaitersLive
  <2>5. QueueHasHolder'
    BY DEF QueueHasHolder
  <2>6. SleeperQueued'
    BY SleepersUnaffected DEF TypeOK
  <2>7. QED
    BY <2>2, <2>3, <2>4, <2>5, <2>6
<1>6. QED
  BY <1>1, <1>2, <1>3, <1>4, <1>5

\* mutex_transfer_lock() keeps the invariant.
LEMMA TransferIInv ==
    ASSUME NEW t \in Threads, NEW u \in Threads, NEW m \in Mutexes, IInv,
           mutex_transfer_lock(t, m, u)
    PROVE  IInv'
<1>0. /\ TypeOK /\ t # u /\ pc[t] = "idle" /\ pc[u] = "idle" /\ holder[m] = t
      /\ holder' = [holder EXCEPT ![m] = u]
      /\ held' = [held EXCEPT ![t] = @ \ {m}, ![u] = {m}]
      /\ wait' = wait /\ waiters' = waiters /\ spin' = spin /\ pc' = pc
      /\ lock' = lock /\ from' = from
  BY DEF IInv, mutex_transfer_lock
<1>1. TypeOK'
  <2>1. holder' \in [Mutexes -> Threads \cup {Nobody, Destroyed}]
    BY <1>0 DEF TypeOK
  <2>2. held' \in [Threads -> SUBSET Mutexes]
    BY <1>0 DEF TypeOK
  <2>3. QED
    BY <1>0, <2>1, <2>2 DEF TypeOK
<1>2. OperationOK'
  BY <1>0 DEF IInv, TypeOK, OperationOK
<1>3. HolderChecksHold'
  BY <1>0 DEF IInv, TypeOK, OperationOK, HolderChecksHold
<1>4. QueuedWaitersLive'
  BY <1>0 DEF IInv, QueuedWaitersLive
<1>5. QueueHasHolder'
  BY <1>0 DEF IInv, TypeOK, QueueHasHolder, QueuedWaitersLive
<1>6. SleeperQueued'
  BY <1>0, SleepersUnaffected DEF IInv
<1>7. QED
  BY <1>1, <1>2, <1>3, <1>4, <1>5, <1>6 DEF IInv

\* mutex_destroy() keeps the invariant: all waiters are awake when the queue is gone.
LEMMA DestroyIInv ==
    ASSUME NEW t \in Threads, NEW m \in Mutexes, IInv, mutex_destroy(t, m)
    PROVE  IInv'
<1>0. /\ TypeOK /\ pc[t] = "idle" /\ holder[m] \in {Nobody, t} /\ Nobody \notin Threads
      /\ wait' = UnblockAll(wait, {u \in Threads : InQueue(m, u)}, B_ERROR)
      /\ waiters' = [waiters EXCEPT ![m] = <<>>]
      /\ holder' = [holder EXCEPT ![m] = Destroyed]
      /\ held' = [held EXCEPT ![t] = @ \ {m}]
      /\ spin' = spin /\ pc' = pc /\ lock' = lock /\ from' = from
  BY MutexAssumption DEF IInv, mutex_destroy
<1>1. /\ waiters'[m] = <<>>
      /\ \A n \in Mutexes : n # m => waiters'[n] = waiters[n]
      /\ waiters' \in [Mutexes -> Seq(Threads)]
  BY <1>0 DEF TypeOK
<1>2. /\ wait' \in [Threads -> Results \cup {Waiting}]
      /\ \A u \in Threads : InQueue(m, u) => wait'[u] # Waiting
      /\ \A u \in Threads : ~InQueue(m, u) => wait'[u] = wait[u]
      /\ \A u \in Threads : wait'[u] = B_OK => wait[u] = B_OK
  BY <1>0 DEF TypeOK, UnblockAll
<1>3. TypeOK'
  <2>1. /\ holder' \in [Mutexes -> Threads \cup {Nobody, Destroyed}]
        /\ held' \in [Threads -> SUBSET Mutexes]
    BY <1>0 DEF TypeOK
  <2>2. \A n \in Mutexes : Distinct(waiters'[n])
    BY <1>0, <1>1 DEF TypeOK, Distinct
  <2>3. QED
    BY <1>0, <1>1, <1>2, <2>1, <2>2 DEF TypeOK, Distinct
<1>4. OperationOK'
  BY <1>0 DEF IInv, TypeOK, OperationOK
<1>5. HolderChecksHold'
  BY <1>0, <1>2 DEF IInv, TypeOK, OperationOK, HolderChecksHold
<1>6. QueuedWaitersLive'
  <2> SUFFICES ASSUME NEW n \in Mutexes, NEW i \in 1..Len(waiters'[n])
               PROVE  /\ lock[waiters'[n][i]] = n
                      /\ pc[waiters'[n][i]] \in {"blocked", "timed", "failed"}
                      /\ pc[waiters'[n][i]] = "blocked"
                            => wait'[waiters'[n][i]] = Waiting
    BY <1>0 DEF QueuedWaitersLive
  <2>1. n # m /\ waiters'[n] = waiters[n] /\ waiters[n][i] \in Threads
    BY <1>0, <1>1 DEF TypeOK
  <2>2. lock[waiters[n][i]] = n
    BY <2>1 DEF IInv, QueuedWaitersLive
  <2>3. ~InQueue(m, waiters[n][i])
    BY <2>1, <2>2 DEF IInv, QueuedWaitersLive, InQueue
  <2>4. QED
    BY <1>2, <2>1, <2>3 DEF IInv, QueuedWaitersLive
<1>7. QueueHasHolder'
  BY <1>0, <1>1 DEF IInv, TypeOK, QueueHasHolder
<1>8. SleeperQueued'
  <2> SUFFICES ASSUME NEW u \in Threads, pc[u] \in {"blocked", "timed"},
                      wait'[u] = Waiting
               PROVE  \E i \in 1..Len(waiters'[lock[u]]) : waiters'[lock[u]][i] = u
    BY <1>0 DEF SleeperQueued, InQueue
  <2>1. ~InQueue(m, u) /\ InQueue(lock[u], u) /\ lock[u] \in Mutexes
    BY <1>2 DEF IInv, SleeperQueued, OperationOK
  <2>2. QED
    BY <1>1, <2>1 DEF InQueue
<1>9. QED
  BY <1>3, <1>4, <1>5, <1>6, <1>7, <1>8 DEF IInv

\* mutex_init() of a destroyed mutex keeps the invariant.
LEMMA InitMutexIInv ==
    ASSUME NEW t \in Threads, NEW m \in Mutexes, IInv, mutex_init(t, m)
    PROVE  IInv'
<1>0. /\ TypeOK /\ holder[m] = Destroyed
      /\ holder' = [holder EXCEPT ![m] = Nobody]
      /\ waiters[m] = <<>> /\ waiters' = waiters
      /\ wait' = wait /\ spin' = spin /\ pc' = pc /\ lock' = lock /\ from' = from
      /\ held' = held
  <2>1. holder[m] = Destroyed /\ waiters[m] \in Seq(Threads) /\ Destroyed \notin Threads
    BY MutexAssumption DEF IInv, TypeOK, mutex_init
  <2>2. waiters[m] = <<>>
    BY <2>1 DEF IInv, QueueHasHolder
  <2>3. QED
    BY <2>1, <2>2 DEF IInv, TypeOK, mutex_init
<1>1. TypeOK'
  BY <1>0 DEF TypeOK
<1>2. OperationOK'
  BY <1>0 DEF IInv, OperationOK
<1>3. HolderChecksHold'
  BY <1>0, MutexAssumption DEF IInv, TypeOK, OperationOK, HolderChecksHold
<1>4. QueuedWaitersLive'
  BY <1>0 DEF IInv, QueuedWaitersLive
<1>5. QueueHasHolder'
  BY <1>0 DEF IInv, TypeOK, QueueHasHolder
<1>6. SleeperQueued'
  BY <1>0, SleepersUnaffected DEF IInv, SleeperQueued, InQueue
<1>7. QED
  BY <1>1, <1>2, <1>3, <1>4, <1>5, <1>6 DEF IInv

-----------------------------------------------------------------------------
\* Every step keeps the invariant.
LEMMA NextIInv == IInv /\ [Next]_vars => IInv'
<1> SUFFICES ASSUME IInv, [Next]_vars PROVE IInv'
  OBVIOUS
<1>0. TypeOK /\ OperationOK
  BY DEF IInv
<1>1. CASE UNCHANGED vars
  BY <1>1 DEF vars, IInv, TypeOK, OperationOK, HolderChecksHold, QueuedWaitersLive,
              QueueHasHolder, SleeperQueued, InQueue
<1>2. ASSUME NEW t \in Threads, NEW m \in Mutexes,
             _mutex_lock(t, m) \/ _mutex_trylock(t, m)
             \/ _mutex_lock_with_timeout(t, m)
      PROVE  IInv'
  <2>1. pc[t] \in {"idle", "switched"} /\ spin' \in [Mutexes -> Threads \cup {Nobody}]
    BY <1>0, <1>2 DEF _mutex_lock, _mutex_trylock, _mutex_lock_with_timeout,
       MayLock, MayTry, TypeOK
  <2>2. TakeFree(t, m) \/ Enqueue(t, m, "blocked") \/ Enqueue(t, m, "timed")
    BY <1>2 DEF _mutex_lock, _mutex_trylock, _mutex_lock_with_timeout, LockLocked
  <2>3. QED
    BY <2>1, <2>2, TakeFreeIInv, EnqueueIInv
<1>3. ASSUME NEW t \in Threads, SwitchLocks(t)
      PROVE  IInv'
  <2>1. /\ lock[t] \in Mutexes /\ pc[t] \in {"idle", "switched"}
        /\ spin' \in [Mutexes -> Threads \cup {Nobody}]
    BY <1>0, <1>3 DEF SwitchLocks, TypeOK, OperationOK
  <2>2. TakeFree(t, lock[t]) \/ Enqueue(t, lock[t], "blocked")
    BY <1>3 DEF SwitchLocks, LockLocked
  <2>3. QED
    BY <2>1, <2>2, TakeFreeIInv, EnqueueIInv
<1>4. ASSUME NEW t \in Threads, NEW m \in Mutexes, _mutex_unlock(t, m)
      PROVE  IInv'
  BY <1>4, UnlockIInv DEF _mutex_unlock
<1>5. ASSUME NEW t \in Threads, SwitchUnlocks(t)
      PROVE  IInv'
  <2>1. from[t] \in held[t]
    BY <1>0, <1>5 DEF SwitchUnlocks, OperationOK
  <2>2. QED
    BY <1>5, <2>1, UnlockIInv DEF SwitchUnlocks
<1>6. CASE Next
  <2>1. PICK t \in Threads : Continue(t) \/ Call(t) \/ TimerFires(t)
    BY <1>6 DEF Next
  <2>2. CASE Continue(t)
    BY <1>3, <1>5, <2>2, OtherStepsIInv, TimedLockFailsIInv DEF Continue
  <2>3. CASE Call(t)
    BY <1>2, <1>4, <2>3, OtherStepsIInv, DestroyIInv, InitMutexIInv, TransferIInv
       DEF Call
  <2>4. CASE TimerFires(t)
    BY <2>4, OtherStepsIInv
  <2>5. QED
    BY <2>1, <2>2, <2>3, <2>4
<1>7. QED
  BY <1>1, <1>6

\* The inductive invariant IInv holds in every reachable state of the mutex code, for
\* every number of threads and mutexes.
THEOREM InvariantHolds == Spec => []IInv
BY InitIInv, NextIInv, PTL DEF Spec

\* The state of the mutexes keeps its types, and no mutex_waiter is ever linked
\* twice into a list of waiters.
THEOREM TypeCorrect == Spec => []TypeOK
<1>1. IInv => TypeOK
  BY DEF IInv
<1>2. QED
  BY <1>1, InvariantHolds, PTL

\* At most one thread believes it has a mutex, whatever other threads do with
\* it: lock, try, time out, switch, transfer or destroy.
THEOREM Exclusion == Spec => []MutualExclusion
<1>1. IInv => MutualExclusion
  BY DEF IInv, TypeOK, HolderChecksHold, MutualExclusion
<1>2. QED
  BY <1>1, InvariantHolds, PTL

\* No check on mutex::holder in _mutex_lock(), _mutex_lock_with_timeout(),
\* _mutex_unlock(), mutex_transfer_lock() and mutex_destroy() ever fails.
THEOREM HolderChecks == Spec => []HolderChecksHold
<1>1. IInv => HolderChecksHold
  BY DEF IInv
<1>2. QED
  BY <1>1, InvariantHolds, PTL

\* What is linked into mutex::waiters is on the stack of a call that has not
\* returned.
THEOREM WaitersLive == Spec => []QueuedWaitersLive
<1>1. IInv => QueuedWaitersLive
  BY DEF IInv
<1>2. QED
  BY <1>1, InvariantHolds, PTL

\* A thread that sleeps on a mutex is queued for it, and another thread has it.
THEOREM WakeupsNotLost == Spec => []NoLostWakeup
<1>1. IInv => NoLostWakeup
  <2> SUFFICES ASSUME IInv, NEW t \in Threads, pc[t] \in {"blocked", "timed"},
                      wait[t] = Waiting
               PROVE  InQueue(lock[t], t) /\ holder[lock[t]] \in Threads \ {t}
    BY DEF NoLostWakeup
  <2>1. InQueue(lock[t], t) /\ lock[t] \in Mutexes
    BY DEF IInv, SleeperQueued, OperationOK
  <2>2. PICK i \in 1..Len(waiters[lock[t]]) : waiters[lock[t]][i] = t
    BY <2>1 DEF InQueue
  <2>3. QED
    BY <2>1, <2>2 DEF IInv, QueueHasHolder
<1>2. QED
  BY <1>1, InvariantHolds, PTL

-----------------------------------------------------------------------------
(***************************************************************************)
(* Destroying a mutex, and switching to one.  DestroyedUnused needs to     *)
(* know what each step of an operation implies: who has the spinlock, that *)
(* only timed locks come back to the mutex after a failed wait, and which  *)
(* results a wait without a timeout can have.                              *)
(***************************************************************************)
OperationSteps ==
    \A t \in Threads :
        /\ pc[t] = "idle" => lock[t] = Nobody
        /\ pc[t] \in {"switching", "switched"} => spin[lock[t]] = t
        /\ pc[t] \in {"timed", "failed"} => lock[t] \in TimedLocks
        /\ pc[t] = "blocked" => wait[t] \in {Waiting, B_OK, B_ERROR}

SpinOwned ==
    \A m \in Mutexes : spin[m] # Nobody =>
        pc[spin[m]] \in {"switching", "switched"} /\ lock[spin[m]] = m

OnlyGuardedDestroyed ==
    \A m \in Mutexes : holder[m] = Destroyed => \E g \in Mutexes : <<g, m>> \in Guards

UsersGone ==
    \A m \in Mutexes : holder[m] = Destroyed =>
        /\ spin[m] = Nobody
        /\ \A t \in Threads : lock[t] = m => pc[t] = "blocked" /\ wait[t] = B_ERROR

UseInv == OperationSteps /\ SpinOwned /\ OnlyGuardedDestroyed /\ UsersGone

\* At first nobody uses a mutex.
LEMMA InitUseInv == Init => UseInv
BY MutexAssumption
   DEF Init, UseInv, OperationSteps, SpinOwned, OnlyGuardedDestroyed, UsersGone, NoWaits

\* A client reaches a mutex only while it is not destroyed.
LEMMA ReachedNotDestroyed ==
    ASSUME NEW t \in Threads, NEW m \in Mutexes, UseInv, MayTry(t, m)
    PROVE  holder[m] # Destroyed
BY DEF UseInv, OnlyGuardedDestroyed, MayTry

\* Taking or queueing up for a mutex, at the start of an operation or at the end of
\* a switch.
LEMMA LockUseInv ==
    ASSUME NEW t \in Threads, NEW m \in Mutexes, NEW step \in {"blocked", "timed"},
           IInv, UseInv, LockLocked(t, m, step), step = "timed" => m \in TimedLocks,
           \/ pc[t] = "idle" /\ spin' = spin
           \/ pc[t] = "switched" /\ lock[t] = m /\ spin' = [spin EXCEPT ![m] = Nobody]
    PROVE  UseInv'
<1>0. /\ TypeOK /\ holder[m] # Destroyed
      /\ \A n \in Mutexes : holder'[n] = Destroyed => holder[n] = Destroyed /\ n # m
      /\ \A u \in Threads : u # t =>
            pc'[u] = pc[u] /\ lock'[u] = lock[u] /\ wait'[u] = wait[u]
      /\ \/ pc'[t] = "idle" /\ lock'[t] = Nobody
         \/ pc'[t] = step /\ lock'[t] = m /\ wait'[t] = Waiting
  BY MutexAssumption
     DEF IInv, TypeOK, LockLocked, TakeFree, Enqueue, Return, thread_prepare_to_block
<1>1. /\ \A n \in Mutexes : spin'[n] # Nobody => spin'[n] = spin[n] /\ spin[n] # t
      /\ \A n \in Mutexes : spin[n] = Nobody => spin'[n] = Nobody
      /\ \A n \in Mutexes, u \in Threads : u # t /\ spin[n] = u => spin'[n] = u
  <2>1. CASE pc[t] = "idle" /\ spin' = spin
    <3>1. \A n \in Mutexes : spin[n] # t
      BY <2>1, MutexAssumption DEF UseInv, SpinOwned
    <3>2. QED
      BY <2>1, <3>1
  <2>2. CASE pc[t] = "switched" /\ lock[t] = m /\ spin' = [spin EXCEPT ![m] = Nobody]
    <3>1. spin[m] = t /\ t # Nobody
      BY <2>2, MutexAssumption DEF UseInv, OperationSteps
    <3>2. \A n \in Mutexes : spin[n] = t => n = m
      BY <2>2, <3>1 DEF UseInv, SpinOwned
    <3>3. QED
      BY <1>0, <2>2, <3>1, <3>2 DEF TypeOK
  <2>3. QED
    BY <2>1, <2>2
<1>2. OperationSteps'
  BY <1>0, <1>1 DEF TypeOK, IInv, OperationOK, UseInv, OperationSteps
<1>3. SpinOwned'
  <2> SUFFICES ASSUME NEW n \in Mutexes, spin'[n] # Nobody
               PROVE  pc'[spin'[n]] \in {"switching", "switched"} /\ lock'[spin'[n]] = n
    BY DEF SpinOwned
  <2>1. spin'[n] = spin[n] /\ spin[n] \in Threads /\ spin[n] # t
    BY <1>0, <1>1 DEF TypeOK
  <2>2. QED
    BY <1>0, <2>1 DEF UseInv, SpinOwned
<1>4. OnlyGuardedDestroyed'
  BY <1>0 DEF UseInv, OnlyGuardedDestroyed
<1>5. UsersGone'
  BY <1>0, <1>1, MutexAssumption DEF UseInv, UsersGone
<1>6. QED
  BY <1>2, <1>3, <1>4, <1>5 DEF UseInv

\* Handing a mutex on or freeing it; the caller is idle or switches.
LEMMA UnlockUseInv ==
    ASSUME NEW t \in Threads, NEW m \in held[t], IInv, UseInv, UnlockLocked(t, m),
           UNCHANGED <<spin, lock, from>>,
           \/ pc[t] = "idle" /\ pc' = pc
           \/ pc[t] = "switching" /\ pc' = [pc EXCEPT ![t] = "switched"]
    PROVE  UseInv'
<1>0. /\ TypeOK /\ m \in Mutexes /\ spin' = spin /\ lock' = lock
      /\ \A u \in Threads : u # t => pc'[u] = pc[u]
      /\ pc'[t] = "switched" => pc[t] = "switching"
      /\ pc'[t] = "idle" => pc[t] = "idle"
      /\ pc'[t] \in {"idle", "switched"}
      /\ pc[t] = "switching" => pc'[t] = "switched"
  BY DEF IInv, TypeOK
<1>1. \A n \in Mutexes : holder'[n] = Destroyed => holder[n] = Destroyed /\ n # m
  <2>1. waiters[m] # <<>> => Head(waiters[m]) \in Threads
    BY <1>0 DEF TypeOK
  <2>2. holder'[m] # Destroyed /\ \A n \in Mutexes : n # m => holder'[n] = holder[n]
    BY <1>0, <2>1, MutexAssumption DEF UnlockLocked, TypeOK
  <2>3. QED
    BY <2>2
<1>2. \A u \in Threads : wait'[u] = wait[u] \/ (wait[u] = Waiting /\ wait'[u] = B_OK)
  <2>1. \/ wait' = wait
        \/ \E h \in Threads : wait[h] = Waiting /\ wait' = [wait EXCEPT ![h] = B_OK]
    <3>1. waiters[m] # <<>> => Head(waiters[m]) \in Threads
      BY <1>0 DEF TypeOK
    <3>2. QED
      BY <3>1 DEF UnlockLocked, thread_unblock
  <2>2. QED
    BY <1>0, <2>1 DEF TypeOK
<1>3. OperationSteps'
  BY <1>0, <1>2 DEF UseInv, OperationSteps
<1>4. SpinOwned'
  <2> SUFFICES ASSUME NEW n \in Mutexes, spin[n] # Nobody
               PROVE  pc'[spin[n]] \in {"switching", "switched"} /\ lock[spin[n]] = n
    BY <1>0 DEF SpinOwned
  <2>1. spin[n] \in Threads /\ pc[spin[n]] \in {"switching", "switched"} /\ lock[spin[n]] = n
    BY <1>0 DEF TypeOK, UseInv, SpinOwned
  <2>2. QED
    BY <1>0, <2>1
<1>5. OnlyGuardedDestroyed'
  BY <1>1 DEF UseInv, OnlyGuardedDestroyed
<1>6. UsersGone'
  BY <1>0, <1>1, <1>2 DEF UseInv, UsersGone
<1>7. QED
  BY <1>3, <1>4, <1>5, <1>6 DEF UseInv

\* The ends of waits, the timer, and the start of a switch.
LEMMA OtherStepsUseInv ==
    ASSUME NEW t \in Threads, IInv, UseInv,
           \/ BlockSucceeds(t) \/ BlockFails(t)
           \/ TimedBlockFails(t) \/ TimerFires(t) \/ TimedLockFails(t)
           \/ \E f, m \in Mutexes : mutex_switch_lock(t, f, m)
    PROVE  UseInv'
<1>0. TypeOK /\ holder' = holder
  BY DEF IInv, BlockSucceeds, BlockFails, TimedBlockFails, TimerFires, TimedLockFails,
         mutex_switch_lock
<1>1. OnlyGuardedDestroyed'
  BY <1>0 DEF UseInv, OnlyGuardedDestroyed
<1>2. CASE BlockSucceeds(t) \/ BlockFails(t) \/ TimedLockFails(t)
  <2>1. /\ spin' = spin /\ wait' = wait /\ pc'[t] = "idle" /\ lock'[t] = Nobody
        /\ pc[t] \in {"blocked", "timed", "failed"}
        /\ \A u \in Threads : u # t => pc'[u] = pc[u] /\ lock'[u] = lock[u]
    BY <1>0, <1>2 DEF BlockSucceeds, BlockFails, TimedLockFails, Return, TypeOK
  <2>2. OperationSteps'
    BY <2>1 DEF UseInv, OperationSteps
  <2>3. SpinOwned'
    <3> SUFFICES ASSUME NEW n \in Mutexes, spin[n] # Nobody
                 PROVE  /\ pc'[spin[n]] \in {"switching", "switched"}
                        /\ lock'[spin[n]] = n
      BY <2>1 DEF SpinOwned
    <3>1. /\ spin[n] \in Threads /\ spin[n] # t
          /\ pc[spin[n]] \in {"switching", "switched"} /\ lock[spin[n]] = n
      BY <1>0, <2>1 DEF TypeOK, UseInv, SpinOwned
    <3>2. QED
      BY <2>1, <3>1
  <2>4. UsersGone'
    BY <1>0, <2>1, MutexAssumption DEF UseInv, UsersGone
  <2>5. QED
    BY <1>1, <2>2, <2>3, <2>4 DEF UseInv
<1>3. CASE TimedBlockFails(t) \/ TimerFires(t)
  <2>1. /\ spin' = spin /\ lock' = lock /\ pc[t] = "timed" /\ pc'[t] \in {"timed", "failed"}
        /\ \A u \in Threads : u # t => pc'[u] = pc[u] /\ wait'[u] = wait[u]
    BY <1>0, <1>3 DEF TimedBlockFails, TimerFires, thread_block_timeout, thread_unblock,
                      TypeOK
  <2>2. OperationSteps'
    BY <2>1 DEF UseInv, OperationSteps
  <2>3. SpinOwned'
    <3> SUFFICES ASSUME NEW n \in Mutexes, spin[n] # Nobody
                 PROVE  /\ pc'[spin[n]] \in {"switching", "switched"}
                        /\ lock'[spin[n]] = n
      BY <2>1 DEF SpinOwned
    <3>1. /\ spin[n] \in Threads /\ spin[n] # t
          /\ pc[spin[n]] \in {"switching", "switched"} /\ lock[spin[n]] = n
      BY <1>0, <2>1 DEF TypeOK, UseInv, SpinOwned
    <3>2. QED
      BY <2>1, <3>1
  <2>4. UsersGone'
    BY <1>0, <2>1 DEF UseInv, UsersGone
  <2>5. QED
    BY <1>1, <2>2, <2>3, <2>4 DEF UseInv
<1>4. ASSUME NEW f \in Mutexes, NEW m \in Mutexes, mutex_switch_lock(t, f, m)
      PROVE  UseInv'
  <2>1. /\ spin[m] = Nobody /\ wait' = wait /\ pc[t] = "idle" /\ MayTry(t, m)
        /\ spin' = [spin EXCEPT ![m] = t]
        /\ pc' = [pc EXCEPT ![t] = "switching"]
        /\ lock' = [lock EXCEPT ![t] = m]
    BY <1>4 DEF mutex_switch_lock, MayLock, MayTry, SpinFree
  <2>2. holder[m] # Destroyed
    BY <2>1, ReachedNotDestroyed
  <2>3. OperationSteps'
    BY <1>0, <2>1, MutexAssumption DEF TypeOK, IInv, OperationOK, UseInv, OperationSteps
  <2>4. SpinOwned'
    BY <1>0, <2>1, MutexAssumption DEF TypeOK, UseInv, SpinOwned
  <2>5. UsersGone'
    BY <1>0, <2>1, <2>2 DEF TypeOK, UseInv, UsersGone
  <2>6. QED
    BY <1>1, <2>3, <2>4, <2>5 DEF UseInv
<1>5. QED
  BY <1>2, <1>3, <1>4

\* mutex_destroy(): whoever has an operation on the mutex in progress sleeps in its queue
\* and is woken with B_ERROR, or was woken by an earlier destruction.
LEMMA DestroyUseInv ==
    ASSUME NEW t \in Threads, NEW m \in Mutexes, IInv, UseInv, mutex_destroy(t, m)
    PROVE  UseInv'
<1>0. /\ TypeOK /\ pc[t] = "idle" /\ holder[m] \in {Nobody, t} /\ Nobody \notin Threads
      /\ spin[m] = Nobody
      /\ wait' = UnblockAll(wait, {u \in Threads : InQueue(m, u)}, B_ERROR)
      /\ holder' = [holder EXCEPT ![m] = Destroyed]
      /\ spin' = spin /\ pc' = pc /\ lock' = lock
  BY MutexAssumption DEF IInv, mutex_destroy, SpinFree
<1>1. PICK g \in Mutexes : <<g, m>> \in Guards
  <2>1. PICK h \in held[t] : <<h, m>> \in Guards
    BY DEF mutex_destroy
  <2>2. QED
    BY <1>0, <2>1 DEF TypeOK
<1>2. m \notin TimedLocks
  BY <1>1, GuardedNotTimed
<1>3. /\ \A u \in Threads : InQueue(m, u) /\ wait[u] = Waiting => wait'[u] = B_ERROR
      /\ \A u \in Threads :
            wait'[u] = wait[u] \/ (wait[u] = Waiting /\ wait'[u] = B_ERROR)
  <2>1. \A u \in Threads :
           wait'[u] = IF InQueue(m, u) /\ wait[u] = Waiting THEN B_ERROR ELSE wait[u]
    BY <1>0 DEF UnblockAll
  <2>2. QED
    BY <2>1
<1>4. OperationSteps'
  BY <1>0, <1>3 DEF UseInv, OperationSteps
<1>5. SpinOwned'
  BY <1>0 DEF UseInv, SpinOwned
<1>6. OnlyGuardedDestroyed'
  BY <1>0, <1>1 DEF TypeOK, UseInv, OnlyGuardedDestroyed
<1>7. ASSUME NEW u \in Threads, lock[u] = m
      PROVE  pc[u] = "blocked" /\ wait'[u] = B_ERROR
  <2>1. pc[u] # "idle" /\ pc[u] \notin {"switching", "switched", "timed", "failed"}
    BY <1>0, <1>2, <1>7, MutexAssumption DEF UseInv, OperationSteps, TypeOK
  <2>2. pc[u] = "blocked" /\ u # t
    BY <1>0, <2>1 DEF TypeOK
  <2>3. wait[u] # B_OK
    BY <1>0, <1>7, <2>2 DEF IInv, HolderChecksHold
  <2>4. wait[u] = Waiting => InQueue(m, u)
    BY <1>7, <2>2 DEF IInv, SleeperQueued
  <2>5. wait[u] \in {Waiting, B_ERROR}
    BY <2>2, <2>3 DEF UseInv, OperationSteps
  <2>6. QED
    BY <1>3, <2>2, <2>4, <2>5
<1>8. UsersGone'
  <2> SUFFICES ASSUME NEW n \in Mutexes, holder'[n] = Destroyed
               PROVE  /\ spin[n] = Nobody
                      /\ \A u \in Threads :
                            lock[u] = n => pc[u] = "blocked" /\ wait'[u] = B_ERROR
    BY <1>0 DEF UsersGone
  <2>1. CASE n = m
    BY <1>0, <1>7, <2>1
  <2>2. CASE n # m
    <3>1. holder[n] = Destroyed
      BY <1>0, <2>2 DEF TypeOK
    <3>2. QED
      BY <1>3, <3>1 DEF UseInv, UsersGone
  <2>3. QED
    BY <2>1, <2>2
<1>9. QED
  BY <1>4, <1>5, <1>6, <1>8 DEF UseInv

\* Every step keeps it.
LEMMA NextUseInv == IInv /\ UseInv /\ [Next]_vars => UseInv'
<1> SUFFICES ASSUME IInv, UseInv, [Next]_vars PROVE UseInv'
  OBVIOUS
<1>0. TypeOK /\ OperationOK
  BY DEF IInv
<1>1. CASE UNCHANGED vars
  BY <1>1 DEF vars, UseInv, OperationSteps, SpinOwned, OnlyGuardedDestroyed, UsersGone
<1>2. ASSUME NEW t \in Threads, NEW m \in Mutexes,
             _mutex_lock(t, m) \/ _mutex_trylock(t, m)
             \/ _mutex_lock_with_timeout(t, m)
      PROVE  UseInv'
  <2>1. pc[t] = "idle" /\ spin' = spin
    BY <1>2 DEF _mutex_lock, _mutex_trylock, _mutex_lock_with_timeout, MayLock, MayTry
  <2>2. \/ LockLocked(t, m, "blocked")
        \/ m \in TimedLocks /\ LockLocked(t, m, "timed")
    BY <1>2 DEF _mutex_lock, _mutex_trylock, _mutex_lock_with_timeout, LockLocked
  <2>3. QED
    BY <2>1, <2>2, LockUseInv
<1>3. ASSUME NEW t \in Threads, SwitchLocks(t)
      PROVE  UseInv'
  <2>1. lock[t] \in Mutexes
    BY <1>0, <1>3 DEF SwitchLocks, OperationOK
  <2>2. QED
    BY <1>3, <2>1, LockUseInv DEF SwitchLocks
<1>4. ASSUME NEW t \in Threads, NEW m \in Mutexes, _mutex_unlock(t, m)
      PROVE  UseInv'
  BY <1>4, UnlockUseInv DEF _mutex_unlock
<1>5. ASSUME NEW t \in Threads, SwitchUnlocks(t)
      PROVE  UseInv'
  <2>1. from[t] \in held[t]
    BY <1>0, <1>5 DEF SwitchUnlocks, OperationOK
  <2>2. QED
    BY <1>5, <2>1, UnlockUseInv DEF SwitchUnlocks
<1>6. ASSUME NEW t \in Threads, NEW u \in Threads, NEW m \in Mutexes,
             mutex_transfer_lock(t, m, u) \/ mutex_init(t, m)
      PROVE  UseInv'
  <2>1. /\ wait' = wait /\ spin' = spin /\ pc' = pc /\ lock' = lock
        /\ \A n \in Mutexes : holder'[n] = Destroyed => holder[n] = Destroyed
    BY <1>0, <1>6, MutexAssumption DEF mutex_transfer_lock, mutex_init, TypeOK
  <2>2. QED
    BY <2>1 DEF UseInv, OperationSteps, SpinOwned, OnlyGuardedDestroyed, UsersGone
<1>7. CASE Next
  <2>1. PICK t \in Threads : Continue(t) \/ Call(t) \/ TimerFires(t)
    BY <1>7 DEF Next
  <2>2. CASE Continue(t)
    BY <1>3, <1>5, <2>2, OtherStepsUseInv DEF Continue
  <2>3. CASE Call(t)
    BY <1>2, <1>4, <1>6, <2>3, OtherStepsUseInv, DestroyUseInv DEF Call
  <2>4. CASE TimerFires(t)
    BY <2>4, OtherStepsUseInv
  <2>5. QED
    BY <2>1, <2>2, <2>3, <2>4
<1>8. QED
  BY <1>1, <1>7

\* A destroyed mutex has no user left, if mutexes that can go away are not locked
\* with a timeout: no waiter, no spinlock owner, no holder, and the threads that slept on
\* it have been woken with B_ERROR.
THEOREM DestroyedMutexUnused == Spec => []DestroyedUnused
<1>1. Spec => []UseInv
  BY InvariantHolds, InitUseInv, NextUseInv, PTL DEF Spec
<1>2. IInv /\ UseInv => DestroyedUnused
  <2> SUFFICES ASSUME IInv, UseInv, NEW m \in Mutexes, holder[m] = Destroyed
               PROVE  /\ waiters[m] = <<>> /\ spin[m] = Nobody
                      /\ \A t \in Threads :
                            /\ m \notin held[t]
                            /\ lock[t] = m => pc[t] = "blocked" /\ wait[t] = B_ERROR
    BY DEF DestroyedUnused
  <2>1. waiters[m] \in Seq(Threads) /\ Destroyed \notin Threads
    BY MutexAssumption DEF IInv, TypeOK
  <2>2. waiters[m] = <<>>
    BY <2>1 DEF IInv, QueueHasHolder
  <2>3. \A t \in Threads : m \notin held[t]
    BY <2>1 DEF IInv, HolderChecksHold
  <2>4. QED
    BY <2>2, <2>3 DEF UseInv, UsersGone
<1>3. QED
  BY <1>1, <1>2, InvariantHolds, PTL

\* Unlocking "from" and queueing up for "to" is one step for everybody else: the thread
\* that has unlocked "from" keeps the spinlock of "to", which all who change its
\* queue or destroy it need.
THEOREM SwitchAtomic == Spec => SwitchIsAtomic
<1>1. Spec => []UseInv
  BY InvariantHolds, InitUseInv, NextUseInv, PTL DEF Spec
<1> DEFINE Kept(t) ==
      \/ pc'[t] # "switched"
      \/ waiters'[lock[t]] = waiters[lock[t]] /\ holder'[lock[t]] # Destroyed
<1>2. ASSUME IInv, UseInv, [Next]_vars, NEW t \in Threads, pc[t] = "switched"
      PROVE  Kept(t)
  <2> DEFINE m == lock[t]
  <2>0. TypeOK /\ m \in Mutexes /\ spin[m] = t /\ t # Nobody /\ holder[m] # Destroyed
    BY <1>2, MutexAssumption
       DEF IInv, OperationOK, UseInv, OperationSteps, UsersGone
  <2>1. CASE UNCHANGED vars
    BY <2>0, <2>1 DEF vars
  <2>2. ASSUME NEW u \in Threads, Continue(u) \/ Call(u) \/ TimerFires(u)
        PROVE  Kept(t)
    <3>1. CASE SwitchLocks(u)
      <4>1. CASE u = t
        <5>1. pc'[t] # "switched"
          BY <2>0, <3>1, <4>1
             DEF SwitchLocks, LockLocked, TakeFree, Enqueue, Return, TypeOK
        <5>2. QED
          BY <5>1
      <4>2. CASE u # t
        <5>1. lock[u] # m /\ lock[u] \in Mutexes
          BY <1>2, <2>0, <3>1, <4>2 DEF SwitchLocks, UseInv, OperationSteps, IInv, OperationOK
        <5>2. waiters'[m] = waiters[m] /\ holder'[m] = holder[m]
          BY <2>0, <3>1, <5>1 DEF SwitchLocks, LockLocked, TakeFree, Enqueue, TypeOK
        <5>3. QED
          BY <2>0, <5>2
      <4>3. QED
        BY <4>1, <4>2
    <3>2. CASE SwitchUnlocks(u)
      <4>1. from[u] # m /\ from[u] \in Mutexes
        BY <1>2, <2>0, <3>2 DEF SwitchUnlocks, SpinFree, IInv, OperationOK, TypeOK
      <4>2. waiters'[m] = waiters[m] /\ holder'[m] = holder[m]
        BY <2>0, <3>2, <4>1 DEF SwitchUnlocks, UnlockLocked, TypeOK
      <4>3. QED
        BY <2>0, <4>2
    <3>3. CASE BlockSucceeds(u) \/ BlockFails(u) \/ TimedBlockFails(u) \/ TimerFires(u)
               \/ \E f, n \in Mutexes : mutex_switch_lock(u, f, n)
      BY <2>0, <3>3 DEF BlockSucceeds, BlockFails, TimedBlockFails, TimerFires,
                        mutex_switch_lock
    <3>4. CASE TimedLockFails(u)
      <4>1. lock[u] # m /\ holder' = holder
        BY <2>0, <3>4 DEF TimedLockFails, SpinFree
      <4>2. waiters'[m] = waiters[m]
        BY <2>0, <3>4, <4>1 DEF TimedLockFails, TypeOK
      <4>3. QED
        BY <2>0, <4>1, <4>2
    <3>5. ASSUME NEW n \in Mutexes,
                 \/ _mutex_lock(u, n) \/ _mutex_trylock(u, n)
                 \/ _mutex_lock_with_timeout(u, n)
          PROVE  Kept(t)
      <4>1. n # m
        BY <2>0, <3>5 DEF _mutex_lock, _mutex_trylock, _mutex_lock_with_timeout, SpinFree
      <4>2. waiters'[m] = waiters[m] /\ holder'[m] = holder[m]
        BY <2>0, <3>5, <4>1
           DEF _mutex_lock, _mutex_trylock, _mutex_lock_with_timeout, LockLocked,
               TakeFree, Enqueue, TypeOK
      <4>3. QED
        BY <2>0, <4>2
    <3>6. ASSUME NEW n \in Mutexes, _mutex_unlock(u, n) \/ mutex_destroy(u, n)
          PROVE  Kept(t)
      <4>1. n # m
        BY <2>0, <3>6 DEF _mutex_unlock, mutex_destroy, SpinFree
      <4>2. waiters'[m] = waiters[m] /\ holder'[m] = holder[m]
        BY <2>0, <3>6, <4>1 DEF _mutex_unlock, UnlockLocked, mutex_destroy, TypeOK
      <4>3. QED
        BY <2>0, <4>2
    <3>7. ASSUME NEW n \in Mutexes, mutex_init(u, n)
          PROVE  Kept(t)
      <4>1. n # m
        BY <2>0, <3>7 DEF mutex_init
      <4>2. waiters'[m] = waiters[m] /\ holder'[m] = holder[m]
        BY <2>0, <3>7, <4>1 DEF mutex_init, TypeOK
      <4>3. QED
        BY <2>0, <4>2
    <3>8. ASSUME NEW n \in Mutexes, NEW v \in Threads, mutex_transfer_lock(u, n, v)
          PROVE  Kept(t)
      <4>1. waiters' = waiters /\ holder'[m] # Destroyed
        BY <2>0, <3>8, MutexAssumption DEF mutex_transfer_lock, TypeOK
      <4>2. QED
        BY <4>1
    <3>9. QED
      BY <2>2, <3>1, <3>2, <3>3, <3>4, <3>5, <3>6, <3>7, <3>8 DEF Continue, Call
  <2>3. QED
    BY <1>2, <2>1, <2>2 DEF Next
<1>3. IInv /\ UseInv /\ [Next]_vars =>
        \A t \in Threads : pc[t] = "switched" =>
          \/ pc'[t] # "switched"
          \/ /\ waiters'[lock[t]] = waiters[lock[t]]
             /\ holder'[lock[t]] # Destroyed
  BY <1>2
<1>4. QED
  BY <1>1, <1>3, InvariantHolds, PTL DEF Spec, SwitchIsAtomic

-----------------------------------------------------------------------------
(***************************************************************************)
(* The mutex implements FifoLock, for any constants: the holder, followed  *)
(* by the queue, behaves like the line of threads.                         *)
(***************************************************************************)

(* Facts about sequences *)

\* Joining the queue is joining the end of the line behind the holder.
LEMMA AppendBehind ==
    ASSUME NEW S, NEW q \in Seq(S), NEW x \in S, NEW y \in S
    PROVE  <<x>> \o Append(q, y) = Append(<<x>> \o q, y)
OBVIOUS

\* The first in line is the holder, the rest of it are the waiters.
LEMMA HeadTailOfLine ==
    ASSUME NEW S, NEW q \in Seq(S), NEW x \in S
    PROVE  /\ <<x>> \o q \in Seq(S) /\ <<x>> \o q # <<>>
           /\ Head(<<x>> \o q) = x /\ Tail(<<x>> \o q) = q
           /\ Len(<<x>> \o q) = Len(q) + 1
           /\ \A i \in 1..Len(q) : (<<x>> \o q)[i + 1] = q[i]
OBVIOUS

\* A queue that is not empty is its first thread followed by the rest.
LEMMA HeadAndTail ==
    ASSUME NEW S, NEW q \in Seq(S), q # <<>>
    PROVE  <<Head(q)>> \o Tail(q) = q
OBVIOUS

\* Removing the k-th entry behind the head.
LEMMA WithoutBehind ==
    ASSUME NEW S, NEW q \in Seq(S), NEW x \in S, NEW k \in 1..Len(q)
    PROVE  <<x>> \o Without(q, k) = Without(<<x>> \o q, k + 1)
<1> DEFINE w == Without(q, k)
           l == <<x>> \o q
           a == <<x>> \o w
           b == Without(l, k + 1)
<1>1. /\ w \in Seq(S) /\ Len(w) = Len(q) - 1
      /\ \A j \in 1..(Len(q) - 1) : w[j] = IF j < k THEN q[j] ELSE q[j + 1]
  BY WithoutType
<1>2. /\ l \in Seq(S) /\ Len(l) = Len(q) + 1 /\ Len(q) \in Nat
      /\ l[1] = x /\ \A i \in 1..Len(q) : l[i + 1] = q[i]
  OBVIOUS
<1> HIDE DEF w, l
<1>3. /\ b \in Seq(S) /\ Len(b) = Len(q)
      /\ \A j \in 1..Len(q) : b[j] = IF j < k + 1 THEN l[j] ELSE l[j + 1]
  <2>1. k + 1 \in 1..Len(l)
    BY <1>2
  <2>2. /\ b \in Seq(S) /\ Len(b) = Len(l) - 1
        /\ \A j \in 1..(Len(l) - 1) : b[j] = IF j < k + 1 THEN l[j] ELSE l[j + 1]
    BY <1>2, <2>1, WithoutType
  <2>3. Len(l) - 1 = Len(q)
    BY <1>2
  <2>4. QED
    BY <2>2, <2>3
<1>4. /\ a \in Seq(S) /\ Len(a) = Len(q)
      /\ a[1] = x /\ \A i \in 1..(Len(q) - 1) : a[i + 1] = w[i]
  BY <1>1, <1>2
<1> HIDE DEF a, b
<1>5. \A j \in 1..Len(q) : a[j] = b[j]
  <2> SUFFICES ASSUME NEW j \in 1..Len(q) PROVE a[j] = b[j]
    OBVIOUS
  <2>1. CASE j = 1
    BY <1>2, <1>3, <1>4, <2>1
  <2>2. CASE j # 1
    <3>1. j - 1 \in 1..(Len(q) - 1) /\ a[j] = w[j - 1]
      BY <1>2, <1>4, <2>2
    <3>2. CASE j - 1 < k
      BY <1>1, <1>2, <1>3, <3>1, <3>2
    <3>3. CASE ~(j - 1 < k)
      BY <1>1, <1>2, <1>3, <3>1, <3>3
    <3>4. QED
      BY <3>2, <3>3
  <2>3. QED
    BY <2>1, <2>2
<1>6. a = b
  BY <1>3, <1>4, <1>5
<1>7. QED
  BY <1>6 DEF a, b, w, l

-----------------------------------------------------------------------------
(* The steps *)

\* The line of a mutex that is held, and of one that is not.
LEMMA LineOfMutex ==
    ASSUME IInv, NEW m \in Mutexes
    PROVE  /\ waiters[m] \in Seq(Threads)
           /\ holder[m] \in Threads => Line[m] = <<holder[m]>> \o waiters[m]
           /\ holder[m] \notin Threads => Line[m] = <<>> /\ waiters[m] = <<>>
<1>1. waiters[m] \in Seq(Threads)
  BY DEF IInv, TypeOK
<1>2. ASSUME holder[m] \notin Threads PROVE waiters[m] = <<>>
  BY <1>1, <1>2 DEF IInv, QueueHasHolder
<1>3. QED
  BY <1>1, <1>2 DEF Line

\* A step that changes one mutex only changes the line of that mutex.
LEMMA LineChanges ==
    ASSUME NEW m \in Mutexes, NEW l, Line'[m] = l,
           \A n \in Mutexes \ {m} : holder'[n] = holder[n] /\ waiters'[n] = waiters[n]
    PROVE  Line' = [Line EXCEPT ![m] = l]
BY DEF Line

\* Taking a free mutex is Grab.
LEMMA GrabStep ==
    ASSUME IInv, IInv', NEW t \in Threads, NEW m \in Mutexes, TakeFree(t, m)
    PROVE  Fifo!Grab(t, m)
<1>1. Line[m] = <<>> /\ waiters[m] = <<>>
  BY LineOfMutex, MutexAssumption DEF TakeFree
<1>2. /\ holder'[m] = t /\ waiters' = waiters
      /\ \A n \in Mutexes \ {m} : holder'[n] = holder[n]
  BY DEF TakeFree, IInv, TypeOK
<1>3. Line'[m] = <<t>>
  <2>1. Line'[m] = <<t>> \o <<>>
    BY <1>1, <1>2 DEF Line
  <2>2. <<t>> \o <<>> = <<t>>
    OBVIOUS
  <2>3. QED
    BY <2>1, <2>2
<1>4. QED
  BY <1>1, <1>2, <1>3, LineChanges DEF Fifo!Grab, TakeFree

\* Queueing up is Join.
LEMMA JoinStep ==
    ASSUME IInv, IInv', NEW t \in Threads, NEW m \in Mutexes, NEW step,
           Enqueue(t, m, step)
    PROVE  Fifo!Join(t, m)
<1>1. /\ holder[m] \in Threads /\ holder' = holder /\ held' = held
      /\ waiters'[m] = Append(waiters[m], t)
      /\ \A n \in Mutexes \ {m} : waiters'[n] = waiters[n]
  BY DEF Enqueue, IInv, TypeOK
<1>2. m \notin held[t]
  BY DEF Enqueue, IInv, HolderChecksHold
<1>3. waiters[m] \in Seq(Threads) /\ Line[m] = <<holder[m]>> \o waiters[m]
  BY <1>1, LineOfMutex
<1>4. Line'[m] = <<holder[m]>> \o Append(waiters[m], t)
  BY <1>1 DEF Line
<1>5. Line'[m] = Append(Line[m], t)
  BY <1>1, <1>3, <1>4, AppendBehind
<1>6. QED
  BY <1>1, <1>2, <1>5, LineChanges DEF Fifo!Join

\* _mutex_unlock(), with waiters or without, is Pass.
LEMMA PassStep ==
    ASSUME IInv, IInv', NEW t \in Threads, NEW m \in held[t], UnlockLocked(t, m)
    PROVE  m \in Mutexes /\ Fifo!Pass(t, m)
<1>1. /\ m \in Mutexes /\ holder[m] = t
      /\ held' = [held EXCEPT ![t] = @ \ {m}]
      /\ \A n \in Mutexes \ {m} : holder'[n] = holder[n] /\ waiters'[n] = waiters[n]
  BY DEF UnlockLocked, IInv, TypeOK
<1>2. waiters[m] \in Seq(Threads) /\ Line[m] = <<t>> \o waiters[m]
  BY <1>1, LineOfMutex
<1>3. Line'[m] = waiters[m]
  <2>1. CASE waiters[m] = <<>>
    <3>1. holder'[m] = Nobody
      BY <1>1, <2>1 DEF UnlockLocked, IInv, TypeOK
    <3>2. QED
      BY <1>1, <2>1, <3>1, MutexAssumption DEF Line
  <2>2. CASE waiters[m] # <<>>
    <3>1. /\ holder'[m] = Head(waiters[m]) /\ waiters'[m] = Tail(waiters[m])
          /\ Head(waiters[m]) \in Threads
      BY <1>1, <1>2, <2>2 DEF UnlockLocked, IInv, TypeOK
    <3>2. Line'[m] = <<Head(waiters[m])>> \o Tail(waiters[m])
      BY <1>1, <3>1 DEF Line
    <3>3. QED
      BY <1>2, <2>2, <3>2, HeadAndTail
  <2>3. QED
    BY <2>1, <2>2
<1>4. Line' = [Line EXCEPT ![m] = waiters[m]]
  BY <1>1, <1>3, LineChanges
<1>5. Line[m] # <<>> /\ Head(Line[m]) = t /\ Tail(Line[m]) = waiters[m]
  BY <1>2, HeadTailOfLine
<1>6. QED
  BY <1>1, <1>4, <1>5 DEF Fifo!Pass

\* mutex_transfer_lock() is Give.
LEMMA GiveStep ==
    ASSUME IInv, IInv', NEW t \in Threads, NEW u \in Threads, NEW m \in Mutexes,
           mutex_transfer_lock(t, m, u)
    PROVE  Fifo!Give(t, m, u)
<1>1. /\ holder[m] = t /\ m \in held[t] /\ held[u] = {} /\ waiters' = waiters
      /\ holder'[m] = u /\ \A n \in Mutexes \ {m} : holder'[n] = holder[n]
      /\ held' = [held EXCEPT ![t] = @ \ {m}, ![u] = {m}] /\ t # u
  BY DEF mutex_transfer_lock, IInv, TypeOK
<1>2. waiters[m] \in Seq(Threads) /\ Line[m] = <<t>> \o waiters[m]
  BY <1>1, LineOfMutex
<1>3. Line[m] # <<>> /\ Head(Line[m]) = t /\ Tail(Line[m]) = waiters[m]
  BY <1>2, HeadTailOfLine
<1>4. Line'[m] = <<u>> \o waiters[m]
  BY <1>1 DEF Line
<1>5. Line' = [Line EXCEPT ![m] = <<u>> \o waiters[m]]
  BY <1>1, <1>4, LineChanges
<1>6. held' = [held EXCEPT ![t] = @ \ {m}, ![u] = @ \cup {m}]
  BY <1>1 DEF IInv, TypeOK
<1>7. QED
  BY <1>1, <1>3, <1>5, <1>6 DEF Fifo!Give

\* mutex_destroy() is Close, or, of a free mutex, nothing.
LEMMA CloseStep ==
    ASSUME IInv, IInv', NEW t \in Threads, NEW m \in Mutexes, mutex_destroy(t, m)
    PROVE  Fifo!Close(t, m) \/ UNCHANGED <<Line, held>>
<1>1. /\ holder[m] = Nobody \/ (holder[m] = t /\ m \in held[t])
      /\ holder'[m] = Destroyed
      /\ held' = [held EXCEPT ![t] = @ \ {m}]
      /\ \A n \in Mutexes \ {m} : holder'[n] = holder[n] /\ waiters'[n] = waiters[n]
  BY DEF mutex_destroy, IInv, TypeOK
<1>2. Line'[m] = <<>>
  BY <1>1, MutexAssumption DEF Line
<1>3. Line' = [Line EXCEPT ![m] = <<>>]
  BY <1>1, <1>2, LineChanges
<1>4. CASE holder[m] = Nobody
  <2>1. Line[m] = <<>> /\ Line = [Line EXCEPT ![m] = Line[m]]
    BY <1>4, MutexAssumption DEF Line
  <2>2. m \notin held[t] /\ held \in [Threads -> SUBSET Mutexes]
    BY <1>4, MutexAssumption DEF IInv, TypeOK, HolderChecksHold
  <2>3. held[t] \ {m} = held[t]
    BY <2>2
  <2>4. held' = held
    BY <1>1, <2>2, <2>3
  <2>5. QED
    BY <1>3, <2>1, <2>4
<1>5. CASE holder[m] = t /\ m \in held[t]
  <2>1. waiters[m] \in Seq(Threads) /\ Line[m] = <<t>> \o waiters[m]
    BY <1>5, LineOfMutex
  <2>2. Line[m] # <<>> /\ Head(Line[m]) = t
    BY <2>1, HeadTailOfLine
  <2>3. QED
    BY <1>1, <1>3, <1>5, <2>2 DEF Fifo!Close
<1>6. QED
  BY <1>1, <1>4, <1>5

\* Leaving the queue after a timeout is Quit, or nothing if the thread was not queued.
LEMMA QuitStep ==
    ASSUME IInv, IInv', NEW t \in Threads, TimedLockFails(t),
           waiters' # waiters
    PROVE  /\ lock[t] \in Mutexes
           /\ \E i \in 1..Len(Line[lock[t]]) : Fifo!Quit(lock[t], i)
<1> DEFINE m == lock[t]
<1>1. m \in Mutexes /\ holder' = holder /\ held' = held
  BY DEF TimedLockFails, IInv, OperationOK
<1>2. PICK k \in 1..Len(waiters[m]) :
         waiters[m][k] = t /\ waiters' = [waiters EXCEPT ![m] = Without(@, k)]
  BY DEF TimedLockFails
<1>3. /\ waiters'[m] = Without(waiters[m], k)
      /\ \A n \in Mutexes \ {m} : waiters'[n] = waiters[n]
  BY <1>1, <1>2 DEF IInv, TypeOK
<1>4. holder[m] \in Threads /\ holder[m] # t
  BY <1>1, <1>2 DEF IInv, QueueHasHolder
<1>5. waiters[m] \in Seq(Threads) /\ Line[m] = <<holder[m]>> \o waiters[m]
  BY <1>1, <1>4, LineOfMutex
<1> HIDE DEF m
<1>6. Line'[m] = <<holder[m]>> \o Without(waiters[m], k)
  BY <1>1, <1>3, <1>4 DEF Line
<1>7. Line'[m] = Without(Line[m], k + 1)
  BY <1>4, <1>5, <1>6, WithoutBehind, ZenonT(30)
<1>8. k + 1 \in 1..Len(Line[m]) /\ Line[m][k + 1] = t
  BY <1>2, <1>4, <1>5, HeadTailOfLine
<1>9. m \notin held[t]
  BY <1>4 DEF IInv, HolderChecksHold
<1>10. Line' = [Line EXCEPT ![m] = Without(Line[m], k + 1)]
  BY <1>1, <1>3, <1>7, LineChanges
<1>11. Fifo!Quit(m, k + 1)
  BY <1>1, <1>8, <1>9, <1>10 DEF Fifo!Quit, Without
<1>12. QED
  BY <1>1, <1>8, <1>11 DEF m

\* Returning from a successful wait is Learn.
LEMMA LearnStep ==
    ASSUME IInv, NEW t \in Threads, BlockSucceeds(t)
    PROVE  lock[t] \in Mutexes /\ Fifo!Learn(t, lock[t])
<1>1. /\ lock[t] \in Mutexes /\ holder[lock[t]] = t
      /\ held' = [held EXCEPT ![t] = @ \cup {lock[t]}]
      /\ holder' = holder /\ waiters' = waiters
  BY DEF BlockSucceeds, IInv, OperationOK
<1>2. /\ waiters[lock[t]] \in Seq(Threads)
      /\ Line[lock[t]] = <<t>> \o waiters[lock[t]]
  BY <1>1, LineOfMutex
<1>3. Line[lock[t]] # <<>> /\ Head(Line[lock[t]]) = t
  BY <1>2, HeadTailOfLine
<1>4. Line' = Line
  BY <1>1 DEF Line
<1>5. QED
  BY <1>1, <1>3, <1>4 DEF Fifo!Learn

-----------------------------------------------------------------------------
\* Every step of the mutex code is a step of the line or leaves the line alone.
LEMMA StepRefines ==
    IInv /\ IInv' /\ [Next]_vars => [Fifo!FifoNext]_(Fifo!fifoVars)
<1> SUFFICES ASSUME IInv, IInv', [Next]_vars
             PROVE  Fifo!FifoNext \/ (Line' = Line /\ held' = held)
  BY DEF Fifo!fifoVars
<1>0. ASSUME holder' = holder, waiters' = waiters PROVE Line' = Line
  BY <1>0 DEF Line
<1>1. CASE UNCHANGED vars
  BY <1>0, <1>1 DEF vars
<1>2. ASSUME NEW t \in Threads, NEW m \in Mutexes,
             \/ _mutex_lock(t, m) \/ _mutex_trylock(t, m)
             \/ _mutex_lock_with_timeout(t, m)
             \/ SwitchLocks(t) /\ m = lock[t]
      PROVE  Fifo!FifoNext
  <2>1. TakeFree(t, m) \/ Enqueue(t, m, "blocked") \/ Enqueue(t, m, "timed")
    BY <1>2 DEF _mutex_lock, _mutex_trylock, _mutex_lock_with_timeout, SwitchLocks,
                LockLocked
  <2>2. Fifo!Grab(t, m) \/ Fifo!Join(t, m)
    BY <2>1, GrabStep, JoinStep
  <2>3. QED
    BY <2>2 DEF Fifo!FifoNext
<1>3. ASSUME NEW t \in Threads, SwitchLocks(t) PROVE Fifo!FifoNext
  BY <1>2, <1>3 DEF SwitchLocks, IInv, OperationOK
<1>4. ASSUME NEW t \in Threads, NEW m \in held[t], UnlockLocked(t, m)
      PROVE  Fifo!FifoNext
  BY <1>4, PassStep DEF Fifo!FifoNext
<1>5. ASSUME NEW t \in Threads, SwitchUnlocks(t) PROVE Fifo!FifoNext
  BY <1>4, <1>5 DEF SwitchUnlocks, IInv, OperationOK
<1>6. ASSUME NEW t \in Threads, TimedLockFails(t)
      PROVE  Fifo!FifoNext \/ (Line' = Line /\ held' = held)
  <2>1. CASE waiters' = waiters
    BY <1>0, <1>6, <2>1 DEF TimedLockFails
  <2>2. CASE waiters' # waiters
    BY <1>6, <2>2, QuitStep DEF Fifo!FifoNext
  <2>3. QED
    BY <2>1, <2>2
<1>7. ASSUME NEW t \in Threads, BlockSucceeds(t) PROVE Fifo!FifoNext
  BY <1>7, LearnStep DEF Fifo!FifoNext
<1>8. ASSUME NEW t \in Threads, NEW m \in Mutexes, mutex_init(t, m)
      PROVE  Line' = Line /\ held' = held
  <2>1. /\ holder[m] = Destroyed /\ holder'[m] = Nobody /\ held' = held
        /\ \A n \in Mutexes \ {m} : holder'[n] = holder[n] /\ waiters'[n] = waiters[n]
    BY <1>8 DEF mutex_init, IInv, TypeOK
  <2>2. Line[m] = <<>> /\ Line'[m] = <<>>
    BY <2>1, MutexAssumption DEF Line
  <2>3. Line' = [Line EXCEPT ![m] = <<>>]
    BY <2>1, <2>2, LineChanges
  <2>4. QED
    BY <2>1, <2>2, <2>3 DEF Line
<1>9. CASE Next
  <2>1. PICK t \in Threads : Continue(t) \/ Call(t) \/ TimerFires(t)
    BY <1>9 DEF Next
  <2>2. CASE Continue(t)
    <3>1. CASE BlockFails(t) \/ TimedBlockFails(t)
      BY <1>0, <3>1 DEF BlockFails, TimedBlockFails
    <3>2. QED
      BY <1>3, <1>5, <1>6, <1>7, <2>2, <3>1 DEF Continue
  <2>3. CASE Call(t)
    <3>1. PICK m \in Mutexes :
             \/ _mutex_lock(t, m) \/ _mutex_trylock(t, m)
             \/ _mutex_lock_with_timeout(t, m) \/ _mutex_unlock(t, m)
             \/ mutex_destroy(t, m) \/ mutex_init(t, m)
             \/ \E u \in Threads : mutex_transfer_lock(t, m, u)
             \/ \E f \in Mutexes : mutex_switch_lock(t, f, m)
      BY <2>3 DEF Call
    <3>2. CASE _mutex_unlock(t, m)
      BY <1>4, <3>2 DEF _mutex_unlock
    <3>3. CASE mutex_destroy(t, m)
      BY <3>3, CloseStep DEF Fifo!FifoNext
    <3>4. CASE \E u \in Threads : mutex_transfer_lock(t, m, u)
      BY <3>4, GiveStep DEF Fifo!FifoNext
    <3>5. CASE \E f \in Mutexes : mutex_switch_lock(t, f, m)
      BY <1>0, <3>5 DEF mutex_switch_lock
    <3>6. QED
      BY <1>2, <1>8, <3>1, <3>2, <3>3, <3>4, <3>5
  <2>4. CASE TimerFires(t)
    BY <1>0, <2>4 DEF TimerFires
  <2>5. QED
    BY <2>1, <2>2, <2>3, <2>4
<1>10. QED
  BY <1>1, <1>9

\* Every behaviour of the mutex code is a behaviour of FifoLock: a mutex goes to
\* the threads in the order in which they queued up for it, and only the thread
\* that has it passes it on.
THEOREM MutexImplementsFifoLock == Spec => ImplementsFifoLock
<1>1. Init => Fifo!FifoInit
  BY MutexAssumption DEF Init, Fifo!FifoInit, Line
<1>2. QED
  BY <1>1, InvariantHolds, StepRefines, PTL DEF Spec, ImplementsFifoLock, Fifo!FifoSpec
=============================================================================
