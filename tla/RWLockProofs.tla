---------------------------- MODULE RWLockProofs ----------------------------
(***************************************************************************)
(* The safety properties of RWLock for any number of threads and any depth *)
(* of nesting: theorems of Spec that rest on one inductive invariant, IInv.*)
(*                                                                         *)
(* The properties alone are not inductive.  That a writer is let in only   *)
(* after the readers needs active_readers to be exact, that needs          *)
(* pending_readers to be exact when the last writer has left, that needs   *)
(* the queue and the grants to agree with where each thread is, and all of *)
(* it needs that count tells whether there is a writer, which it does      *)
(* because the readers are fewer than Base.                                *)
(***************************************************************************)
EXTENDS RWLock, FiniteSetTheorems, TLAPS

-----------------------------------------------------------------------------
(* Counting, and queues *)

\* Counting a set in which only t may come or go.
LEMMA CountMove ==
    ASSUME NEW S, IsFiniteSet(S), NEW T, NEW t, T \ {t} = S \ {t}
    PROVE  /\ IsFiniteSet(T) /\ Cardinality(S) \in Nat /\ Cardinality(T) \in Nat
           /\ Cardinality(T) = Cardinality(S) - (IF t \in S THEN 1 ELSE 0)
                                              + (IF t \in T THEN 1 ELSE 0)
<1> DEFINE R == S \ {t}
<1>1. IsFiniteSet(R) /\ Cardinality(R) = Cardinality(S) - (IF t \in S THEN 1 ELSE 0)
  BY FS_RemoveElement, FS_CardinalityType
<1>2. T = IF t \in T THEN R \cup {t} ELSE R
  OBVIOUS
<1>3. t \notin R
  OBVIOUS
<1> HIDE DEF R
<1>4. /\ IsFiniteSet(R \cup {t})
      /\ Cardinality(R \cup {t}) = Cardinality(R) + 1
  BY <1>1, <1>3, FS_AddElement
<1>5. IsFiniteSet(T) /\ Cardinality(S) \in Nat /\ Cardinality(R) \in Nat
  BY <1>1, <1>2, <1>4, FS_CardinalityType
<1>6. Cardinality(T) \in Nat
  BY <1>5, FS_CardinalityType
<1>7. CASE t \in T
  BY <1>1, <1>2, <1>4, <1>5, <1>6, <1>7
<1>8. CASE t \notin T
  BY <1>1, <1>2, <1>5, <1>6, <1>8
<1>9. QED
  BY <1>7, <1>8

\* A set of pairs with one pair for each element of S has as many elements.
LEMMA CountPairs ==
    ASSUME NEW S, IsFiniteSet(S), NEW f
    PROVE  /\ IsFiniteSet({<<x, f[x]>> : x \in S})
           /\ Cardinality({<<x, f[x]>> : x \in S}) = Cardinality(S)
<1> DEFINE T == {<<x, f[x]>> : x \in S}
           g == [x \in S |-> <<x, f[x]>>]
<1>1. g \in Bijection(S, T)
  <2>1. g \in [S -> T]
    OBVIOUS
  <2>2. \A x, y \in S : g[x] = g[y] => x = y
    OBVIOUS
  <2>3. \A z \in T : \E x \in S : g[x] = z
    OBVIOUS
  <2>4. QED
    BY <2>1, <2>2, <2>3 DEF Bijection, Injection, Surjection, IsInjective
<1>2. ExistsBijection(S, T)
  BY <1>1 DEF ExistsBijection
<1> HIDE DEF T, g
<1>3. IsFiniteSet(T) /\ Cardinality(T) = Cardinality(S)
  BY <1>2, FS_Bijection
<1>4. QED
  BY <1>3 DEF T

\* The leading elements of a sequence with some property are its first n entries.
LEMMA InitialSegment ==
    ASSUME NEW m \in Nat, NEW S \in SUBSET (1..m),
           \A i \in S : \A j \in 1..i : j \in S
    PROVE  /\ Cardinality(S) \in 0..m
           /\ S = 1..Cardinality(S)
<1>1. IsFiniteSet(1..m) /\ Cardinality(1..m) = m
  BY FS_Interval
<1>2. IsFiniteSet(S) /\ Cardinality(S) <= m /\ Cardinality(S) \in Nat
  BY <1>1, FS_Subset, FS_CardinalityType, ZenonT(30)
<1> DEFINE n == Cardinality(S)
<1>3. ASSUME NEW i \in S PROVE i <= n
  <2>1. 1..i \in SUBSET S /\ i \in Nat /\ i >= 1
    OBVIOUS
  <2>2. Cardinality(1..i) = i
    BY <2>1, FS_Interval
  <2>3. Cardinality(1..i) <= n
    BY <1>2, <2>1, FS_Subset
  <2>4. QED
    BY <2>2, <2>3
<1>4. S \in SUBSET (1..n)
  BY <1>3
<1>5. IsFiniteSet(1..n) /\ Cardinality(1..n) = n
  BY <1>2, FS_Interval
<1>6. S = 1..n
  BY <1>4, <1>5, FS_Subset
<1>7. QED
  BY <1>2, <1>6

\* Removing the i-th entry of a sequence gives a sequence one shorter.
LEMMA WithoutType ==
    ASSUME NEW S, NEW q \in Seq(S), NEW i \in 1..Len(q)
    PROVE  /\ Without(q, i) \in Seq(S)
           /\ Len(Without(q, i)) = Len(q) - 1
           /\ \A j \in 1..(Len(q) - 1) :
                 Without(q, i)[j] = IF j < i THEN q[j] ELSE q[j + 1]
<1>1. Len(q) \in Nat /\ Len(q) - 1 \in Nat
  OBVIOUS
<1>2. \A j \in 1..(Len(q) - 1) : (IF j < i THEN q[j] ELSE q[j + 1]) \in S
  BY <1>1
<1>3. Without(q, i) \in [1..(Len(q) - 1) -> S]
  BY <1>2 DEF Without
<1>4. Without(q, i) \in Seq(S)
  BY <1>1, <1>3
<1>5. Len(Without(q, i)) = Len(q) - 1
  BY <1>1, <1>3, <1>4
<1>6. QED
  BY <1>4, <1>5 DEF Without

\* The entries of a sequence without its head.
LEMMA TailEntries ==
    ASSUME NEW S, NEW q \in Seq(S), q # <<>>
    PROVE  /\ Len(q) \in Nat \ {0}
           /\ Tail(q) \in Seq(S)
           /\ Len(Tail(q)) = Len(q) - 1
           /\ \A i \in 1..(Len(q) - 1) : Tail(q)[i] = q[i + 1]
           /\ Head(q) = q[1] /\ Head(q) \in S
OBVIOUS

-----------------------------------------------------------------------------
\* Where in the code a thread may be, and what is in the queue.
Steps == {"idle", "read", "timedRead", "readWait", "timedReadWait", "writeWait",
          "readFailed", "readUnlock"}

Waiter == [thread : Threads, writer : BOOLEAN]

\* The types.
TypeInv ==
    /\ WaitTypeOK
    /\ count \in Nat /\ owner_count \in Nat
    /\ active_readers \in Nat /\ pending_readers \in Nat
    /\ holder \in Threads \cup {Nobody}
    /\ waiters \in Seq(Waiter)
    /\ granted \in [Threads -> BOOLEAN]
    /\ destroyed \in BOOLEAN
    /\ pc \in [Threads -> Steps]
    /\ reads \in [Threads -> 0..MaxNest]
    /\ writes \in [Threads -> 0..MaxNest]

\* The steps of a thread whose rw_lock_waiter is or was in the queue.
ReaderWaits == {"readWait", "timedReadWait", "readFailed"}
Waits == ReaderWaits \cup {"writeWait"}

Queued == {waiters[i].thread : i \in 1..Len(waiters)}

\* A thread is queued at most once, has not been let in, and waits for what its entry says.
QueueInv ==
    /\ \A i, j \in 1..Len(waiters) : waiters[i].thread = waiters[j].thread => i = j
    /\ \A i \in 1..Len(waiters) :
          /\ ~granted[waiters[i].thread]
          /\ IF waiters[i].writer THEN pc[waiters[i].thread] = "writeWait"
             ELSE pc[waiters[i].thread] \in ReaderWaits

\* After rw_lock_destroy(): nobody has a lock, and whoever waited was told so.
DeadInv ==
    /\ waiters = <<>> /\ pending_readers = 0
    /\ \A t \in Threads :
          /\ reads[t] = 0 /\ writes[t] = 0
          /\ pc[t] \in {"idle"} \cup Waits
          /\ wait[t] # Waiting
          /\ pc[t] \in Waits \ {"readFailed"} => wait[t] # B_OK /\ ~granted[t]

\* Who waits is queued or has been let in, and its status word says which; only a timed
\* wait may have ended by itself.
WaitInv ==
    \A t \in Threads :
        /\ pc[t] \in Waits => granted[t] \/ t \in Queued
        /\ pc[t] \in {"readWait", "writeWait"} =>
              wait[t] = IF granted[t] THEN B_OK ELSE Waiting
        /\ pc[t] = "timedReadWait" => 
              wait[t] \in IF granted[t] THEN {B_OK, B_TIMED_OUT} ELSE {Waiting, B_TIMED_OUT}
        /\ pc[t] \notin {"readWait", "timedReadWait", "writeWait"} => wait[t] # Waiting

\* The clients' rules: who waits has no lock, only the writer nests, and its nesting
\* leaves room for the call it is in.
ClientAt(t) ==
    /\ pc[t] \in Waits => reads[t] = 0 /\ writes[t] = 0
    /\ pc[t] \in {"read", "timedRead"} =>
          reads[t] < MaxNest /\ (writes[t] = 0 => reads[t] = 0)
    /\ pc[t] = "readUnlock" => reads[t] < MaxNest

ClientInv ==
    /\ \A t \in Threads : ClientAt(t)
    /\ \A t, u \in Threads : t # u => ~(reads[t] > 1 /\ reads[u] > 1)

\* A thread that has the write lock, or has been given it and is about to find out.
IsWriter(t) == writes[t] > 0 \/ (pc[t] = "writeWait" /\ granted[t])

\* What owner_count is for the holder: its locks, and the read lock it is giving up.
OwnerCount(t) == Base * writes[t] + reads[t] + IF pc[t] = "readUnlock" THEN 1 ELSE 0

\* holder is the writer; while there is one, no reader is pending, and no other thread
\* has a read lock or is about to give one up.
HolderAt(t) ==
    /\ IsWriter(t) => holder = t
    /\ holder = t =>
          /\ pending_readers = 0
          /\ IF writes[t] > 0
             THEN /\ pc[t] \in {"idle", "read", "timedRead", "readUnlock"}
                  /\ owner_count = OwnerCount(t)
             ELSE pc[t] = "writeWait" /\ granted[t]
    /\ holder \in Threads \ {t} => reads[t] = 0 /\ t \notin Leaving

HolderInv == \A t \in Threads : HolderAt(t)

\* While no writer has the lock: a queue starts with a writer that somebody keeps waiting,
\* active_readers is exact if there are writers, and pending_readers is exact if not.
FreeInv ==
    holder = Nobody =>
        /\ pending_readers <= Cardinality(AboutToRead)
        /\ waiters # <<>> => waiters[1].writer /\ active_readers + pending_readers > 0
        /\ IF Writers # {}
           THEN active_readers = Cardinality(ReadLocks) + Cardinality(Leaving)
           ELSE /\ pending_readers = Cardinality(AboutToRead)
                /\ \A t \in Threads : pc[t] # "readUnlock"

\* The inductive invariant, for a lock in use and for a destroyed one.
LiveInv == CountIsExact /\ WaitInv /\ ClientInv /\ HolderInv /\ FreeInv

IInv == TypeInv /\ QueueInv /\ IF destroyed THEN DeadInv ELSE LiveInv

-----------------------------------------------------------------------------

USE RWLockAssumption
USE DEF WaitTypeOK, Results, Waiting, B_OK, B_ERROR, B_TIMED_OUT, B_INTERRUPTED,
        thread_is_blocked

\* Arithmetic that the steps below need.
LEMMA OneLess == \A n, m \in Nat : n >= 1 /\ n <= m => n - 1 \in 0..m
OBVIOUS

\* A holder with two write locks keeps one.
LEMMA OneWriteLess == \A o, b \in Nat : o >= 2 * b => o - b \in Nat
OBVIOUS

\* The readers that are left when the old writer's own and the woken ones are taken away.
LEMMA Remain == \A r, m, n, k \in Nat : m = k + n => (r + m) - r - n = k
OBVIOUS

\* The levels of nesting.
LEMMA NestInterval == IsFiniteSet(1..MaxNest) /\ Cardinality(1..MaxNest) = MaxNest
<1>1. 1 \in Int /\ MaxNest \in Int
  OBVIOUS
<1>2. QED
  BY <1>1, FS_Interval

\* The sets that are counted are finite.
LEMMA CountedFinite ==
    /\ IsFiniteSet(ReadLocks) /\ IsFiniteSet(Entering) /\ IsFiniteSet(Writers)
    /\ IsFiniteSet(AboutToRead) /\ IsFiniteSet(Leaving)
    /\ Cardinality(ReadLocks) \in Nat /\ Cardinality(Entering) \in Nat
    /\ Cardinality(Writers) \in Nat /\ Cardinality(AboutToRead) \in Nat
    /\ Cardinality(Leaving) \in Nat
<1>1. IsFiniteSet(1..MaxNest)
  BY NestInterval
<1>2. IsFiniteSet(Threads \X (1..MaxNest))
  BY <1>1, FS_Product
<1>3. IsFiniteSet(ReadLocks)
  BY <1>2, FS_Subset DEF ReadLocks
<1>4. /\ Entering \in SUBSET Threads /\ Writers \in SUBSET Threads
      /\ AboutToRead \in SUBSET Threads /\ Leaving \in SUBSET Threads
  BY DEF Entering, Writers, AboutToRead, Leaving
<1>5. /\ IsFiniteSet(Entering) /\ IsFiniteSet(Writers)
      /\ IsFiniteSet(AboutToRead) /\ IsFiniteSet(Leaving)
  BY <1>4, FS_Subset
<1>6. QED
  BY <1>3, <1>5, FS_CardinalityType

\* A thread gets a read lock or gives one up.
LEMMA ReadLocksMove ==
    ASSUME NEW t \in Threads, TypeInv, TypeInv',
           \A u \in Threads \ {t} : reads'[u] = reads[u],
           reads'[t] \in {reads[t] - 1, reads[t], reads[t] + 1}
    PROVE  Cardinality(ReadLocks') = Cardinality(ReadLocks) + reads'[t] - reads[t]
<1> DEFINE k == IF reads'[t] > reads[t] THEN reads'[t] ELSE reads[t]
<1>1. /\ k \in Nat /\ reads[t] \in 0..MaxNest /\ reads'[t] \in 0..MaxNest
      /\ reads[t] \in Nat /\ reads'[t] \in Nat
  BY DEF TypeInv
<1>2. ReadLocks' \ {<<t, k>>} = ReadLocks \ {<<t, k>>}
  <2>1. ASSUME NEW u \in Threads, NEW i \in 1..MaxNest, <<u, i>> # <<t, k>>
        PROVE  i <= reads'[u] <=> i <= reads[u]
    BY <1>1, <2>1
  <2>2. QED
    BY <2>1 DEF ReadLocks
<1>3. /\ Cardinality(ReadLocks') = Cardinality(ReadLocks)
            - (IF <<t, k>> \in ReadLocks THEN 1 ELSE 0)
            + (IF <<t, k>> \in ReadLocks' THEN 1 ELSE 0)
      /\ Cardinality(ReadLocks) \in Nat
  BY <1>2, CountedFinite, CountMove
<1>4. <<t, k>> \in ReadLocks <=> k \in 1..MaxNest /\ k <= reads[t]
  BY DEF ReadLocks
<1>5. <<t, k>> \in ReadLocks' <=> k \in 1..MaxNest /\ k <= reads'[t]
  BY DEF ReadLocks
<1>6. CASE reads'[t] = reads[t]
  BY <1>1, <1>3, <1>4, <1>5, <1>6
<1>7. CASE reads'[t] = reads[t] + 1
  BY <1>1, <1>3, <1>4, <1>5, <1>7
<1>8. CASE reads'[t] = reads[t] - 1
  BY <1>1, <1>3, <1>4, <1>5, <1>8
<1>9. QED
  BY <1>6, <1>7, <1>8

\* What a step of t that changes nobody else's position does to the counts.
LEMMA Counting ==
    ASSUME NEW t \in Threads, TypeInv, TypeInv',
           \A u \in Threads \ {t} :
              reads'[u] = reads[u] /\ writes'[u] = writes[u] /\ pc'[u] = pc[u],
           reads'[t] \in {reads[t] - 1, reads[t], reads[t] + 1}
    PROVE  /\ Cardinality(ReadLocks') = Cardinality(ReadLocks) + reads'[t] - reads[t]
           /\ Cardinality(Entering') = Cardinality(Entering)
                  - (IF t \in Entering THEN 1 ELSE 0) + (IF t \in Entering' THEN 1 ELSE 0)
           /\ Cardinality(Writers') = Cardinality(Writers)
                  - (IF t \in Writers THEN 1 ELSE 0) + (IF t \in Writers' THEN 1 ELSE 0)
           /\ Cardinality(AboutToRead') = Cardinality(AboutToRead)
                  - (IF t \in AboutToRead THEN 1 ELSE 0)
                  + (IF t \in AboutToRead' THEN 1 ELSE 0)
           /\ Cardinality(ReadLocks') \in Nat /\ Cardinality(Entering') \in Nat
           /\ Cardinality(Writers') \in Nat /\ Cardinality(AboutToRead') \in Nat
<1>0. IsFiniteSet(Entering) /\ IsFiniteSet(Writers) /\ IsFiniteSet(AboutToRead)
  BY CountedFinite
<1>1. /\ Entering' \ {t} = Entering \ {t} /\ Writers' \ {t} = Writers \ {t}
      /\ AboutToRead' \ {t} = AboutToRead \ {t}
  BY DEF Entering, Writers, AboutToRead
<1>2. /\ Cardinality(Entering') = Cardinality(Entering)
                  - (IF t \in Entering THEN 1 ELSE 0) + (IF t \in Entering' THEN 1 ELSE 0)
      /\ Cardinality(Entering') \in Nat
  <2>1. IsFiniteSet(Entering) /\ Entering' \ {t} = Entering \ {t}
    BY <1>0, <1>1
  <2>2. QED
    BY <2>1, CountMove
<1>3. /\ Cardinality(Writers') = Cardinality(Writers)
                  - (IF t \in Writers THEN 1 ELSE 0) + (IF t \in Writers' THEN 1 ELSE 0)
      /\ Cardinality(Writers') \in Nat
  <2>1. IsFiniteSet(Writers) /\ Writers' \ {t} = Writers \ {t}
    BY <1>0, <1>1
  <2>2. QED
    BY <2>1, CountMove
<1>4. /\ Cardinality(AboutToRead') = Cardinality(AboutToRead)
                  - (IF t \in AboutToRead THEN 1 ELSE 0)
                  + (IF t \in AboutToRead' THEN 1 ELSE 0)
      /\ Cardinality(AboutToRead') \in Nat
  <2>1. IsFiniteSet(AboutToRead) /\ AboutToRead' \ {t} = AboutToRead \ {t}
    BY <1>0, <1>1
  <2>2. QED
    BY <2>1, CountMove
<1>5. Cardinality(ReadLocks') = Cardinality(ReadLocks) + reads'[t] - reads[t]
  BY ReadLocksMove
<1>6. Cardinality(ReadLocks') \in Nat
  <2>1. IsFiniteSet(1..MaxNest)
    BY NestInterval
  <2>2. IsFiniteSet(Threads \X (1..MaxNest))
    BY <2>1, FS_Product
  <2>3. IsFiniteSet(ReadLocks')
    BY <2>2, FS_Subset DEF ReadLocks
  <2>4. QED
    BY <2>3, FS_CardinalityType
<1>7. QED
  BY <1>2, <1>3, <1>4, <1>5, <1>6

\* The same for those on their way out, when t's step lets in nobody else.
LEMMA CountLeaving ==
    ASSUME NEW t \in Threads,
           \A u \in Threads \ {t} : pc'[u] = pc[u] /\ granted'[u] = granted[u]
    PROVE  /\ Cardinality(Leaving') = Cardinality(Leaving)
                  - (IF t \in Leaving THEN 1 ELSE 0) + (IF t \in Leaving' THEN 1 ELSE 0)
           /\ Cardinality(Leaving') \in Nat
           /\ Leaving' \ {t} = Leaving \ {t}
<1>1. Leaving' \ {t} = Leaving \ {t}
  BY DEF Leaving, Entering, AboutToRead
<1>2. QED
  BY <1>1, CountedFinite, CountMove

\* There are too few readers for them to look like a writer in count.
LEMMA CountBound ==
    ASSUME TypeInv, ClientInv, HolderInv
    PROVE  Cardinality(ReadLocks) + Cardinality(Entering) < Base
<1> DEFINE f == [u \in Threads |-> reads[u] + 1]
           C == {<<u, f[u]>> : u \in Entering}
<1>1. Cardinality(C) = Cardinality(Entering) /\ IsFiniteSet(C)
  BY CountedFinite, CountPairs
<1>2. ReadLocks \cap C = {}
  <2>1. \A u \in Threads : ~(reads[u] + 1 <= reads[u])
    BY DEF TypeInv
  <2>2. \A u \in Entering : u \in Threads /\ <<u, f[u]>> \notin ReadLocks
    BY <2>1 DEF Entering, ReadLocks
  <2>3. QED
    BY <2>2
<1>3. Cardinality(ReadLocks \cup C) = Cardinality(ReadLocks) + Cardinality(Entering)
  <2> HIDE DEF C
  <2>1. Cardinality(ReadLocks \cup C) = Cardinality(ReadLocks) + Cardinality(C) - Cardinality({})
    BY <1>1, <1>2, CountedFinite, FS_Union
  <2>2. QED
    BY <1>1, <2>1, CountedFinite, FS_EmptySet
<1>4. \A u \in Entering : u \in Threads /\ reads[u] + 1 \in 1..MaxNest
  BY DEF Entering, ClientInv, ClientAt, TypeInv, Waits, ReaderWaits
<1>5. \A u \in Threads : u \in Entering /\ reads[u] > 0 => holder = u
  BY DEF Entering, ClientInv, ClientAt, HolderInv, HolderAt, IsWriter, TypeInv, Waits,
         ReaderWaits
<1>6. \E d : \A u \in Threads \ {d} :
         reads[u] <= 1 /\ (u \in Entering => reads[u] = 0)
  <2>1. CASE \E d \in Threads : reads[d] > 1
    <3>1. PICK d \in Threads : reads[d] > 1
      BY <2>1
    <3>2. \A u \in Threads \ {d} : reads[u] <= 1 /\ holder # u
      BY <3>1 DEF ClientInv, HolderInv, HolderAt, TypeInv
    <3>3. \A u \in Threads : reads[u] \in Nat
      BY DEF TypeInv
    <3>4. QED
      BY <1>5, <3>2, <3>3
  <2>2. CASE \A d \in Threads : ~(reads[d] > 1)
    <3>1. \A u \in Threads : reads[u] \in Nat
      BY DEF TypeInv
    <3>2. ASSUME NEW u \in Threads \ {holder}
          PROVE  reads[u] <= 1 /\ (u \in Entering => reads[u] = 0)
      <4>1. u \in Threads /\ reads[u] \in Nat /\ ~(reads[u] > 1)
        BY <2>2, <3>1
      <4>2. ~(u \in Entering /\ reads[u] > 0)
        BY <1>5, <4>1
      <4>3. QED
        BY <4>1, <4>2
    <3>3. QED
      BY <3>2
  <2>3. QED
    BY <2>1, <2>2
<1>7. PICK d : \A u \in Threads \ {d} :
         reads[u] <= 1 /\ (u \in Entering => reads[u] = 0)
  BY <1>6
<1> DEFINE A == Threads \X {1}
           D == {d} \X (1..MaxNest)
<1>8. ReadLocks \subseteq A \cup D
  <2>1. ASSUME NEW u \in Threads, NEW i \in 1..MaxNest, i <= reads[u]
        PROVE  <<u, i>> \in A \cup D
    <3>1. CASE u = d
      BY <3>1
    <3>2. CASE u # d
      <4>1. i = 1
        BY <1>7, <2>1, <3>2 DEF TypeInv
      <4>2. QED
        BY <4>1
    <3>3. QED
      BY <3>1, <3>2
  <2>2. QED
    BY <2>1 DEF ReadLocks
<1>9. C \subseteq A \cup D
  <2>1. ASSUME NEW u \in Entering PROVE <<u, f[u]>> \in A \cup D
    BY <1>4, <1>7
  <2>2. QED
    BY <2>1
<1>10. /\ IsFiniteSet(A) /\ Cardinality(A) = Cardinality(Threads)
       /\ Cardinality(Threads) \in Nat
  <2>1. IsFiniteSet({1}) /\ Cardinality({1}) = 1 /\ Cardinality(Threads) \in Nat
    BY FS_Singleton, FS_CardinalityType
  <2>2. QED
    BY <2>1, FS_Product
<1>11. IsFiniteSet(D) /\ Cardinality(D) = MaxNest
  <2>1. IsFiniteSet({d}) /\ Cardinality({d}) = 1
    BY FS_Singleton
  <2>2. /\ IsFiniteSet({d} \X (1..MaxNest))
        /\ Cardinality({d} \X (1..MaxNest)) = Cardinality({d}) * Cardinality(1..MaxNest)
    BY <2>1, NestInterval, FS_Product
  <2>3. QED
    BY <2>1, <2>2, NestInterval
<1> DEFINE E == ReadLocks \cup C
           F == A \cup D
<1>12. E \in SUBSET F
  BY <1>8, <1>9
<1> HIDE DEF A, C, D, E, F
<1>13. /\ IsFiniteSet(F) /\ Cardinality(F) <= Cardinality(Threads) + MaxNest
       /\ Cardinality(F) \in Nat
  <2>1. /\ IsFiniteSet(F)
        /\ Cardinality(F) = Cardinality(A) + Cardinality(D) - Cardinality(A \cap D)
    BY <1>10, <1>11, FS_Union DEF F
  <2>2. Cardinality(A \cap D) \in Nat /\ Cardinality(F) \in Nat
    BY <1>10, <2>1, FS_Intersection, FS_CardinalityType
  <2>3. QED
    BY <1>10, <1>11, <2>1, <2>2
<1>14. Cardinality(E) <= Cardinality(F)
  BY <1>12, <1>13, FS_Subset
<1>15. Cardinality(E) = Cardinality(ReadLocks) + Cardinality(Entering)
  BY <1>3 DEF E
<1>16. QED
  BY <1>10, <1>13, <1>14, <1>15, CountedFinite

\* So a writer is in count exactly when there is one.
LEMMA CountSplit ==
    ASSUME TypeInv, LiveInv, ~destroyed
    PROVE  /\ count < Base => Writers = {}
           /\ Writers = {} => count < Base
                              /\ count = Cardinality(ReadLocks) + Cardinality(Entering)
           /\ Cardinality(Writers) = 0 <=> Writers = {}
           /\ Cardinality(ReadLocks) + Cardinality(Entering) < Base
           /\ count = Cardinality(ReadLocks) + Cardinality(Entering)
                      + Base * Cardinality(Writers)
<1>1. Cardinality(ReadLocks) + Cardinality(Entering) < Base
  BY CountBound DEF LiveInv
<1>2. count = Cardinality(ReadLocks) + Cardinality(Entering)
              + Base * Cardinality(Writers)
  BY DEF LiveInv, CountIsExact
<1>3. Cardinality(Writers) = 0 <=> Writers = {}
  BY CountedFinite, FS_EmptySet
<1>4. Writers # {} => Base * Cardinality(Writers) >= Base
  BY <1>3, CountedFinite
<1>5. Writers = {} => Base * Cardinality(Writers) = 0
  BY <1>3
<1>6. Base * Cardinality(Writers) \in Nat
  BY CountedFinite
<1>7. QED
  BY <1>1, <1>2, <1>3, <1>4, <1>5, <1>6, CountedFinite

\* Where there is no writer, nobody is the holder.
LEMMA NoWriters ==
    ASSUME TypeInv, HolderInv, Writers = {}
    PROVE  holder = Nobody
BY DEF TypeInv, HolderInv, HolderAt, Writers

\* The entries of the queue.
LEMMA Entries ==
    ASSUME TypeInv
    PROVE  /\ Len(waiters) \in Nat
           /\ \A i \in 1..Len(waiters) :
                 waiters[i] \in Waiter /\ waiters[i].thread \in Threads
                 /\ waiters[i].writer \in BOOLEAN
<1>1. waiters \in Seq(Waiter)
  BY DEF TypeInv
<1>2. Len(waiters) \in Nat /\ \A i \in 1..Len(waiters) : waiters[i] \in Waiter
  BY <1>1
<1>3. \A w \in Waiter : w.thread \in Threads /\ w.writer \in BOOLEAN
  BY DEF Waiter
<1>4. QED
  BY <1>2, <1>3

\* Who is in the queue waits.
LEMMA QueuedWait ==
    ASSUME TypeInv, QueueInv
    PROVE  \A i \in 1..Len(waiters) : pc[waiters[i].thread] \in Waits
BY DEF QueueInv, Waits, ReaderWaits

-----------------------------------------------------------------------------
(* Steps that touch neither the queue nor the status words *)

\* Such a step of a thread that does not wait leaves all about waiting as it was.
LEMMA Quiet ==
    ASSUME NEW t \in Threads, TypeInv, QueueInv, WaitInv,
           wait' = wait, waiters' = waiters, granted' = granted,
           pc[t] \notin Waits, pc'[t] \notin Waits,
           \A u \in Threads \ {t} : pc'[u] = pc[u]
    PROVE  QueueInv' /\ WaitInv'
<1>1. \A i \in 1..Len(waiters) : waiters[i].thread \in Threads \ {t}
  BY Entries, QueuedWait
<1>2. QueueInv'
  BY <1>1 DEF QueueInv
<1>3. Queued' = Queued
  BY DEF Queued
<1>4. WaitInv'
  BY <1>3 DEF WaitInv, Waits, ReaderWaits
<1>5. QED
  BY <1>2, <1>4

\* The clients keep their rules when only t moves, by the rules.
LEMMA ClientStep ==
    ASSUME NEW t \in Threads, TypeInv, TypeInv', ClientInv, HolderInv,
           \A u \in Threads \ {t} :
              reads'[u] = reads[u] /\ writes'[u] = writes[u] /\ pc'[u] = pc[u],
           ClientAt(t)',
           reads'[t] > reads[t] => reads'[t] <= 1 \/ holder = t
    PROVE  ClientInv'
<1>1. ASSUME NEW u \in Threads PROVE ClientAt(u)'
  <2>1. CASE u = t
    BY <2>1
  <2>2. CASE u # t
    BY <2>2 DEF ClientInv, ClientAt
  <2>3. QED
    BY <2>1, <2>2
<1>2. \A u \in Threads : reads[u] \in Nat /\ reads'[u] \in Nat
  BY DEF TypeInv
<1>3. ASSUME NEW u \in Threads \ {t} PROVE ~(reads'[t] > 1 /\ reads'[u] > 1)
  <2>1. CASE holder = t
    <3>1. reads[u] = 0
      BY <2>1 DEF HolderInv, HolderAt
    <3>2. QED
      BY <3>1
  <2>2. CASE holder # t
    BY <1>2, <2>2 DEF ClientInv
  <2>3. QED
    BY <2>1, <2>2
<1>4. ASSUME NEW u \in Threads \ {t}, NEW v \in Threads \ {t}, u # v
      PROVE ~(reads'[u] > 1 /\ reads'[v] > 1)
  BY <1>4 DEF ClientInv
<1>5. \A u, v \in Threads : u # v => ~(reads'[u] > 1 /\ reads'[v] > 1)
  BY <1>3, <1>4
<1>6. QED
  BY <1>1, <1>5 DEF ClientInv

\* The holder is who it should be when only t moves and the holder stays.
LEMMA HolderStep ==
    ASSUME NEW t \in Threads, TypeInv, HolderInv, holder' = holder,
           \A u \in Threads \ {t} :
              /\ reads'[u] = reads[u] /\ writes'[u] = writes[u] /\ pc'[u] = pc[u]
              /\ granted'[u] = granted[u],
           pending_readers' = pending_readers \/ holder = Nobody,
           holder # t => owner_count' = owner_count,
           HolderAt(t)'
    PROVE  HolderInv'
<1>1. ASSUME NEW u \in Threads \ {t} PROVE HolderAt(u)'
  <2>1. HolderAt(u) /\ u # t
    BY DEF HolderInv
  <2>2. u \in Leaving' <=> u \in Leaving
    BY DEF Leaving, Entering, AboutToRead
  <2>3. OwnerCount(u)' = OwnerCount(u) /\ IsWriter(u)' = IsWriter(u)
    BY DEF OwnerCount, IsWriter
  <2>4. holder = u => pending_readers' = pending_readers /\ owner_count' = owner_count
    BY <2>1
  <2>5. QED
    BY <2>1, <2>2, <2>3, <2>4 DEF HolderAt
<1>2. QED
  BY <1>1 DEF HolderInv

\* A head of the queue that is a writer is one of the writers.
LEMMA HeadIsWriter ==
    ASSUME TypeInv, QueueInv, FreeInv, holder = Nobody, waiters # <<>>
    PROVE  Writers # {} /\ 1 \in 1..Len(waiters) /\ waiters[1].writer
<1>1. 1 \in 1..Len(waiters) /\ waiters[1].writer
  BY TailEntries DEF TypeInv, FreeInv
<1>2. waiters[1].thread \in Writers
  BY <1>1, Entries DEF QueueInv, Writers
<1>3. QED
  BY <1>1, <1>2

\* rw_lock_read_lock() without a writer.
LEMMA ReadFast ==
    ASSUME NEW t \in Threads, IInv, ~destroyed, MayRead(t), count < Base,
           count' = count + 1, GetRead(t),
           UNCHANGED <<wait, holder, owner_count, active_readers, pending_readers, waiters,
                       granted, destroyed, pc, writes>>
    PROVE  IInv'
<1> USE DEF IInv, LiveInv
<1>1. Writers = {} /\ holder = Nobody
  BY CountSplit, NoWriters
<1>2. reads[t] = 0 /\ writes[t] = 0 /\ pc[t] = "idle"
  BY <1>1 DEF MayRead, Writers, TypeInv
<1>3. reads' = [reads EXCEPT ![t] = 1]
  BY <1>2 DEF GetRead, TypeInv
<1>4. TypeInv'
  BY <1>3 DEF TypeInv
<1>5. QueueInv' /\ WaitInv'
  BY <1>2, Quiet DEF Waits, ReaderWaits
<1>6. /\ Entering' = Entering /\ Writers' = Writers /\ AboutToRead' = AboutToRead
  BY DEF Entering, Writers, AboutToRead
<1>7. Cardinality(ReadLocks') = Cardinality(ReadLocks) + 1
  <2>1. /\ \A u \in Threads \ {t} : reads'[u] = reads[u]
        /\ reads'[t] = reads[t] + 1
    BY <1>2, <1>3 DEF TypeInv
  <2>2. QED
    BY <1>2, <1>4, <2>1, ReadLocksMove
<1>8. CountIsExact'
  BY <1>6, <1>7, CountedFinite DEF CountIsExact
<1>13. /\ \A u \in Threads \ {t} : reads'[u] = reads[u]
       /\ reads'[t] = 1 /\ pc'[t] = "idle"
  BY <1>2, <1>3 DEF TypeInv
<1>9. ClientInv'
  <2>1. ClientAt(t)'
    BY <1>13 DEF ClientAt, Waits, ReaderWaits
  <2>2. QED
    BY <1>4, <1>13, <2>1, ClientStep
<1>10. HolderInv'
  <2>1. HolderAt(t)'
    BY <1>1, <1>2, <1>13 DEF HolderAt, IsWriter
  <2>2. QED
    BY <1>1, <1>13, <2>1, HolderStep
<1>11. FreeInv'
  BY <1>1, <1>6 DEF FreeInv
<1>12. QED
  BY <1>4, <1>5, <1>8, <1>9, <1>10, <1>11

\* rw_lock_read_lock() when there is a writer: the reader is in count.
LEMMA ReadEnters ==
    ASSUME NEW t \in Threads, NEW slow \in {"read", "timedRead"}, IInv, ~destroyed,
           MayRead(t), count >= Base, count' = count + 1, Goto(t, slow),
           UNCHANGED <<wait, holder, owner_count, active_readers, pending_readers, waiters,
                       granted, destroyed, reads, writes>>
    PROVE  IInv'
<1> USE DEF IInv, LiveInv
<1>1. Writers # {}
  BY CountSplit DEF TypeInv
<1>2. /\ pc[t] = "idle" /\ reads[t] < MaxNest /\ (writes[t] = 0 => reads[t] = 0)
      /\ pc' = [pc EXCEPT ![t] = slow]
  BY DEF MayRead, Goto, TypeInv
<1>3. TypeInv'
  BY <1>2 DEF TypeInv, Steps
<1>4. \A u \in Threads \ {t} : pc'[u] = pc[u] /\ pc'[t] = slow
  BY <1>2 DEF TypeInv
<1>5. QueueInv' /\ WaitInv'
  BY <1>2, <1>3, <1>4, Quiet DEF Waits, ReaderWaits, TypeInv
<1>6. /\ t \notin Entering /\ t \in Entering' /\ t \notin AboutToRead /\ t \in AboutToRead'
      /\ Writers' = Writers /\ ReadLocks' = ReadLocks /\ Leaving' = Leaving
  BY <1>2 DEF Entering, Writers, AboutToRead, ReadLocks, Leaving, TypeInv
<1>7. /\ Cardinality(Entering') = Cardinality(Entering) + 1
      /\ Cardinality(AboutToRead') = Cardinality(AboutToRead) + 1
  <2>1. reads'[t] \in {reads[t] - 1, reads[t], reads[t] + 1}
    OBVIOUS
  <2>2. QED
    BY <1>3, <1>4, <1>6, <2>1, Counting, CountedFinite
<1>8. CountIsExact'
  BY <1>6, <1>7, CountedFinite DEF CountIsExact
<1>9. ClientInv'
  <2>1. ClientAt(t)'
    BY <1>2, <1>4 DEF ClientAt, Waits, ReaderWaits
  <2>2. ~(reads'[t] > reads[t])
    BY DEF TypeInv
  <2>3. QED
    BY <1>3, <1>4, <2>1, <2>2, ClientStep
<1>10. HolderInv'
  <2>1. HolderAt(t)'
    BY <1>2, <1>4, <1>6 DEF HolderInv, HolderAt, IsWriter, OwnerCount
  <2>2. QED
    BY <1>4, <2>1, HolderStep
<1>11. FreeInv'
  BY <1>1, <1>6, <1>7, CountedFinite DEF FreeInv, TypeInv
<1>12. QED
  BY <1>3, <1>5, <1>8, <1>9, <1>10, <1>11

\* _rw_lock_read_lock() of the writer itself.
LEMMA ReadByHolder ==
    ASSUME NEW t \in Threads, IInv, ~destroyed, pc[t] \in {"read", "timedRead"},
           holder = t, owner_count' = owner_count + 1, GetRead(t), Goto(t, "idle"),
           UNCHANGED <<wait, count, holder, active_readers, pending_readers, waiters,
                       granted, destroyed, writes>>
    PROVE  IInv'
<1> USE DEF IInv, LiveInv
<1>1. /\ pc' = [pc EXCEPT ![t] = "idle"] /\ reads' = [reads EXCEPT ![t] = reads[t] + 1]
      /\ reads[t] \in Nat /\ reads[t] < MaxNest
  BY DEF GetRead, Goto, TypeInv, ClientInv, ClientAt
<1>2. TypeInv'
  BY <1>1 DEF TypeInv, Steps
<1>3. /\ \A u \in Threads \ {t} : pc'[u] = pc[u] /\ reads'[u] = reads[u]
      /\ pc'[t] = "idle" /\ reads'[t] = reads[t] + 1
  BY <1>1 DEF TypeInv
<1>4. QueueInv' /\ WaitInv'
  BY <1>2, <1>3, Quiet DEF Waits, ReaderWaits, TypeInv
<1>5. /\ t \in Entering /\ t \notin Entering' /\ Writers' = Writers /\ Leaving' = Leaving
  BY <1>1 DEF Entering, Writers, AboutToRead, Leaving, TypeInv
<1>6. /\ Cardinality(Entering') = Cardinality(Entering) - 1
      /\ Cardinality(ReadLocks') = Cardinality(ReadLocks) + 1
  BY <1>1, <1>2, <1>3, <1>5, Counting, CountedFinite
<1>7. CountIsExact'
  BY <1>5, <1>6, CountedFinite DEF CountIsExact
<1>8. /\ writes[t] > 0 /\ owner_count = Base * writes[t] + reads[t]
      /\ Base * writes[t] \in Nat
  <2>1. writes[t] \in Nat /\ Base * writes[t] \in Nat
    BY DEF TypeInv
  <2>2. writes[t] > 0 /\ owner_count = OwnerCount(t)
    BY DEF HolderInv, HolderAt
  <2>3. OwnerCount(t) = Base * writes[t] + reads[t] + 0
    BY DEF OwnerCount
  <2>4. QED
    BY <1>1, <2>1, <2>2, <2>3
<1>10. ClientInv'
  <2>1. ClientAt(t)'
    BY <1>3 DEF ClientAt, Waits, ReaderWaits
  <2>2. QED
    BY <1>2, <1>3, <2>1, ClientStep
<1>11. HolderInv'
  <2>1. OwnerCount(t)' = Base * writes[t] + (reads[t] + 1) + 0
    BY <1>3 DEF OwnerCount
  <2>2. owner_count' = OwnerCount(t)'
    BY <1>1, <1>8, <2>1
  <2>3. HolderAt(t)'
    BY <1>3, <1>8, <2>2 DEF HolderInv, HolderAt
  <2>4. QED
    BY <1>3, <2>3, HolderStep
<1>12. FreeInv'
  BY DEF FreeInv
<1>13. QED
  BY <1>2, <1>4, <1>7, <1>10, <1>11, <1>12

\* _rw_lock_read_lock() of a reader that the last writer expected.
LEMMA ReadPending ==
    ASSUME NEW t \in Threads, IInv, ~destroyed, pc[t] \in {"read", "timedRead"},
           holder # t, pending_readers > 0, pending_readers' = pending_readers - 1,
           active_readers' = active_readers + (IF count >= Base THEN 1 ELSE 0),
           GetRead(t), Goto(t, "idle"),
           UNCHANGED <<wait, count, holder, owner_count, waiters, granted, destroyed,
                       writes>>
    PROVE  IInv'
<1> USE DEF IInv, LiveInv
<1>1. /\ pc' = [pc EXCEPT ![t] = "idle"] /\ reads' = [reads EXCEPT ![t] = reads[t] + 1]
      /\ reads[t] \in Nat /\ reads[t] < MaxNest
  BY DEF GetRead, Goto, TypeInv, ClientInv, ClientAt
<1>2. TypeInv'
  BY <1>1 DEF TypeInv, Steps
<1>3. /\ \A u \in Threads \ {t} : pc'[u] = pc[u] /\ reads'[u] = reads[u]
      /\ pc'[t] = "idle" /\ reads'[t] = reads[t] + 1
  BY <1>1 DEF TypeInv
<1>4. QueueInv' /\ WaitInv'
  BY <1>2, <1>3, Quiet DEF Waits, ReaderWaits, TypeInv
<1>5. /\ t \in Entering /\ t \notin Entering' /\ Writers' = Writers /\ Leaving' = Leaving
      /\ t \in AboutToRead /\ t \notin AboutToRead'
  BY <1>1 DEF Entering, Writers, AboutToRead, Leaving, TypeInv
<1>6. /\ Cardinality(Entering') = Cardinality(Entering) - 1
      /\ Cardinality(ReadLocks') = Cardinality(ReadLocks) + 1
      /\ Cardinality(AboutToRead') = Cardinality(AboutToRead) - 1
  BY <1>1, <1>2, <1>3, <1>5, Counting, CountedFinite
<1>7. CountIsExact'
  BY <1>5, <1>6, CountedFinite DEF CountIsExact
<1>8. holder = Nobody
  BY DEF HolderInv, HolderAt, TypeInv
<1>9. writes[t] = 0 /\ reads[t] = 0
  BY <1>8 DEF HolderInv, HolderAt, IsWriter, ClientInv, ClientAt, TypeInv
<1>10. ClientInv'
  <2>1. ClientAt(t)'
    BY <1>3 DEF ClientAt, Waits, ReaderWaits
  <2>2. reads'[t] <= 1
    BY <1>3, <1>9
  <2>3. QED
    BY <1>2, <1>3, <2>1, <2>2, ClientStep
<1>11. HolderInv'
  <2>1. HolderAt(t)'
    BY <1>3, <1>8, <1>9 DEF HolderAt, IsWriter
  <2>2. QED
    BY <1>3, <1>8, <2>1, HolderStep
<1>12. count >= Base <=> Writers # {}
  BY CountSplit DEF TypeInv
<1>13. FreeInv'
  <2>1. \A u \in Threads : pc'[u] = "readUnlock" => pc[u] = "readUnlock"
    BY <1>3
  <2>2. CASE Writers = {}
    <3>1. waiters = <<>>
      BY <1>8, <2>2, HeadIsWriter
    <3>2. /\ pending_readers = Cardinality(AboutToRead) /\ pending_readers \in Nat
          /\ \A u \in Threads : pc[u] # "readUnlock"
      BY <1>8, <2>2 DEF FreeInv, TypeInv
    <3>3. /\ pending_readers' = Cardinality(AboutToRead')
          /\ pending_readers' <= Cardinality(AboutToRead')
      BY <1>6, <3>2
    <3>4. QED
      BY <1>5, <2>1, <2>2, <3>1, <3>2, <3>3 DEF FreeInv
  <2>3. CASE Writers # {}
    <3>1. active_readers' = active_readers + 1
      BY <1>12, <2>3
    <3>2. /\ active_readers = Cardinality(ReadLocks) + Cardinality(Leaving)
          /\ pending_readers <= Cardinality(AboutToRead)
          /\ waiters # <<>> => waiters[1].writer
      BY <1>8, <2>3 DEF FreeInv
    <3>3. active_readers \in Nat /\ pending_readers \in Nat
      BY DEF TypeInv
    <3>4. /\ active_readers' = Cardinality(ReadLocks') + Cardinality(Leaving')
          /\ pending_readers' <= Cardinality(AboutToRead')
          /\ active_readers' + pending_readers' > 0
      <4>1. Leaving' = Leaving
        BY <1>5
      <4>2. active_readers' = Cardinality(ReadLocks') + Cardinality(Leaving')
        BY <1>6, <3>1, <3>2, <4>1, CountedFinite
      <4>3. pending_readers' <= Cardinality(AboutToRead')
        BY <1>6, <3>2, <3>3, CountedFinite
      <4>4. active_readers' + pending_readers' > 0
        BY <3>1, <3>3
      <4>5. QED
        BY <4>2, <4>3, <4>4
    <3>5. QED
      BY <1>5, <2>3, <3>2, <3>4 DEF FreeInv
  <2>4. QED
    BY <2>2, <2>3
<1>14. QED
  BY <1>2, <1>4, <1>7, <1>10, <1>11, <1>13

\* rw_lock_read_unlock(), with or without a writer.
LEMMA ReadUnlocks ==
    ASSUME NEW t \in Threads, IInv, rw_lock_read_unlock(t)
    PROVE  IInv'
<1> USE DEF IInv, LiveInv
<1>0. /\ ~destroyed /\ destroyed' = destroyed /\ wait' = wait /\ waiters' = waiters
      /\ granted' = granted /\ holder' = holder /\ owner_count' = owner_count
      /\ active_readers' = active_readers /\ pending_readers' = pending_readers
      /\ writes' = writes /\ count' = count - 1
  BY DEF rw_lock_read_unlock
<1>1. /\ pc[t] = "idle" /\ reads[t] > 0 /\ reads[t] \in 0..MaxNest
      /\ pc' = [pc EXCEPT ![t] = IF Writers # {} THEN "readUnlock" ELSE "idle"]
      /\ reads' = [reads EXCEPT ![t] = reads[t] - 1]
  <2>1. count >= Base <=> Writers # {}
    BY <1>0, CountSplit DEF TypeInv
  <2>2. QED
    BY <2>1 DEF rw_lock_read_unlock, Goto, TypeInv
<1>2. /\ \A u \in Threads \ {t} : pc'[u] = pc[u] /\ reads'[u] = reads[u]
      /\ pc'[t] = (IF Writers # {} THEN "readUnlock" ELSE "idle")
      /\ reads'[t] = reads[t] - 1 /\ reads'[t] \in 0..MaxNest - 1
  BY <1>1 DEF TypeInv
<1>3. /\ t \notin Entering /\ t \notin Entering' /\ Writers' = Writers
      /\ t \notin AboutToRead /\ t \notin AboutToRead' /\ t \notin Leaving
      /\ t \in Leaving' <=> Writers # {}
  BY <1>0, <1>1, <1>2 DEF Entering, Writers, AboutToRead, Leaving, TypeInv
<1>4. <<t, reads[t]>> \in ReadLocks
  BY <1>1 DEF ReadLocks
<1>5. Cardinality(ReadLocks) \in Nat \ {0}
  BY <1>4, CountedFinite, FS_EmptySet
<1>6. TypeInv'
  <2>1. count' \in Nat
    <3> DEFINE b == Base * Cardinality(Writers)
               n == Cardinality(ReadLocks)
               m == Cardinality(Entering)
    <3>1. b \in Nat /\ m \in Nat /\ n \in Nat \ {0}
      BY <1>5, CountedFinite
    <3>2. count = n + m + b
      BY <1>0, CountSplit
    <3> HIDE DEF b, n, m
    <3>3. QED
      BY <1>0, <3>1, <3>2
  <2>2. reads' \in [Threads -> 0..MaxNest] /\ pc' \in [Threads -> Steps]
    BY <1>1 DEF TypeInv, Steps
  <2>3. QED
    BY <1>0, <2>1, <2>2 DEF TypeInv
<1>7. QueueInv' /\ WaitInv'
  <2>1. pc[t] \notin Waits /\ pc'[t] \notin Waits
    BY <1>1, <1>2 DEF Waits, ReaderWaits
  <2>2. QED
    BY <1>0, <1>2, <2>1, Quiet
<1>8. /\ Cardinality(Entering') = Cardinality(Entering)
      /\ Cardinality(ReadLocks') = Cardinality(ReadLocks) - 1
      /\ Cardinality(AboutToRead') = Cardinality(AboutToRead)
  BY <1>0, <1>1, <1>2, <1>3, <1>6, Counting, CountedFinite
<1>9. /\ Cardinality(Leaving') = Cardinality(Leaving) + (IF Writers # {} THEN 1 ELSE 0)
      /\ Leaving' \ {t} = Leaving
  BY <1>0, <1>2, <1>3, CountLeaving, CountedFinite
<1>10. CountIsExact'
  <2>1. Base * Cardinality(Writers) \in Nat
    BY CountedFinite
  <2>2. QED
    BY <1>0, <1>3, <1>8, <2>1, CountedFinite DEF CountIsExact
<1>11. ClientInv'
  <2>1. ClientAt(t)'
    BY <1>2 DEF ClientAt, Waits, ReaderWaits
  <2>2. ~(reads'[t] > reads[t])
    BY <1>1, <1>2
  <2>3. QED
    BY <1>0, <1>2, <1>6, <2>1, <2>2, ClientStep
<1>12. HolderInv'
  <2>1. HolderAt(t) /\ holder \notin Threads \ {t}
    BY <1>0, <1>1 DEF HolderInv, HolderAt
  <2>2. CASE holder = t
    <3>1. /\ Base * writes[t] \in Nat /\ writes[t] > 0 /\ reads[t] \in Nat
          /\ owner_count = OwnerCount(t)
      BY <1>1, <2>1, <2>2 DEF HolderAt, TypeInv
    <3>2. OwnerCount(t) = Base * writes[t] + reads[t] + 0
      BY <1>1 DEF OwnerCount
    <3>3. pc'[t] = "readUnlock"
      BY <1>2, <2>2, <3>1 DEF Writers
    <3>4. OwnerCount(t)' = Base * writes[t] + (reads[t] - 1) + 1
      BY <1>0, <1>2, <3>3 DEF OwnerCount
    <3>5. OwnerCount(t)' = owner_count'
      BY <1>0, <3>1, <3>2, <3>4
    <3>6. HolderAt(t)'
      BY <1>0, <2>1, <2>2, <3>1, <3>3, <3>5 DEF HolderAt
    <3>7. QED
      BY <1>0, <1>2, <3>6, HolderStep
  <2>3. CASE holder # t
    <3>1. HolderAt(t)'
      BY <1>0, <1>2, <2>1, <2>3 DEF HolderAt, IsWriter
    <3>2. QED
      BY <1>0, <1>2, <3>1, HolderStep
  <2>4. QED
    BY <2>2, <2>3
<1>13. FreeInv'
  <2> SUFFICES ASSUME holder = Nobody PROVE FreeInv'
    BY <1>0 DEF FreeInv
  <2>1. CASE Writers # {}
    <3>1. Cardinality(ReadLocks') + Cardinality(Leaving')
             = Cardinality(ReadLocks) + Cardinality(Leaving)
      BY <1>8, <1>9, <2>1, CountedFinite
    <3>2. QED
      BY <1>0, <1>3, <1>8, <2>1, <3>1 DEF FreeInv
  <2>2. CASE Writers = {}
    <3>1. \A u \in Threads : pc'[u] = pc[u]
      BY <1>1, <1>2, <2>2
    <3>2. QED
      BY <1>0, <1>3, <1>8, <2>2, <3>1 DEF FreeInv
  <2>3. QED
    BY <2>1, <2>2
<1>14. QED
  BY <1>0, <1>6, <1>7, <1>10, <1>11, <1>12, <1>13

\* _rw_lock_read_unlock() of the writer itself.
LEMMA UnlockByHolder ==
    ASSUME NEW t \in Threads, IInv, ~destroyed, pc[t] = "readUnlock", holder = t,
           owner_count' = owner_count - 1, Goto(t, "idle"),
           UNCHANGED <<wait, holder, active_readers, waiters, granted, count,
                       pending_readers, destroyed, reads, writes>>
    PROVE  IInv'
<1> USE DEF IInv, LiveInv
<1>1. pc' = [pc EXCEPT ![t] = "idle"]
  BY DEF Goto
<1>2. /\ \A u \in Threads \ {t} : pc'[u] = pc[u]
      /\ pc'[t] = "idle"
  BY <1>1 DEF TypeInv
<1>3. HolderAt(t) /\ reads[t] \in Nat /\ writes[t] \in Nat /\ Base * writes[t] \in Nat
  BY DEF HolderInv, TypeInv
<1>4. writes[t] > 0 /\ owner_count = Base * writes[t] + reads[t] + 1
  BY <1>3 DEF HolderAt, OwnerCount
<1>5. owner_count' = Base * writes[t] + reads[t] + 0 /\ owner_count' \in Nat
  BY <1>3, <1>4
<1>6. TypeInv'
  BY <1>1, <1>5 DEF TypeInv, Steps
<1>7. QueueInv' /\ WaitInv'
  BY <1>2, Quiet DEF Waits, ReaderWaits
<1>8. Entering' = Entering /\ Writers' = Writers /\ ReadLocks' = ReadLocks
  BY <1>2 DEF Entering, Writers, ReadLocks
<1>9. CountIsExact'
  BY <1>8 DEF CountIsExact
<1>10. ClientInv'
  <2>1. ClientAt(t)'
    BY <1>2 DEF ClientAt, Waits, ReaderWaits
  <2>2. QED
    BY <1>2, <1>6, <2>1, ClientStep
<1>11. HolderInv'
  <2>1. OwnerCount(t)' = Base * writes[t] + reads[t] + 0
    BY <1>2 DEF OwnerCount
  <2>2. HolderAt(t)'
    BY <1>2, <1>3, <1>4, <1>5, <2>1 DEF HolderAt
  <2>3. QED
    BY <1>2, <2>2, HolderStep
<1>12. FreeInv'
  BY DEF FreeInv
<1>13. QED
  BY <1>6, <1>7, <1>9, <1>10, <1>11, <1>12

\* Who is in _rw_lock_read_unlock() and not the holder is an active reader that a writer
\* waits for.
LEMMA UnlockerActive ==
    ASSUME NEW t \in Threads, IInv, ~destroyed, pc[t] = "readUnlock", holder # t
    PROVE  /\ holder = Nobody /\ Writers # {} /\ t \in Leaving
           /\ Cardinality(Leaving) \in Nat \ {0}
           /\ active_readers = Cardinality(ReadLocks) + Cardinality(Leaving)
<1>1. t \in Leaving
  BY DEF Leaving
<1>2. holder = Nobody
  BY <1>1 DEF IInv, LiveInv, TypeInv, HolderInv, HolderAt
<1>3. Writers # {} /\ active_readers = Cardinality(ReadLocks) + Cardinality(Leaving)
  BY <1>2 DEF IInv, LiveInv, FreeInv
<1>4. QED
  BY <1>1, <1>2, <1>3, CountedFinite, FS_EmptySet

\* _rw_lock_read_unlock() of a reader that is not the last one.
LEMMA UnlockNotLast ==
    ASSUME NEW t \in Threads, IInv, ~destroyed, pc[t] = "readUnlock", holder # t,
           active_readers > 1 \/ (active_readers = 1 /\ holder # Nobody),
           active_readers' = active_readers - 1, Goto(t, "idle"),
           UNCHANGED <<wait, holder, owner_count, waiters, granted, count,
                       pending_readers, destroyed, reads, writes>>
    PROVE  IInv'
<1>0. /\ holder = Nobody /\ Writers # {} /\ t \in Leaving
      /\ active_readers = Cardinality(ReadLocks) + Cardinality(Leaving)
      /\ Cardinality(Leaving) \in Nat \ {0}
  BY UnlockerActive
<1> USE DEF IInv, LiveInv
<1>1. pc' = [pc EXCEPT ![t] = "idle"]
  BY DEF Goto
<1>2. /\ \A u \in Threads \ {t} : pc'[u] = pc[u]
      /\ pc'[t] = "idle"
  BY <1>1 DEF TypeInv
<1>6. TypeInv'
  BY <1>0, <1>1 DEF TypeInv, Steps
<1>7. QueueInv' /\ WaitInv'
  BY <1>2, Quiet DEF Waits, ReaderWaits
<1>8. /\ Entering' = Entering /\ Writers' = Writers /\ ReadLocks' = ReadLocks
      /\ AboutToRead' = AboutToRead
  BY <1>2 DEF Entering, Writers, ReadLocks, AboutToRead
<1>9. CountIsExact'
  BY <1>8 DEF CountIsExact
<1>10. ClientInv'
  <2>1. ClientAt(t)'
    BY <1>2 DEF ClientAt, Waits, ReaderWaits
  <2>2. ~(reads'[t] > reads[t])
    BY DEF TypeInv
  <2>3. QED
    BY <1>2, <1>6, <2>1, <2>2, ClientStep
<1>11. HolderInv'
  <2>1. HolderAt(t)'
    BY <1>0, <1>2 DEF HolderInv, HolderAt, IsWriter
  <2>2. QED
    BY <1>2, <2>1, HolderStep
<1>12. Cardinality(Leaving') = Cardinality(Leaving) - 1
  <2>1. t \notin Leaving'
    BY <1>2 DEF Leaving, Entering
  <2>2. QED
    BY <1>0, <1>2, <2>1, CountLeaving, CountedFinite
<1>13. FreeInv'
  <2>1. active_readers' = Cardinality(ReadLocks') + Cardinality(Leaving')
    BY <1>0, <1>8, <1>12, CountedFinite
  <2>2. active_readers' + pending_readers' > 0
    BY <1>0 DEF TypeInv
  <2>3. QED
    BY <1>0, <1>8, <2>1, <2>2 DEF FreeInv
<1>14. QED
  BY <1>6, <1>7, <1>9, <1>10, <1>11, <1>13

-----------------------------------------------------------------------------
(* The write lock without waiting *)

\* The writer's own count: it nests write locks exactly when there are two or more.
LEMMA WriterCount ==
    ASSUME NEW t \in Threads, TypeInv, HolderInv, holder = t, pc[t] = "idle"
    PROVE  /\ writes[t] \in Nat \ {0} /\ reads[t] \in Nat /\ Base * writes[t] \in Nat
           /\ owner_count = Base * writes[t] + reads[t] /\ reads[t] < Base
           /\ owner_count >= Base
           /\ owner_count >= 2 * Base <=> writes[t] >= 2
<1>1. /\ writes[t] \in Nat /\ reads[t] \in Nat /\ Base * writes[t] \in Nat
      /\ reads[t] <= MaxNest
  BY DEF TypeInv
<1>2. writes[t] > 0 /\ owner_count = Base * writes[t] + reads[t] + 0
  BY DEF HolderInv, HolderAt, OwnerCount
<1>3. reads[t] < Base
  <2>1. Cardinality(Threads) \in Nat
    BY FS_CardinalityType
  <2>2. QED
    BY <1>1, <2>1
<1>4. CASE writes[t] = 1
  BY <1>1, <1>2, <1>3, <1>4
<1>5. CASE writes[t] >= 2
  <2>1. Base * writes[t] >= Base * 2
    BY <1>1, <1>5
  <2>2. QED
    BY <1>1, <1>2, <1>3, <1>5, <2>1
<1>6. QED
  BY <1>1, <1>2, <1>4, <1>5

\* rw_lock_write_lock() of the holder.
LEMMA WriteNested ==
    ASSUME NEW t \in Threads, IInv, MayWrite(t), holder = t,
           owner_count' = owner_count + Base, GetWrite(t),
           UNCHANGED <<wait, count, holder, active_readers, waiters, granted, pc,
                       pending_readers, destroyed, reads>>
    PROVE  IInv'
<1>0. ~destroyed /\ pc[t] = "idle" /\ writes[t] < MaxNest
  BY DEF MayWrite
<1> USE DEF IInv, LiveInv
<1>1. writes' = [writes EXCEPT ![t] = writes[t] + 1]
  BY DEF GetWrite
<1>2. \A u \in Threads \ {t} : writes'[u] = writes[u]
  BY <1>1 DEF TypeInv
<1>3. /\ writes[t] \in Nat \ {0} /\ reads[t] \in Nat /\ Base * writes[t] \in Nat
      /\ owner_count = Base * writes[t] + reads[t] /\ writes'[t] = writes[t] + 1
  BY <1>0, <1>1, WriterCount DEF TypeInv
<1>4. TypeInv'
  <2>1. writes[t] + 1 \in 0..MaxNest
    BY <1>0, <1>3
  <2>2. writes' \in [Threads -> 0..MaxNest]
    BY <1>1, <2>1 DEF TypeInv
  <2>3. QED
    BY <2>2 DEF TypeInv
<1>5. QueueInv' /\ WaitInv'
  BY <1>0, Quiet DEF Waits, ReaderWaits
<1>6. Entering' = Entering /\ ReadLocks' = ReadLocks
  BY DEF Entering, ReadLocks
<1>7. Writers' = Writers
  BY <1>2, <1>3 DEF Writers
<1>8. CountIsExact'
  BY <1>6, <1>7 DEF CountIsExact
<1>9. ClientInv'
  <2>1. ClientAt(t)'
    BY <1>0 DEF ClientAt, Waits, ReaderWaits
  <2>2. QED
    BY <1>0, <1>2, <1>4, <2>1, ClientStep
<1>10. HolderInv'
  <2>1. OwnerCount(t)' = Base * (writes[t] + 1) + reads[t] + 0
    BY <1>0, <1>3 DEF OwnerCount
  <2>2. Base * (writes[t] + 1) = Base * writes[t] + Base
    BY <1>3
  <2>3. owner_count' = OwnerCount(t)'
    BY <1>3, <2>1, <2>2
  <2>4. HolderAt(t)'
    BY <1>0, <1>3, <2>3 DEF HolderInv, HolderAt
  <2>5. QED
    BY <1>0, <1>2, <2>4, HolderStep
<1>11. FreeInv'
  BY DEF FreeInv
<1>12. QED
  BY <1>0, <1>4, <1>5, <1>8, <1>9, <1>10, <1>11

\* A lock nobody is in count of is not used at all.
LEMMA Unused ==
    ASSUME TypeInv, QueueInv, ~destroyed, LiveInv, Cardinality(ReadLocks) = 0,
           Cardinality(Entering) = 0
    PROVE  /\ \A u \in Threads : reads[u] = 0
           /\ Entering = {} /\ AboutToRead = {}
           /\ \A u \in Threads : pc[u] \in {"idle", "writeWait", "readUnlock"}
<1>1. ReadLocks = {} /\ Entering = {}
  BY CountedFinite, FS_EmptySet
<1>2. \A u \in Threads : reads[u] = 0
  <2> SUFFICES ASSUME NEW u \in Threads, reads[u] # 0 PROVE FALSE
    OBVIOUS
  <2>1. reads[u] \in 1..MaxNest
    BY DEF TypeInv
  <2>2. <<u, reads[u]>> \in ReadLocks
    BY <2>1 DEF ReadLocks
  <2>3. QED
    BY <1>1, <2>2
<1>3. AboutToRead = {}
  BY <1>1 DEF AboutToRead, Entering
<1>4. \A u \in Threads : pc[u] \in {"idle", "writeWait", "readUnlock"}
  <2> SUFFICES ASSUME NEW u \in Threads, pc[u] \notin {"idle", "writeWait", "readUnlock"}
               PROVE  FALSE
    OBVIOUS
  <2>1. u \in Entering
    BY DEF TypeInv, Steps, Entering
  <2>2. QED
    BY <1>1, <2>1
<1>5. QED
  BY <1>1, <1>2, <1>3, <1>4

\* rw_lock_write_lock() of a free lock.
LEMMA WriteFree ==
    ASSUME NEW t \in Threads, IInv, MayWrite(t), holder # t, count = 0,
           count' = Base, holder' = t, owner_count' = Base, GetWrite(t),
           UNCHANGED <<wait, active_readers, waiters, granted, pc,
                       pending_readers, destroyed, reads>>
    PROVE  IInv'
<1>0. ~destroyed /\ pc[t] = "idle" /\ writes[t] < MaxNest
  BY DEF MayWrite
<1> USE DEF IInv, LiveInv
<1>1. /\ Writers = {} /\ Cardinality(ReadLocks) = 0 /\ Cardinality(Entering) = 0
      /\ Cardinality(Writers) = 0
  <2>1. Base > 0
    BY FS_CardinalityType
  <2>2. Writers = {} /\ Cardinality(Writers) = 0
    BY <1>0, <2>1, CountSplit
  <2>3. 0 = Cardinality(ReadLocks) + Cardinality(Entering)
    BY <1>0, <2>2, CountSplit
  <2>4. QED
    BY <2>2, <2>3, CountedFinite
<1>2. /\ \A u \in Threads : reads[u] = 0
      /\ Entering = {} /\ AboutToRead = {}
      /\ \A u \in Threads : pc[u] \in {"idle", "writeWait", "readUnlock"}
  BY <1>0, <1>1, Unused
<1>3. holder = Nobody /\ \A u \in Threads : writes[u] = 0 /\ pc[u] # "writeWait"
  BY <1>0, <1>1, NoWriters DEF Writers, TypeInv
<1>4. pending_readers = 0 /\ \A u \in Threads : pc[u] = "idle"
  BY <1>0, <1>1, <1>2, <1>3, FS_EmptySet DEF FreeInv
<1>5. writes' = [writes EXCEPT ![t] = 1]
  <2>1. writes[t] + 1 = 1
    BY <1>3
  <2>2. QED
    BY <2>1 DEF GetWrite
<1>6. /\ \A u \in Threads \ {t} : writes'[u] = 0
      /\ writes'[t] = 1
  BY <1>3, <1>5 DEF TypeInv
<1>7. TypeInv'
  BY <1>5 DEF TypeInv
<1>8. QueueInv' /\ WaitInv'
  BY <1>0, Quiet DEF Waits, ReaderWaits
<1>9. Entering' = Entering /\ ReadLocks' = ReadLocks /\ Writers' = {t}
  BY <1>4, <1>6 DEF Entering, ReadLocks, Writers
<1>10. CountIsExact'
  <2>1. Cardinality(Writers') = 1
    BY <1>9, FS_Singleton
  <2>2. QED
    BY <1>1, <1>9, <2>1 DEF CountIsExact
<1>11. ClientInv'
  BY <1>2, <1>4 DEF ClientInv, ClientAt, Waits, ReaderWaits
<1>12. HolderInv'
  <2>1. ASSUME NEW u \in Threads PROVE HolderAt(u)'
    <3>1. pc'[u] = "idle" /\ reads'[u] = 0 /\ u \notin Leaving'
      BY <1>2, <1>4 DEF Leaving, Entering
    <3>2. CASE u = t
      <4>1. OwnerCount(u)' = Base * 1 + 0 + 0
        BY <1>6, <3>1, <3>2 DEF OwnerCount
      <4>2. QED
        BY <1>4, <1>6, <3>1, <3>2, <4>1 DEF HolderAt
    <3>3. CASE u # t
      BY <1>6, <3>1, <3>3 DEF HolderAt, IsWriter
    <3>4. QED
      BY <3>2, <3>3
  <2>2. QED
    BY <2>1 DEF HolderInv
<1>13. FreeInv'
  BY DEF FreeInv
<1>14. QED
  BY <1>0, <1>7, <1>8, <1>10, <1>11, <1>12, <1>13

\* _rw_lock_write_unlock() when an outer write lock is still held.
LEMMA UnlockNested ==
    ASSUME NEW t \in Threads, IInv, ~destroyed, pc[t] = "idle", writes[t] > 0, holder = t,
           owner_count >= 2 * Base, owner_count' = owner_count - Base,
           writes' = [writes EXCEPT ![t] = writes[t] - 1],
           UNCHANGED <<wait, count, holder, active_readers, pending_readers, waiters,
                       granted, destroyed, pc, reads>>
    PROVE  IInv'
<1> USE DEF IInv, LiveInv
<1>1. /\ writes[t] \in Nat /\ writes[t] >= 2 /\ reads[t] \in Nat
      /\ Base * writes[t] \in Nat /\ owner_count = Base * writes[t] + reads[t]
  BY WriterCount
<1>2. /\ \A u \in Threads \ {t} : writes'[u] = writes[u]
      /\ writes'[t] = writes[t] - 1
  BY <1>1 DEF TypeInv
<1>4. TypeInv'
  <2>1. /\ writes[t] \in Nat /\ MaxNest \in Nat /\ writes[t] >= 1 /\ writes[t] <= MaxNest
        /\ owner_count \in Nat /\ Base \in Nat
    BY <1>1 DEF TypeInv
  <2>2. writes[t] - 1 \in 0..MaxNest /\ owner_count' \in Nat
    BY <2>1, OneLess, OneWriteLess
  <2>3. writes' \in [Threads -> 0..MaxNest]
    BY <2>2 DEF TypeInv
  <2>4. QED
    BY <2>2, <2>3 DEF TypeInv
<1>5. QueueInv' /\ WaitInv'
  BY Quiet DEF Waits, ReaderWaits
<1>6. Entering' = Entering /\ ReadLocks' = ReadLocks
  BY DEF Entering, ReadLocks
<1>7. Writers' = Writers
  BY <1>1, <1>2 DEF Writers
<1>8. CountIsExact'
  BY <1>6, <1>7 DEF CountIsExact
<1>9. ClientInv'
  <2>1. ClientAt(t)'
    BY DEF ClientAt, Waits, ReaderWaits
  <2>2. QED
    BY <1>2, <1>4, <2>1, ClientStep
<1>10. HolderInv'
  <2>1. OwnerCount(t)' = Base * (writes[t] - 1) + reads[t] + 0
    BY <1>2 DEF OwnerCount
  <2>2. Base * (writes[t] - 1) = Base * writes[t] - Base
    BY <1>1
  <2>3. owner_count' = OwnerCount(t)'
    BY <1>1, <2>1, <2>2
  <2>4. writes'[t] > 0
    BY <1>1, <1>2
  <2>5. HolderAt(t)'
    BY <2>3, <2>4 DEF HolderInv, HolderAt
  <2>6. QED
    BY <1>2, <2>5, HolderStep
<1>11. FreeInv'
  BY DEF FreeInv
<1>12. QED
  BY <1>4, <1>5, <1>8, <1>9, <1>10, <1>11

-----------------------------------------------------------------------------
(* Waiting *)

\* rw_lock_wait() puts a thread at the end of the queue and to sleep.
LEMMA Enqueued ==
    ASSUME NEW t \in Threads, NEW isWriter \in BOOLEAN,
           NEW step \in IF isWriter THEN {"writeWait"} ELSE {"readWait", "timedReadWait"},
           TypeInv, QueueInv, WaitInv, pc[t] \notin Waits,
           rw_lock_wait(t, isWriter, step)
    PROVE  /\ WaitTypeOK' /\ waiters' \in Seq(Waiter) /\ granted' \in [Threads -> BOOLEAN]
           /\ pc' \in [Threads -> Steps]
           /\ QueueInv' /\ WaitInv'
           /\ waiters' # <<>>
           /\ IF waiters = <<>> THEN waiters'[1].writer = isWriter
                                ELSE waiters'[1] = waiters[1]
           /\ pc'[t] = step /\ ~granted'[t]
           /\ \A u \in Threads \ {t} : pc'[u] = pc[u] /\ granted'[u] = granted[u]
<1> DEFINE w == [thread |-> t, writer |-> isWriter]
<1>1. /\ waiters' = Append(waiters, w) /\ granted' = [granted EXCEPT ![t] = FALSE]
      /\ wait' = [wait EXCEPT ![t] = Waiting] /\ pc' = [pc EXCEPT ![t] = step]
  BY DEF rw_lock_wait, thread_prepare_to_block, Goto
<1>2. /\ w \in Waiter /\ waiters \in Seq(Waiter) /\ w.thread = t /\ w.writer = isWriter
  BY DEF Waiter, TypeInv
<1>3. /\ step \in {"writeWait", "readWait", "timedReadWait"} /\ step \in Steps
      /\ step = "writeWait" <=> isWriter
      /\ step \in ReaderWaits <=> ~isWriter
  BY DEF Steps, ReaderWaits
<1>4. /\ WaitTypeOK' /\ granted' \in [Threads -> BOOLEAN] /\ pc' \in [Threads -> Steps]
      /\ pc'[t] = step /\ granted'[t] = FALSE /\ wait'[t] = Waiting
      /\ \A u \in Threads \ {t} :
            pc'[u] = pc[u] /\ granted'[u] = granted[u] /\ wait'[u] = wait[u]
  BY <1>1, <1>3 DEF TypeInv
<1>5. /\ Len(waiters) \in Nat
      /\ \A i \in 1..Len(waiters) : waiters[i].thread \in Threads \ {t}
  BY Entries, QueuedWait
<1> HIDE DEF w
<1>6. /\ waiters' \in Seq(Waiter) /\ Len(waiters') = Len(waiters) + 1
      /\ waiters'[Len(waiters) + 1] = w
      /\ \A i \in 1..Len(waiters) : waiters'[i] = waiters[i]
  BY <1>1, <1>2
<1>7. /\ waiters' # <<>>
      /\ IF waiters = <<>> THEN waiters'[1].writer = isWriter
                           ELSE waiters'[1] = waiters[1]
  <2>1. waiters' # <<>>
    BY <1>2, <1>5, <1>6
  <2>2. CASE waiters = <<>>
    BY <1>2, <1>6, <2>2
  <2>3. CASE waiters # <<>>
    <3>1. 1 \in 1..Len(waiters)
      BY <1>2, <2>3
    <3>2. QED
      BY <1>6, <2>3, <3>1
  <2>4. QED
    BY <2>1, <2>2, <2>3
<1> DEFINE n == Len(waiters) + 1
<1>8. \A i \in 1..Len(waiters') : i \in 1..Len(waiters) \/ i = n
  BY <1>5, <1>6
<1>9. waiters'[n] = w /\ n \notin 1..Len(waiters) /\ n \in 1..Len(waiters')
  BY <1>5, <1>6
<1> HIDE DEF n
<1>10. QueueInv'
  <2>1. ASSUME NEW i \in 1..Len(waiters'), NEW j \in 1..Len(waiters'),
               waiters'[i].thread = waiters'[j].thread
        PROVE  i = j
    <3>1. CASE i = n /\ j = n
      BY <3>1
    <3>2. CASE i = n /\ j \in 1..Len(waiters)
      BY <1>2, <1>5, <1>6, <1>9, <2>1, <3>2
    <3>3. CASE j = n /\ i \in 1..Len(waiters)
      BY <1>2, <1>5, <1>6, <1>9, <2>1, <3>3
    <3>4. CASE i \in 1..Len(waiters) /\ j \in 1..Len(waiters)
      BY <1>6, <2>1, <3>4 DEF QueueInv
    <3>5. QED
      BY <1>8, <3>1, <3>2, <3>3, <3>4
  <2>2. ASSUME NEW i \in 1..Len(waiters')
        PROVE  /\ ~granted'[waiters'[i].thread]
               /\ IF waiters'[i].writer THEN pc'[waiters'[i].thread] = "writeWait"
                  ELSE pc'[waiters'[i].thread] \in ReaderWaits
    <3>1. CASE i = n
      BY <1>2, <1>3, <1>4, <1>9, <3>1
    <3>2. CASE i \in 1..Len(waiters)
      BY <1>4, <1>5, <1>6, <3>2 DEF QueueInv
    <3>3. QED
      BY <1>8, <3>1, <3>2
  <2>3. QED
    BY <2>1, <2>2 DEF QueueInv
<1>11. Queued \subseteq Queued' /\ t \in Queued'
  <2>1. \A i \in 1..Len(waiters) : i \in 1..Len(waiters')
    BY <1>5, <1>6
  <2>2. QED
    BY <1>2, <1>6, <1>9, <2>1 DEF Queued
<1>12. WaitInv'
  <2>1. ASSUME NEW u \in Threads \ {t}, pc'[u] \in Waits PROVE granted'[u] \/ u \in Queued'
    BY <1>4, <1>11, <2>1 DEF WaitInv
  <2>2. QED
    BY <1>3, <1>4, <1>11, <2>1 DEF WaitInv, Waits, ReaderWaits
<1>13. QED
  BY <1>4, <1>6, <1>7, <1>10, <1>12

\* While nobody has the lock for writing, every writer is in the queue.
LEMMA WritersQueued ==
    ASSUME IInv, ~destroyed, holder = Nobody, Writers # {}
    PROVE  waiters # <<>>
<1>1. PICK u \in Threads : writes[u] > 0 \/ pc[u] = "writeWait"
  BY DEF Writers
<1>2. HolderAt(u) /\ holder # u
  BY DEF IInv, LiveInv, HolderInv
<1>3. pc[u] = "writeWait" /\ ~granted[u]
  BY <1>1, <1>2 DEF HolderAt, IsWriter
<1>4. u \in Queued
  BY <1>3 DEF IInv, LiveInv, WaitInv, Waits
<1>5. QED
  BY <1>4 DEF Queued

\* _rw_lock_read_lock() and its timed variant when they have to wait.
LEMMA ReadWaits ==
    ASSUME NEW t \in Threads, NEW step \in {"readWait", "timedReadWait"}, IInv, ~destroyed,
           pc[t] \in {"read", "timedRead"}, holder # t, pending_readers = 0, count >= Base,
           rw_lock_wait(t, FALSE, step),
           UNCHANGED <<count, holder, owner_count, active_readers, pending_readers,
                       destroyed, reads, writes>>
    PROVE  IInv'
<1> USE DEF IInv, LiveInv
<1>1. /\ WaitTypeOK' /\ waiters' \in Seq(Waiter) /\ granted' \in [Threads -> BOOLEAN]
      /\ pc' \in [Threads -> Steps]
      /\ QueueInv' /\ WaitInv' /\ waiters' # <<>>
      /\ waiters # <<>> => waiters'[1] = waiters[1]
      /\ pc'[t] = step /\ ~granted'[t]
      /\ \A u \in Threads \ {t} : pc'[u] = pc[u] /\ granted'[u] = granted[u]
  <2>1. PICK isWriter \in BOOLEAN : isWriter = FALSE
    OBVIOUS
  <2>2. /\ rw_lock_wait(t, isWriter, step) /\ pc[t] \notin Waits
        /\ step \in IF isWriter THEN {"writeWait"} ELSE {"readWait", "timedReadWait"}
    BY <2>1 DEF Waits, ReaderWaits
  <2>3. QED
    BY <2>2, Enqueued
<1>2. TypeInv'
  BY <1>1 DEF TypeInv
<1>3. /\ Entering' = Entering /\ Writers' = Writers /\ Leaving' = Leaving
      /\ ReadLocks' = ReadLocks /\ t \in AboutToRead /\ t \notin AboutToRead'
  BY <1>1 DEF Entering, Writers, Leaving, ReadLocks, AboutToRead
<1>4. CountIsExact'
  BY <1>3 DEF CountIsExact
<1>5. holder # t /\ writes[t] = 0 /\ reads[t] = 0
  BY DEF HolderInv, HolderAt, IsWriter, ClientInv, ClientAt, TypeInv
<1>6. ClientInv'
  <2>1. ClientAt(t)'
    BY <1>1, <1>5 DEF ClientAt, Waits, ReaderWaits
  <2>2. ~(reads'[t] > reads[t])
    BY <1>5
  <2>3. QED
    BY <1>1, <1>2, <2>1, <2>2, ClientStep
<1>7. HolderInv'
  <2>1. HolderAt(t)'
    BY <1>1, <1>3, <1>5 DEF HolderInv, HolderAt, IsWriter
  <2>2. QED
    BY <1>1, <2>1, HolderStep
<1>8. Writers # {}
  BY CountSplit DEF TypeInv
<1>9. FreeInv'
  <2> SUFFICES ASSUME holder = Nobody PROVE FreeInv'
    BY DEF FreeInv
  <2>1. waiters # <<>> /\ waiters'[1] = waiters[1]
    BY <1>1, <1>8, WritersQueued
  <2>2. Cardinality(AboutToRead') \in Nat
    BY <1>2, <1>1, Counting DEF TypeInv
  <2>3. QED
    BY <1>3, <1>8, <2>1, <2>2 DEF FreeInv
<1>10. QED
  BY <1>1, <1>2, <1>4, <1>6, <1>7, <1>9

\* Without a writer, who has entered and is not about to read has the lock.
LEMMA LeavingAre ==
    ASSUME IInv, ~destroyed, Writers = {}
    PROVE  /\ waiters = <<>> /\ holder = Nobody
           /\ Cardinality(Leaving) = Cardinality(Entering) - Cardinality(AboutToRead)
           /\ pending_readers = Cardinality(AboutToRead)
<1> USE DEF IInv, LiveInv
<1>1. holder = Nobody
  BY NoWriters
<1>2. waiters = <<>>
  BY <1>1, HeadIsWriter
<1>3. \A u \in Threads : pc[u] \in Waits => granted[u]
  BY <1>2 DEF WaitInv, Queued
<1>4. /\ \A u \in Threads : pc[u] # "readUnlock"
      /\ pending_readers = Cardinality(AboutToRead)
  BY <1>1 DEF FreeInv
<1>5. Leaving = Entering \ AboutToRead
  BY <1>3, <1>4 DEF Leaving, Entering, AboutToRead, Waits, ReaderWaits
<1>6. AboutToRead = Entering \cap AboutToRead
  BY DEF AboutToRead, Entering
<1>7. Cardinality(Entering \ AboutToRead)
        = Cardinality(Entering) - Cardinality(Entering \cap AboutToRead)
  BY CountedFinite, FS_Difference
<1>8. QED
  BY <1>1, <1>2, <1>4, <1>5, <1>6, <1>7

\* rw_lock_write_lock() when it has to wait.
LEMMA WriteWaits ==
    ASSUME NEW t \in Threads, IInv, MayWrite(t), holder # t, count # 0,
           count' = count + Base, active_readers' = NotedReaders,
           rw_lock_wait(t, TRUE, "writeWait"),
           UNCHANGED <<holder, owner_count, writes, pending_readers, destroyed, reads>>
    PROVE  IInv'
<1>0. ~destroyed /\ pc[t] = "idle" /\ (reads[t] > 0 => writes[t] > 0)
  BY DEF MayWrite
<1> USE DEF IInv, LiveInv
<1>1. /\ WaitTypeOK' /\ waiters' \in Seq(Waiter) /\ granted' \in [Threads -> BOOLEAN]
      /\ pc' \in [Threads -> Steps]
      /\ QueueInv' /\ WaitInv' /\ waiters' # <<>>
      /\ IF waiters = <<>> THEN waiters'[1].writer ELSE waiters'[1] = waiters[1]
      /\ pc'[t] = "writeWait" /\ ~granted'[t]
      /\ \A u \in Threads \ {t} : pc'[u] = pc[u] /\ granted'[u] = granted[u]
  <2>1. PICK isWriter \in BOOLEAN : isWriter = TRUE
    OBVIOUS
  <2> DEFINE step == "writeWait"
  <2>2. /\ rw_lock_wait(t, isWriter, step) /\ pc[t] \notin Waits
        /\ step \in IF isWriter THEN {"writeWait"} ELSE {"readWait", "timedReadWait"}
    BY <1>0, <2>1 DEF Waits, ReaderWaits
  <2>3. step = "writeWait"
    OBVIOUS
  <2> HIDE DEF step
  <2>4. QED
    BY <1>0, <2>1, <2>2, <2>3, Enqueued
<1>2. writes[t] = 0 /\ reads[t] = 0
  BY <1>0 DEF HolderInv, HolderAt, IsWriter, TypeInv
<1>3. /\ Entering' = Entering /\ Leaving' = Leaving /\ AboutToRead' = AboutToRead
      /\ ReadLocks' = ReadLocks /\ t \notin Writers /\ t \in Writers'
      /\ Writers' = Writers \cup {t}
  BY <1>0, <1>1, <1>2 DEF Entering, Writers, Leaving, ReadLocks, AboutToRead
<1>4. Cardinality(Writers') = Cardinality(Writers) + 1
  BY <1>3, CountedFinite, FS_AddElement
<1> DEFINE r == Cardinality(ReadLocks)
           e == Cardinality(Entering)
           l == Cardinality(Leaving)
           a == Cardinality(AboutToRead)
<1>5. r \in Nat /\ e \in Nat /\ l \in Nat /\ a \in Nat
  BY CountedFinite
<1>6. /\ count < Base <=> Writers = {}
      /\ Writers = {} => count = r + e
  BY <1>0, CountSplit DEF TypeInv
<1>7. Writers = {} => /\ waiters = <<>> /\ holder = Nobody /\ l = e - a
                      /\ pending_readers = a
  BY <1>0, LeavingAre
<1>8. active_readers' = IF Writers = {} THEN r + l ELSE active_readers
  <2>1. CASE Writers = {}
    BY <1>5, <1>6, <1>7, <2>1 DEF NotedReaders
  <2>2. CASE Writers # {}
    BY <1>6, <2>2 DEF NotedReaders
  <2>3. QED
    BY <2>1, <2>2
<1>9. TypeInv'
  <2>1. active_readers' \in Nat /\ count' \in Nat
    BY <1>5, <1>8 DEF TypeInv
  <2>2. QED
    BY <1>1, <2>1 DEF TypeInv
<1>10. CountIsExact'
  <2> DEFINE n == Cardinality(Writers)
  <2>1. n \in Nat
    BY CountedFinite
  <2>2. count = r + e + Base * n
    BY <1>0, CountSplit
  <2>3. /\ Base * (n + 1) = Base * n + Base /\ Base * n \in Nat
    BY <2>1
  <2> HIDE DEF n, r, e
  <2>4. count' = r + e + Base * (n + 1)
    BY <1>5, <2>2, <2>3
  <2>5. QED
    BY <1>3, <1>4, <2>4 DEF CountIsExact, n, r, e
<1>11. ClientInv'
  <2>1. ClientAt(t)'
    BY <1>1, <1>2 DEF ClientAt, Waits, ReaderWaits
  <2>2. ~(reads'[t] > reads[t])
    BY <1>2
  <2>3. QED
    BY <1>0, <1>1, <1>9, <2>1, <2>2, ClientStep
<1>12. HolderInv'
  <2>1. HolderAt(t)'
    BY <1>0, <1>1, <1>2, <1>3 DEF HolderInv, HolderAt, IsWriter
  <2>2. QED
    BY <1>0, <1>1, <2>1, HolderStep
<1>13. FreeInv'
  <2> SUFFICES ASSUME holder = Nobody PROVE FreeInv'
    BY DEF FreeInv
  <2>1. Writers' # {}
    BY <1>3
  <2>2. CASE Writers = {}
    <3>1. active_readers' + pending_readers > 0
      BY <1>5, <1>6, <1>7, <1>8, <2>2
    <3>2. QED
      BY <1>0, <1>1, <1>3, <1>7, <1>8, <2>1, <2>2, <3>1 DEF FreeInv
  <2>3. CASE Writers # {}
    <3>1. waiters # <<>> /\ waiters'[1] = waiters[1]
      BY <1>0, <1>1, <2>3, WritersQueued
    <3>2. QED
      BY <1>0, <1>3, <1>8, <2>1, <2>3, <3>1 DEF FreeInv
  <2>4. QED
    BY <2>2, <2>3
<1>14. QED
  BY <1>0, <1>1, <1>9, <1>10, <1>11, <1>12, <1>13

\* The timer of a waiting reader ends its wait.
LEMMA TimerKeeps ==
    ASSUME NEW t \in Threads, IInv, TimerFires(t)
    PROVE  IInv'
<1> USE DEF IInv, LiveInv
<1>1. /\ pc[t] = "timedReadWait" /\ wait[t] = Waiting
      /\ wait' = [wait EXCEPT ![t] = B_TIMED_OUT]
      /\ UNCHANGED <<lockVars, pc, reads, writes>>
  BY DEF TimerFires, thread_block_timeout, thread_unblock
<1>2. ~destroyed
  BY <1>1 DEF DeadInv
<1>3. /\ wait'[t] = B_TIMED_OUT
      /\ \A u \in Threads \ {t} : wait'[u] = wait[u]
  BY <1>1 DEF TypeInv
<1>4. TypeInv'
  BY <1>1 DEF TypeInv, lockVars
<1>5. QueueInv'
  BY <1>1 DEF QueueInv, lockVars
<1>6. ~granted[t]
  BY <1>1, <1>2 DEF WaitInv
<1>7. WaitInv'
  <2>1. Queued' = Queued /\ granted' = granted /\ pc' = pc
    BY <1>1 DEF Queued, lockVars
  <2>2. QED
    BY <1>1, <1>2, <1>3, <1>6, <2>1 DEF WaitInv, Waits, ReaderWaits
<1>8. CountIsExact' /\ ClientInv' /\ HolderInv' /\ FreeInv'
  <2>1. /\ Entering' = Entering /\ Leaving' = Leaving /\ AboutToRead' = AboutToRead
        /\ ReadLocks' = ReadLocks /\ Writers' = Writers
    BY <1>1 DEF Entering, Writers, Leaving, ReadLocks, AboutToRead, lockVars
  <2>2. QED
    BY <1>1, <1>2, <2>1 DEF CountIsExact, ClientInv, ClientAt, HolderInv, HolderAt, IsWriter,
          OwnerCount, FreeInv, lockVars
<1>9. QED
  BY <1>1, <1>2, <1>4, <1>5, <1>7, <1>8 DEF lockVars

\* Who has been let in is not in the queue, so it may go without touching it.
LEMMA GrantedGoes ==
    ASSUME NEW t \in Threads, TypeInv, QueueInv, WaitInv,
           wait' = wait, waiters' = waiters, granted' = granted,
           granted[t], wait[t] # Waiting, pc'[t] \notin Waits,
           \A u \in Threads \ {t} : pc'[u] = pc[u]
    PROVE  QueueInv' /\ WaitInv'
<1>1. \A i \in 1..Len(waiters) : waiters[i].thread \in Threads \ {t}
  BY Entries DEF QueueInv
<1>2. QueueInv'
  BY <1>1 DEF QueueInv
<1>3. Queued' = Queued
  BY DEF Queued
<1>4. WaitInv'
  BY <1>3 DEF WaitInv, Waits, ReaderWaits
<1>5. QED
  BY <1>2, <1>4

\* A waiting reader that has been let in returns with the lock.
LEMMA ReaderReturns ==
    ASSUME NEW t \in Threads, IInv, ~destroyed, pc[t] \in {"readWait", "timedReadWait"},
           wait[t] # Waiting, granted[t], GetRead(t), Goto(t, "idle"),
           UNCHANGED <<wait, lockVars, writes>>
    PROVE  IInv'
<1> USE DEF IInv, LiveInv
<1>0. /\ UNCHANGED <<wait, count, holder, owner_count, active_readers, pending_readers,
                     waiters, granted, destroyed, writes>>
  BY DEF lockVars
<1>1. /\ reads[t] = 0 /\ writes[t] = 0
  BY DEF ClientInv, ClientAt, Waits, ReaderWaits
<1>2. /\ pc' = [pc EXCEPT ![t] = "idle"] /\ reads' = [reads EXCEPT ![t] = 1]
  <2>1. reads[t] + 1 = 1
    BY <1>1
  <2>2. QED
    BY <2>1 DEF GetRead, Goto
<1>3. /\ \A u \in Threads \ {t} : pc'[u] = pc[u] /\ reads'[u] = reads[u]
      /\ pc'[t] = "idle" /\ reads'[t] = 1
  BY <1>2 DEF TypeInv
<1>4. TypeInv'
  BY <1>0, <1>2 DEF TypeInv, Steps
<1>5. QueueInv' /\ WaitInv'
  BY <1>0, <1>3, GrantedGoes DEF Waits, ReaderWaits
<1>6. /\ t \in Entering /\ t \notin Entering' /\ Writers' = Writers
      /\ t \in Leaving /\ t \notin Leaving' /\ AboutToRead' = AboutToRead
  BY <1>0, <1>3 DEF Entering, Writers, Leaving, AboutToRead
<1>7. /\ Cardinality(Entering') = Cardinality(Entering) - 1
      /\ Cardinality(ReadLocks') = Cardinality(ReadLocks) + 1
  <2>1. reads'[t] = reads[t] + 1
    BY <1>1, <1>3
  <2>2. QED
    BY <1>0, <1>1, <1>3, <1>4, <1>6, <2>1, Counting, CountedFinite
<1>8. Cardinality(Leaving') = Cardinality(Leaving) - 1
  BY <1>0, <1>3, <1>6, CountLeaving, CountedFinite
<1>9. CountIsExact'
  BY <1>0, <1>6, <1>7, CountedFinite DEF CountIsExact
<1>10. holder = Nobody
  BY <1>1, <1>6 DEF HolderInv, HolderAt, TypeInv
<1>11. ClientInv'
  <2>1. ClientAt(t)' /\ reads'[t] <= 1
    BY <1>3 DEF ClientAt, Waits, ReaderWaits
  <2>2. QED
    BY <1>0, <1>3, <1>4, <2>1, ClientStep
<1>12. HolderInv'
  <2>1. HolderAt(t)'
    BY <1>0, <1>1, <1>3, <1>10 DEF HolderAt, IsWriter
  <2>2. QED
    BY <1>0, <1>3, <2>1, HolderStep
<1>13. FreeInv'
  <2>1. Cardinality(ReadLocks') + Cardinality(Leaving')
          = Cardinality(ReadLocks) + Cardinality(Leaving)
    BY <1>7, <1>8, CountedFinite
  <2>2. \A u \in Threads : pc'[u] = "readUnlock" => pc[u] = "readUnlock"
    BY <1>3
  <2>3. QED
    BY <1>0, <1>6, <1>10, <2>1, <2>2 DEF FreeInv
<1>14. QED
  BY <1>0, <1>4, <1>5, <1>9, <1>11, <1>12, <1>13

\* A waiting reader whose time is up goes on to leave the queue.
LEMMA ReaderFails ==
    ASSUME NEW t \in Threads, IInv, ~destroyed, pc[t] = "timedReadWait",
           wait[t] # Waiting, ~granted[t], Goto(t, "readFailed"),
           UNCHANGED <<wait, lockVars, reads, writes>>
    PROVE  IInv'
<1> USE DEF IInv, LiveInv
<1>0. /\ UNCHANGED <<wait, count, holder, owner_count, active_readers, pending_readers,
                     waiters, granted, destroyed, reads, writes>>
  BY DEF lockVars
<1>1. pc' = [pc EXCEPT ![t] = "readFailed"]
  BY DEF Goto
<1>2. /\ \A u \in Threads \ {t} : pc'[u] = pc[u]
      /\ pc'[t] = "readFailed"
  BY <1>1 DEF TypeInv
<1>3. TypeInv'
  BY <1>0, <1>1 DEF TypeInv, Steps
<1>4. QueueInv'
  <2>1. ASSUME NEW i \in 1..Len(waiters)
        PROVE  IF waiters[i].writer THEN pc'[waiters[i].thread] = "writeWait"
               ELSE pc'[waiters[i].thread] \in ReaderWaits
    <3>1. CASE waiters[i].thread = t
      <4>1. ~waiters[i].writer
        BY <3>1 DEF QueueInv
      <4>2. QED
        BY <1>2, <3>1, <4>1 DEF ReaderWaits
    <3>2. CASE waiters[i].thread # t
      BY <1>2, <3>2, Entries DEF QueueInv
    <3>3. QED
      BY <3>1, <3>2
  <2>2. QED
    BY <1>0, <2>1 DEF QueueInv
<1>5. WaitInv'
  <2>1. Queued' = Queued
    BY <1>0 DEF Queued
  <2>2. QED
    BY <1>0, <1>2, <2>1 DEF WaitInv, Waits, ReaderWaits
<1>6. /\ Entering' = Entering /\ Leaving' = Leaving /\ AboutToRead' = AboutToRead
      /\ ReadLocks' = ReadLocks /\ Writers' = Writers
  BY <1>0, <1>2 DEF Entering, Writers, Leaving, ReadLocks, AboutToRead
<1>7. CountIsExact'
  BY <1>0, <1>6 DEF CountIsExact
<1>8. ClientInv'
  <2>1. ClientAt(t)'
    BY <1>0, <1>2 DEF ClientInv, ClientAt, Waits, ReaderWaits
  <2>2. ~(reads'[t] > reads[t])
    BY <1>0 DEF TypeInv
  <2>3. QED
    BY <1>0, <1>2, <1>3, <2>1, <2>2, ClientStep
<1>9. HolderInv'
  <2>1. HolderAt(t)'
    BY <1>0, <1>2, <1>6 DEF HolderInv, HolderAt, IsWriter
  <2>2. QED
    BY <1>0, <1>2, <2>1, HolderStep
<1>10. FreeInv'
  <2>1. \A u \in Threads : pc'[u] = "readUnlock" => pc[u] = "readUnlock"
    BY <1>2
  <2>2. QED
    BY <1>0, <1>6, <2>1 DEF FreeInv
<1>11. QED
  BY <1>0, <1>3, <1>4, <1>5, <1>7, <1>8, <1>9, <1>10

\* A waiting writer that has been let in returns with the lock.
LEMMA WriterReturns ==
    ASSUME NEW t \in Threads, IInv, ~destroyed, pc[t] = "writeWait", granted[t],
           wait[t] # Waiting, Goto(t, "idle"), holder' = t, owner_count' = Base, GetWrite(t),
           UNCHANGED <<wait, count, active_readers, pending_readers, waiters, granted,
                       destroyed, reads>>
    PROVE  IInv'
<1> USE DEF IInv, LiveInv
<1>1. /\ reads[t] = 0 /\ writes[t] = 0
  BY DEF ClientInv, ClientAt, Waits, ReaderWaits
<1>2. holder = t
  BY DEF HolderInv, HolderAt, IsWriter
<1>3. pc' = [pc EXCEPT ![t] = "idle"] /\ writes' = [writes EXCEPT ![t] = 1]
  <2>1. writes[t] + 1 = 1
    BY <1>1
  <2>2. QED
    BY <2>1 DEF GetWrite, Goto
<1>4. /\ \A u \in Threads \ {t} : pc'[u] = pc[u] /\ writes'[u] = writes[u]
      /\ pc'[t] = "idle" /\ writes'[t] = 1
  BY <1>3 DEF TypeInv
<1>5. TypeInv'
  BY <1>3 DEF TypeInv, Steps
<1>6. QueueInv' /\ WaitInv'
  BY <1>4, GrantedGoes DEF Waits, ReaderWaits
<1>7. Entering' = Entering /\ ReadLocks' = ReadLocks /\ Writers' = Writers
  BY <1>4 DEF Entering, Writers, ReadLocks
<1>8. CountIsExact'
  BY <1>7 DEF CountIsExact
<1>9. ClientInv'
  <2>1. ClientAt(t)'
    BY <1>4 DEF ClientAt, Waits, ReaderWaits
  <2>2. QED
    BY <1>2, <1>4, <1>5, <2>1, ClientStep
<1>10. HolderInv'
  <2>1. OwnerCount(t)' = Base * 1 + 0 + 0
    BY <1>1, <1>4 DEF OwnerCount
  <2>2. HolderAt(t)'
    BY <1>2, <1>4, <2>1 DEF HolderInv, HolderAt
  <2>3. QED
    BY <1>2, <1>4, <2>2, HolderStep
<1>11. FreeInv'
  BY DEF FreeInv
<1>12. QED
  BY <1>5, <1>6, <1>8, <1>9, <1>10, <1>11

\* A reader whose time is up leaves the queue and count.
LEMMA ReaderLeaves ==
    ASSUME NEW t \in Threads, IInv, ~destroyed, TimedReadFails(t)
    PROVE  IInv'
<1> USE DEF IInv, LiveInv
<1>0. /\ pc[t] = "readFailed" /\ pc' = [pc EXCEPT ![t] = "idle"] /\ count' = count - 1
      /\ UNCHANGED <<wait, holder, owner_count, active_readers, pending_readers, granted,
                     destroyed, reads, writes>>
  BY DEF TimedReadFails, Goto
<1>1. PICK k \in 1..Len(waiters) :
         waiters[k].thread = t /\ waiters' = Without(waiters, k)
  BY DEF TimedReadFails
<1>2. /\ \A u \in Threads \ {t} : pc'[u] = pc[u]
      /\ pc'[t] = "idle" /\ reads[t] = 0 /\ writes[t] = 0 /\ wait[t] # Waiting
      /\ ~granted[t] /\ ~waiters[k].writer
  BY <1>0, <1>1 DEF TypeInv, ClientInv, ClientAt, WaitInv, QueueInv, Waits, ReaderWaits
<1>3. /\ waiters' \in Seq(Waiter) /\ Len(waiters) \in Nat /\ Len(waiters') = Len(waiters) - 1
      /\ \A j \in 1..Len(waiters') :
            waiters'[j] = IF j < k THEN waiters[j] ELSE waiters[j + 1]
  <2>1. waiters \in Seq(Waiter)
    BY DEF TypeInv
  <2>2. QED
    BY <1>1, <2>1, WithoutType
<1>4. /\ t \in Entering /\ t \notin Entering' /\ Writers' = Writers
      /\ Leaving' = Leaving /\ AboutToRead' = AboutToRead /\ ReadLocks' = ReadLocks
  BY <1>0, <1>2 DEF Entering, Writers, Leaving, AboutToRead, ReadLocks
<1>5. Cardinality(Entering) \in Nat \ {0}
  BY <1>4, CountedFinite, FS_EmptySet
<1> DEFINE b == Base * Cardinality(Writers)
           n == Cardinality(ReadLocks)
           m == Cardinality(Entering)
<1>6. b \in Nat /\ m \in Nat \ {0} /\ n \in Nat
  BY <1>5, CountedFinite
<1>7. count = n + m + b
  BY CountSplit
<1>8. TypeInv'
  <2>1. count' \in Nat
    <3> HIDE DEF b, n, m
    <3>1. QED
      BY <1>0, <1>6, <1>7
  <2>2. QED
    BY <1>0, <1>3, <2>1 DEF TypeInv, Steps
<1>9. Cardinality(Entering') = m - 1
  <2>1. ~(reads'[t] > reads[t]) /\ reads'[t] = reads[t]
    BY <1>0, <1>2
  <2>2. QED
    BY <1>0, <1>2, <1>4, <1>8, <2>1, Counting, CountedFinite
<1>10. CountIsExact'
  <2>1. count' = n + (m - 1) + b
    <3> HIDE DEF b, n, m
    <3>1. QED
      BY <1>0, <1>6, <1>7
  <2>2. QED
    BY <1>4, <1>9, <2>1 DEF CountIsExact
<1>11. \A j \in 1..Len(waiters') : \E i \in 1..Len(waiters) :
          /\ i = (IF j < k THEN j ELSE j + 1) /\ i # k /\ waiters'[j] = waiters[i]
  BY <1>3
<1>12. QueueInv'
  <2>1. ASSUME NEW i \in 1..Len(waiters'), NEW j \in 1..Len(waiters'),
               waiters'[i].thread = waiters'[j].thread
        PROVE  i = j
    <3>1. PICK p \in 1..Len(waiters) :
             p = (IF i < k THEN i ELSE i + 1) /\ waiters'[i] = waiters[p]
      BY <1>11
    <3>2. PICK q \in 1..Len(waiters) :
             q = (IF j < k THEN j ELSE j + 1) /\ waiters'[j] = waiters[q]
      BY <1>11
    <3>3. p = q
      BY <2>1, <3>1, <3>2 DEF QueueInv
    <3>4. QED
      BY <1>3, <3>1, <3>2, <3>3
  <2>2. ASSUME NEW j \in 1..Len(waiters')
        PROVE  /\ ~granted'[waiters'[j].thread]
               /\ IF waiters'[j].writer THEN pc'[waiters'[j].thread] = "writeWait"
                  ELSE pc'[waiters'[j].thread] \in ReaderWaits
    <3>1. PICK i \in 1..Len(waiters) : i # k /\ waiters'[j] = waiters[i]
      BY <1>11
    <3>2. waiters[i].thread \in Threads \ {t}
      BY <1>1, <3>1, Entries DEF QueueInv
    <3>3. QED
      BY <1>0, <1>2, <3>1, <3>2 DEF QueueInv
  <2>3. QED
    BY <2>1, <2>2 DEF QueueInv
<1>13. Queued \ {t} \subseteq Queued'
  <2> SUFFICES ASSUME NEW i \in 1..Len(waiters), waiters[i].thread # t
               PROVE  waiters[i].thread \in Queued'
    BY DEF Queued
  <2>1. i # k
    BY <1>1
  <2>2. CASE i < k
    <3>1. i \in 1..Len(waiters') /\ waiters'[i] = waiters[i]
      BY <1>3, <2>2
    <3>2. QED
      BY <3>1 DEF Queued
  <2>3. CASE i > k
    <3>1. i - 1 \in 1..Len(waiters') /\ waiters'[i - 1] = waiters[i]
      BY <1>3, <2>3
    <3>2. QED
      BY <3>1 DEF Queued
  <2>4. QED
    BY <1>3, <2>1, <2>2, <2>3
<1>14. WaitInv'
  <2>1. ASSUME NEW u \in Threads \ {t}, pc[u] \in Waits PROVE granted[u] \/ u \in Queued'
    BY <1>13, <2>1 DEF WaitInv
  <2>2. QED
    BY <1>0, <1>2, <2>1 DEF WaitInv, Waits, ReaderWaits
<1>15. ClientInv'
  <2>1. ClientAt(t)'
    BY <1>2 DEF ClientAt, Waits, ReaderWaits
  <2>2. ~(reads'[t] > reads[t])
    BY <1>0, <1>2
  <2>3. QED
    BY <1>0, <1>2, <1>8, <2>1, <2>2, ClientStep
<1>16. HolderInv'
  <2>1. holder # t
    BY <1>0, <1>2 DEF HolderInv, HolderAt
  <2>2. HolderAt(t)'
    BY <1>0, <1>2, <1>4, <2>1 DEF HolderInv, HolderAt, IsWriter
  <2>3. QED
    BY <1>0, <1>2, <2>2, HolderStep
<1>17. FreeInv'
  <2> SUFFICES ASSUME holder = Nobody PROVE FreeInv'
    BY <1>0 DEF FreeInv
  <2>1. waiters # <<>>
    BY <1>1
  <2>2. waiters[1].writer /\ active_readers + pending_readers > 0 /\ Writers # {}
    BY <2>1, HeadIsWriter DEF FreeInv
  <2>3. k > 1
    BY <1>2, <2>2
  <2>4. 1 \in 1..Len(waiters') /\ waiters'[1] = waiters[1]
    BY <1>3, <2>3
  <2>5. QED
    BY <1>0, <1>4, <2>2, <2>4 DEF FreeInv
<1>18. QED
  BY <1>0, <1>8, <1>10, <1>12, <1>14, <1>15, <1>16, <1>17

-----------------------------------------------------------------------------
(* Waking the head of the queue *)

\* The first n waiters are let in.
LetIn(n) ==
    LET woken == {waiters[i].thread : i \in 1..n}
    IN  /\ waiters' = SubSeq(waiters, n + 1, Len(waiters))
        /\ wait' = UnblockAll(wait, woken, B_OK)
        /\ granted' = [t \in Threads |-> granted[t] \/ t \in woken]

\* Those that are let in, and what is left of the queue.
LEMMA LetInQueue ==
    ASSUME TypeInv, QueueInv, NEW n \in 0..Len(waiters), LetIn(n)
    PROVE  /\ waiters' \in Seq(Waiter) /\ Len(waiters) \in Nat
           /\ Len(waiters') = Len(waiters) - n
           /\ \A j \in 1..Len(waiters') :
                 waiters'[j] = waiters[j + n] /\ j + n \in 1..Len(waiters)
           /\ \A i \in 1..Len(waiters) : i > n =>
                 i - n \in 1..Len(waiters') /\ waiters'[i - n] = waiters[i]
           /\ {waiters[i].thread : i \in 1..n} \subseteq Threads
           /\ IsFiniteSet({waiters[i].thread : i \in 1..n})
           /\ Cardinality({waiters[i].thread : i \in 1..n}) = n
<1>1. /\ waiters \in Seq(Waiter) /\ Len(waiters) \in Nat /\ n \in Nat /\ n <= Len(waiters)
      /\ waiters' = SubSeq(waiters, n + 1, Len(waiters))
      /\ \A i \in 1..n : i \in 1..Len(waiters)
  BY DEF TypeInv, LetIn
<1>2. /\ waiters' \in Seq(Waiter) /\ Len(waiters') = Len(waiters) - n
      /\ \A j \in 1..Len(waiters') : waiters'[j] = waiters[j + n]
  <2>1. /\ waiters' \in Seq(Waiter)
        /\ Len(waiters') = Len(waiters) - n
    BY <1>1
  <2>2. \A j \in 1..(Len(waiters) - n) : waiters'[j] = waiters[n + 1 + j - 1]
    BY <1>1
  <2>3. \A j \in 1..(Len(waiters) - n) : n + 1 + j - 1 = j + n
    BY <1>1
  <2>4. QED
    BY <2>1, <2>2, <2>3
<1>3. \A j \in 1..Len(waiters') : j + n \in 1..Len(waiters)
  BY <1>1, <1>2
<1>4. ASSUME NEW i \in 1..Len(waiters), i > n
      PROVE  i - n \in 1..Len(waiters') /\ waiters'[i - n] = waiters[i]
  <2>1. i - n \in 1..Len(waiters') /\ (i - n) + n = i
    BY <1>1, <1>2, <1>4
  <2>2. QED
    BY <1>2, <2>1
<1> DEFINE K == {waiters[i].thread : i \in 1..n}
           g == [i \in 1..n |-> waiters[i].thread]
<1>5. K \subseteq Threads
  BY <1>1, Entries
<1>6. g \in Bijection(1..n, K)
  <2>1. g \in [1..n -> K]
    OBVIOUS
  <2>2. \A i, j \in 1..n : g[i] = g[j] => i = j
    BY <1>1 DEF QueueInv
  <2>3. \A x \in K : \E i \in 1..n : g[i] = x
    OBVIOUS
  <2>4. QED
    BY <2>1, <2>2, <2>3 DEF Bijection, Injection, Surjection, IsInjective
<1>7. ExistsBijection(1..n, K)
  BY <1>6 DEF ExistsBijection
<1> HIDE DEF K, g
<1>8. IsFiniteSet(1..n) /\ Cardinality(1..n) = n
  <2>1. 1 \in Int /\ n \in Int
    BY <1>1
  <2>2. IsFiniteSet(1..n) /\ Cardinality(1..n) = IF 1 > n THEN 0 ELSE n - 1 + 1
    BY <2>1, FS_Interval
  <2>3. QED
    BY <1>1, <2>2
<1>9. IsFiniteSet(K) /\ Cardinality(K) = n
  BY <1>7, <1>8, FS_Bijection
<1>10. QED
  BY <1>1, <1>2, <1>3, <1>4, <1>5, <1>9 DEF K

\* Letting in the head of the queue keeps what is known of the waiting threads.
LEMMA LetInWaits ==
    ASSUME NEW t \in Threads, TypeInv, QueueInv, WaitInv, NEW n \in 0..Len(waiters),
           LetIn(n), pc[t] \notin Waits, pc'[t] \notin Waits,
           \A u \in Threads \ {t} : pc'[u] = pc[u]
    PROVE  /\ WaitTypeOK' /\ granted' \in [Threads -> BOOLEAN]
           /\ QueueInv' /\ WaitInv'
           /\ granted'[t] = granted[t]
<1> DEFINE K == {waiters[i].thread : i \in 1..n}
<1>1. /\ Len(waiters) \in Nat /\ Len(waiters') = Len(waiters) - n
      /\ \A j \in 1..Len(waiters') :
            waiters'[j] = waiters[j + n] /\ j + n \in 1..Len(waiters)
      /\ \A i \in 1..Len(waiters) : i > n =>
            i - n \in 1..Len(waiters') /\ waiters'[i - n] = waiters[i]
      /\ K \subseteq Threads
  BY LetInQueue
<1>2. /\ \A u \in Threads : granted'[u] = (granted[u] \/ u \in K)
      /\ \A u \in Threads : wait'[u] = IF u \in K /\ wait[u] = Waiting THEN B_OK ELSE wait[u]
      /\ wait' \in [Threads -> Results \cup {Waiting}] /\ granted' \in [Threads -> BOOLEAN]
  BY DEF LetIn, UnblockAll, TypeInv
<1>3. \A i \in 1..Len(waiters) : waiters[i].thread \in Threads \ {t}
  BY Entries, QueuedWait
<1>4. \A i \in 1..n : i \in 1..Len(waiters)
  BY <1>1
<1>5. \A i \in 1..Len(waiters) : waiters[i].thread \in K => i <= n
  <2> SUFFICES ASSUME NEW i \in 1..Len(waiters), NEW j \in 1..n,
                      waiters[i].thread = waiters[j].thread
               PROVE  i <= n
    OBVIOUS
  <2>1. i = j
    BY <1>4 DEF QueueInv
  <2>2. QED
    BY <2>1
<1>6. \A u \in K : u # t /\ pc[u] \in Waits /\ ~granted[u]
  <2> SUFFICES ASSUME NEW i \in 1..n
               PROVE  LET u == waiters[i].thread IN u # t /\ pc[u] \in Waits /\ ~granted[u]
    OBVIOUS
  <2>1. QED
    BY <1>3, <1>4, QueuedWait DEF QueueInv
<1> HIDE DEF K
<1>7. QueueInv'
  <2>1. ASSUME NEW i \in 1..Len(waiters'), NEW j \in 1..Len(waiters'),
               waiters'[i].thread = waiters'[j].thread
        PROVE  i = j
    <3>1. i + n = j + n
      BY <1>1, <2>1 DEF QueueInv
    <3>2. QED
      BY <1>1, <3>1
  <2>2. ASSUME NEW j \in 1..Len(waiters')
        PROVE  /\ ~granted'[waiters'[j].thread]
               /\ IF waiters'[j].writer THEN pc'[waiters'[j].thread] = "writeWait"
                  ELSE pc'[waiters'[j].thread] \in ReaderWaits
    <3>1. waiters'[j] = waiters[j + n] /\ j + n \in 1..Len(waiters) /\ ~(j + n <= n)
      BY <1>1
    <3>2. waiters[j + n].thread \in Threads \ {t} /\ waiters[j + n].thread \notin K
      BY <1>3, <1>5, <3>1
    <3>3. QED
      BY <1>2, <3>1, <3>2 DEF QueueInv
  <2>3. QED
    BY <2>1, <2>2 DEF QueueInv
<1>8. Queued \ K \subseteq Queued'
  <2> SUFFICES ASSUME NEW i \in 1..Len(waiters), waiters[i].thread \notin K
               PROVE  waiters[i].thread \in Queued'
    BY DEF Queued
  <2>1. i > n
    BY <1>1 DEF K
  <2>2. QED
    BY <1>1, <2>1 DEF Queued
<1>9. WaitInv'
  <2> SUFFICES ASSUME NEW u \in Threads
      PROVE 
        /\ pc'[u] \in Waits => granted'[u] \/ u \in Queued'
        /\ pc'[u] \in {"readWait", "writeWait"} =>
              wait'[u] = IF granted'[u] THEN B_OK ELSE Waiting
        /\ pc'[u] = "timedReadWait" =>
              wait'[u] \in IF granted'[u] THEN {B_OK, B_TIMED_OUT} ELSE {Waiting, B_TIMED_OUT}
        /\ pc'[u] \notin {"readWait", "timedReadWait", "writeWait"} => wait'[u] # Waiting
    BY DEF WaitInv
  <2>1. CASE u = t
    <3>1. wait'[u] = wait[u] /\ wait[u] # Waiting
      BY <1>2, <1>6, <2>1 DEF WaitInv, Waits, ReaderWaits
    <3>2. QED
      BY <2>1, <3>1 DEF Waits, ReaderWaits
  <2>2. CASE u # t /\ u \in K
    BY <1>2, <1>6, <2>2 DEF WaitInv, Waits, ReaderWaits
  <2>3. CASE u # t /\ u \notin K
    BY <1>2, <1>8, <2>3 DEF WaitInv, Waits, ReaderWaits
  <2>4. QED
    BY <2>1, <2>2, <2>3
<1>10. granted'[t] = granted[t]
  <2>1. t \notin K /\ granted'[t] = (granted[t] \/ t \in K)
    BY <1>2, <1>6
  <2>2. granted[t] \in BOOLEAN
    BY DEF TypeInv
  <2>3. QED
    BY <2>1, <2>2
<1>11. QED
  BY <1>2, <1>7, <1>9, <1>10

\* Whom rw_lock_unblock() wakes: nobody, the writer at the head, or the readers at the head.
LEMMA WakesWhom ==
    ASSUME TypeInv, NEW act \in Nat, NEW pend \in Nat, NEW n,
           n = Cardinality(Wakes(waiters, act, pend))
    PROVE  /\ n \in 0..Len(waiters) /\ Wakes(waiters, act, pend) = 1..n
           /\ waiters = <<>> => n = 0
           /\ waiters # <<>> /\ waiters[1].writer => n = IF act > 0 \/ pend > 0 THEN 0 ELSE 1
           /\ waiters # <<>> /\ ~waiters[1].writer =>
                 /\ n > 0 /\ Wakes(waiters, act, pend) = LeadingReaders(waiters)
                 /\ \A i \in 1..n : ~waiters[i].writer
                 /\ n < Len(waiters) => waiters[n + 1].writer
<1>1. waiters \in Seq(Waiter) /\ Len(waiters) \in Nat
  BY DEF TypeInv
<1>2. 1..0 = {} /\ 1..1 = {1}
  OBVIOUS
<1>3. CASE waiters = <<>>
  <2>1. Wakes(waiters, act, pend) = {} /\ n = 0
    BY <1>3, FS_EmptySet DEF Wakes
  <2>2. n \in 0..Len(waiters)
    BY <1>1, <2>1
  <2>3. Wakes(waiters, act, pend) = 1..n
    BY <1>2, <2>1
  <2>4. QED
    BY <1>3, <2>1, <2>2, <2>3
<1>4. CASE waiters # <<>> /\ waiters[1].writer
  <2>1. CASE act > 0 \/ pend > 0
    <3>1. Wakes(waiters, act, pend) = {} /\ n = 0
      BY <1>4, <2>1, FS_EmptySet DEF Wakes
    <3>2. QED
      BY <1>1, <1>2, <1>4, <2>1, <3>1
  <2>2. CASE ~(act > 0 \/ pend > 0)
    <3>1. Wakes(waiters, act, pend) = {1} /\ n = 1
      BY <1>4, <2>2, FS_Singleton DEF Wakes
    <3>2. Len(waiters) > 0
      BY <1>1, <1>4
    <3>3. QED
      BY <1>1, <1>2, <1>4, <2>2, <3>1, <3>2
  <2>3. QED
    BY <2>1, <2>2
<1>5. CASE waiters # <<>> /\ ~waiters[1].writer
  <2> DEFINE S == LeadingReaders(waiters)
  <2>1. Wakes(waiters, act, pend) = S
    BY <1>5 DEF Wakes
  <2>2. S \in SUBSET (1..Len(waiters)) /\ \A i \in S : \A j \in 1..i : j \in S
    BY <1>1 DEF LeadingReaders
  <2>3. \A i \in S : ~waiters[i].writer
    BY DEF LeadingReaders
  <2>4. 1 \in S
    BY <1>1, <1>5 DEF LeadingReaders
  <2>5. \A i \in 1..Len(waiters) : (\A j \in 1..i : ~waiters[j].writer) => i \in S
    BY DEF LeadingReaders
  <2> HIDE DEF S
  <2>6. n \in 0..Len(waiters) /\ S = 1..n
    BY <1>1, <2>1, <2>2, InitialSegment
  <2>7. n > 0
    BY <2>4, <2>6
  <2>8. ASSUME n < Len(waiters) PROVE waiters[n + 1].writer
    <3>1. n + 1 \in 1..Len(waiters) /\ n + 1 \notin S
      BY <1>1, <2>6, <2>8
    <3>2. PICK j \in 1..(n + 1) : waiters[j].writer
      BY <2>5, <3>1
    <3>3. j \notin 1..n
      BY <2>3, <2>6, <3>2
    <3>4. j = n + 1
      BY <2>6, <3>3
    <3>5. QED
      BY <3>2, <3>4
  <2>9. QED
    BY <1>5, <2>1, <2>3, <2>6, <2>7, <2>8 DEF S
<1>6. QED
  BY <1>3, <1>4, <1>5

\* rw_lock_unblock() in these terms.
LEMMA Unblocks ==
    ASSUME TypeInv, NEW act \in Nat, NEW pend \in Nat, NEW c, rw_lock_unblock(act, pend, c)
    PROVE  \E n \in 0..Len(waiters) :
              /\ n = Cardinality(Wakes(waiters, act, pend))
              /\ LetIn(n)
              /\ IF n > 0 /\ waiters[1].writer
                 THEN holder' = waiters[1].thread /\ active_readers' = act
                 ELSE holder' = Nobody
                      /\ active_readers' = IF c >= Base THEN act + n ELSE act
<1> DEFINE up == Wakes(waiters, act, pend)
           n == Cardinality(up)
           w == up # {} /\ waiters[1].writer
<1>1. n \in 0..Len(waiters) /\ up = 1..n
  BY WakesWhom
<1>2. /\ waiters' = SubSeq(waiters, n + 1, Len(waiters))
      /\ wait' = UnblockAll(wait, {waiters[i].thread : i \in up}, B_OK)
      /\ granted' = [t \in Threads |-> granted[t] \/ t \in {waiters[i].thread : i \in up}]
      /\ holder' = IF w THEN waiters[1].thread ELSE Nobody
      /\ active_readers' = IF ~w /\ c >= Base THEN act + n ELSE act
  BY DEF rw_lock_unblock
<1> HIDE DEF n, up, w
<1>3. LetIn(n)
  BY <1>1, <1>2 DEF LetIn
<1>4. w <=> n > 0 /\ waiters[1].writer
  BY <1>1 DEF w
<1>5. QED
  BY <1>1, <1>2, <1>3, <1>4 DEF n, up

\* After the last reader or writer has left: the writer at the head of the queue has the lock.
LEMMA WriterLetIn ==
    ASSUME NEW t \in Threads, NEW h \in Threads, TypeInv, TypeInv', QueueInv, HolderInv,
           holder = Nobody \/ holder = t, pending_readers' = 0,
           pc[h] = "writeWait", reads[h] = 0, writes[h] = 0, h # t, holder' = h,
           \A u \in Threads : granted'[u] = (granted[u] \/ u = h),
           \A u \in Threads \ {t} : writes'[u] = writes[u] /\ pc'[u] = pc[u],
           \A u \in Threads : reads'[u] = 0,
           \A u \in Threads \ {t} : u \notin Leaving,
           writes'[t] = 0, pc'[t] = "idle"
    PROVE  HolderInv'
<1>1. ASSUME NEW u \in Threads PROVE HolderAt(u)'
  <2>1. reads'[u] = 0
    OBVIOUS
  <2>2. u \notin Leaving'
    BY DEF Leaving, Entering, AboutToRead
  <2>3. CASE u = h
    <3>1. writes'[u] = 0 /\ pc'[u] = "writeWait" /\ granted'[u]
      BY <2>3
    <3>2. QED
      BY <2>3, <3>1 DEF HolderAt
  <2>4. CASE u = t
    BY <2>1, <2>2, <2>4 DEF HolderAt, IsWriter
  <2>5. CASE u # h /\ u # t
    <3>1. ~IsWriter(u)
      BY <2>5 DEF HolderInv, HolderAt
    <3>2. ~IsWriter(u)'
      BY <2>5, <3>1 DEF IsWriter
    <3>3. QED
      BY <2>1, <2>2, <2>5, <3>2 DEF HolderAt
  <2>6. QED
    BY <2>3, <2>4, <2>5
<1>2. QED
  BY <1>1 DEF HolderInv

\* After the writer has left and no writer is let in nobody is the holder.
LEMMA NoWriterLetIn ==
    ASSUME NEW t \in Threads, TypeInv, TypeInv', QueueInv, HolderInv,
           holder = Nobody \/ holder = t, holder' = Nobody,
           \A u \in Threads \ {t} : writes'[u] = writes[u] /\ pc'[u] = pc[u],
           \A u \in Threads \ {t} : pc[u] = "writeWait" => granted'[u] = granted[u],
           writes'[t] = 0, pc'[t] = "idle"
    PROVE  HolderInv'
<1>1. ASSUME NEW u \in Threads PROVE HolderAt(u)'
  <2>1. ~IsWriter(u)'
    <3>1. CASE u = t
      BY <3>1 DEF IsWriter
    <3>2. CASE u # t
      <4>1. ~IsWriter(u)
        BY <3>2 DEF HolderInv, HolderAt
      <4>2. QED
        BY <3>2, <4>1 DEF IsWriter
    <3>3. QED
      BY <3>1, <3>2
  <2>2. QED
    BY <2>1 DEF HolderAt
<1>2. QED
  BY <1>1 DEF HolderInv

\* _rw_lock_read_unlock() of the last reader: the writer it leaves the lock to is woken,
\* unless readers are still expected.
LEMMA UnlockLast ==
    ASSUME NEW t \in Threads, IInv, ~destroyed, pc[t] = "readUnlock", holder = Nobody,
           active_readers = 1, rw_lock_unblock(0, pending_readers, count), Goto(t, "idle"),
           UNCHANGED <<owner_count, count, pending_readers, destroyed, reads, writes>>
    PROVE  IInv'
<1>0. /\ Writers # {} /\ t \in Leaving
      /\ 1 = Cardinality(ReadLocks) + Cardinality(Leaving)
      /\ Cardinality(Leaving) \in Nat \ {0} /\ waiters # <<>>
  BY UnlockerActive, WritersQueued
<1> USE DEF IInv, LiveInv
<1>1. /\ 1 \in 1..Len(waiters) /\ waiters[1].writer
  BY <1>0, HeadIsWriter
<1>2. PICK n \in 0..Len(waiters) :
         /\ n = Cardinality(Wakes(waiters, 0, pending_readers))
         /\ LetIn(n)
         /\ IF n > 0 /\ waiters[1].writer
            THEN holder' = waiters[1].thread /\ active_readers' = 0
            ELSE holder' = Nobody
                 /\ active_readers' = IF count >= Base THEN 0 + n ELSE 0
  <2>1. 0 \in Nat /\ pending_readers \in Nat
    BY DEF TypeInv
  <2>2. QED
    BY <2>1, Unblocks
<1>3. n = IF pending_readers > 0 THEN 0 ELSE 1
  <2>1. 0 \in Nat /\ pending_readers \in Nat /\ ~(0 > 0)
    BY DEF TypeInv
  <2>2. n = IF 0 > 0 \/ pending_readers > 0 THEN 0 ELSE 1
    BY <1>0, <1>1, <1>2, <2>1, WakesWhom
  <2>3. QED
    BY <2>1, <2>2
<1>4. /\ \A u \in Threads \ {t} : pc'[u] = pc[u]
      /\ pc'[t] = "idle" /\ pc' \in [Threads -> Steps]
  BY DEF TypeInv, Goto, Steps
<1>5. pc[t] \notin Waits /\ pc'[t] \notin Waits
  BY <1>4 DEF Waits, ReaderWaits
<1>6. /\ WaitTypeOK' /\ granted' \in [Threads -> BOOLEAN]
      /\ QueueInv' /\ WaitInv' /\ granted'[t] = granted[t]
  BY <1>2, <1>4, <1>5, LetInWaits
<1>7. waiters' \in Seq(Waiter)
  BY <1>2, LetInQueue
<1> DEFINE h == waiters[1].thread
<1>8. h \in Threads \ {t} /\ pc[h] = "writeWait" /\ ~granted[h]
  BY <1>1, Entries DEF QueueInv
<1>9. reads[h] = 0 /\ writes[h] = 0
  BY <1>8 DEF ClientInv, ClientAt, Waits
<1>10. /\ holder' = (IF pending_readers > 0 THEN Nobody ELSE h) /\ active_readers' = 0
       /\ \A u \in Threads : granted'[u] =
             (granted[u] \/ (~(pending_readers > 0) /\ u = h))
  <2>1. pending_readers \in Nat /\ granted \in [Threads -> BOOLEAN]
    BY DEF TypeInv
  <2>2. CASE pending_readers > 0
    <3>1. n = 0 /\ {waiters[i].thread : i \in 1..n} = {}
      BY <1>3, <2>2
    <3>2. QED
      BY <1>2, <2>1, <2>2, <3>1 DEF LetIn
  <2>3. CASE ~(pending_readers > 0)
    <3>1. n = 1 /\ 1..n = {1}
      BY <1>3, <2>3
    <3>2. {waiters[i].thread : i \in 1..n} = {h}
      BY <3>1
    <3>3. \A u \in Threads : granted'[u] = (granted[u] \/ u \in {h})
      BY <1>2, <3>2 DEF LetIn
    <3>4. QED
      BY <1>1, <1>2, <2>1, <2>3, <3>1, <3>3
  <2>4. QED
    BY <2>2, <2>3
<1>11. TypeInv'
  BY <1>4, <1>6, <1>7, <1>8, <1>10 DEF TypeInv
<1>12. /\ Entering' = Entering /\ Writers' = Writers /\ ReadLocks' = ReadLocks
       /\ AboutToRead' = AboutToRead
  BY <1>4 DEF Entering, Writers, ReadLocks, AboutToRead
<1>13. CountIsExact'
  BY <1>12 DEF CountIsExact
<1>14. ClientInv'
  <2>1. ClientAt(t)'
    BY <1>4, <1>5 DEF ClientAt
  <2>2. ~(reads'[t] > reads[t])
    BY DEF TypeInv
  <2>3. QED
    BY <1>4, <1>11, <2>1, <2>2, ClientStep
<1>15. Leaving = {t} /\ Cardinality(ReadLocks) = 0 /\ \A u \in Threads : reads[u] = 0
  <2>1. Cardinality(ReadLocks) = 0 /\ Cardinality(Leaving) = 1
    BY <1>0, CountedFinite
  <2>2. Leaving = {t}
    BY <1>0, <2>1, CountedFinite, FS_Singleton
  <2>3. ReadLocks = {}
    BY <2>1, CountedFinite, FS_EmptySet
  <2>4. ASSUME NEW u \in Threads, reads[u] # 0 PROVE FALSE
    <3>1. reads[u] \in 1..MaxNest
      BY <2>4 DEF TypeInv
    <3>2. <<u, reads[u]>> \in ReadLocks
      BY <3>1 DEF ReadLocks
    <3>3. QED
      BY <2>3, <3>2
  <2>5. QED
    BY <2>1, <2>2, <2>4
<1>16. writes'[t] = 0
  BY DEF HolderInv, HolderAt, IsWriter, TypeInv
<1>17. CASE pending_readers > 0
  <2>1. n = 0 /\ holder' = Nobody /\ \A u \in Threads : granted'[u] = granted[u]
    BY <1>3, <1>10, <1>17 DEF TypeInv
  <2>2. HolderInv'
    BY <1>4, <1>11, <1>16, <2>1, NoWriterLetIn
  <2>3. Leaving' = {}
    BY <1>4, <1>15, <2>1 DEF Leaving, Entering, AboutToRead
  <2>4. waiters' = waiters
    <3>1. waiters \in Seq(Waiter) /\ waiters' = SubSeq(waiters, 0 + 1, Len(waiters))
      BY <1>2, <2>1 DEF TypeInv, LetIn
    <3>2. SubSeq(waiters, 0 + 1, Len(waiters)) = waiters
      BY <3>1
    <3>3. QED
      BY <3>1, <3>2
  <2>5. FreeInv'
    <3>1. active_readers' = Cardinality(ReadLocks') + Cardinality(Leaving')
      BY <1>10, <1>12, <1>15, <2>3, FS_EmptySet
    <3>2. active_readers' + pending_readers' > 0
      BY <1>10, <1>17 DEF TypeInv
    <3>3. QED
      BY <1>0, <1>1, <1>12, <2>4, <3>1, <3>2 DEF FreeInv
  <2>6. QED
    BY <1>6, <1>11, <1>13, <1>14, <2>2, <2>5
<1>18. CASE ~(pending_readers > 0)
  <2>1. holder' = h /\ pending_readers' = 0 /\ \A u \in Threads : granted'[u] = (granted[u] \/ u = h)
    BY <1>10, <1>18 DEF TypeInv
  <2>2. HolderInv'
    <3>1. \A u \in Threads \ {t} : u \notin Leaving
      BY <1>15
    <3> HIDE DEF h
    <3>2. QED
      BY <1>4, <1>8, <1>9, <1>11, <1>15, <1>16, <2>1, <3>1, WriterLetIn
  <2>3. FreeInv'
    BY <1>8, <2>1 DEF FreeInv
  <2>4. QED
    BY <1>6, <1>11, <1>13, <1>14, <2>2, <2>3
<1>19. QED
  BY <1>17, <1>18

-----------------------------------------------------------------------------
(* The last write lock is given up *)

\* What is known when the writer is about to give up its last write lock.
LEMMA LastWrite ==
    ASSUME NEW t \in Threads, IInv, ~destroyed, pc[t] = "idle", holder = t,
           owner_count < 2 * Base
    PROVE  /\ writes[t] = 1 /\ reads[t] \in Nat /\ owner_count - Base = reads[t]
           /\ \A u \in Threads \ {t} : reads[u] = 0 /\ writes[u] = 0
           /\ Leaving = {} /\ pending_readers = 0 /\ t \in Writers
           /\ \A u \in Threads : pc[u] \in Waits => ~granted[u] /\ u \in Queued
           /\ \A u \in Threads : pc[u] # "readUnlock"
           /\ Cardinality(ReadLocks) = reads[t]
<1> USE DEF IInv, LiveInv
<1>1. /\ writes[t] \in Nat \ {0} /\ reads[t] \in Nat /\ Base * writes[t] \in Nat
      /\ owner_count = Base * writes[t] + reads[t]
      /\ owner_count >= 2 * Base <=> writes[t] >= 2
  BY WriterCount
<1>2. writes[t] = 1 /\ owner_count - Base = reads[t]
  <2>1. writes[t] = 1
    BY <1>1 DEF TypeInv
  <2>2. QED
    BY <1>1, <2>1
<1>3. \A u \in Threads \ {t} : reads[u] = 0 /\ u \notin Leaving /\ ~IsWriter(u)
  BY DEF HolderInv, HolderAt
<1>5. Leaving = {}
  <2>1. t \notin Leaving
    BY DEF Leaving, Entering
  <2>2. QED
    BY <1>3, <2>1 DEF Leaving
<1>6. ASSUME NEW u \in Threads \ {t} PROVE writes[u] = 0
  <2>1. writes[u] \in Nat
    BY DEF TypeInv
  <2>2. ~(writes[u] > 0)
    BY <1>3 DEF IsWriter
  <2>3. QED
    BY <2>1, <2>2
<1>7. \A u \in Threads : pc[u] # "readUnlock"
  BY <1>5 DEF Leaving
<1>8. ASSUME NEW u \in Threads, pc[u] \in Waits PROVE ~granted[u] /\ u \in Queued
  <2>1. u # t
    BY <1>8 DEF Waits, ReaderWaits
  <2>2. pc[u] # "writeWait" => u \in Entering \ AboutToRead
    BY <1>8 DEF Entering, AboutToRead, Waits, ReaderWaits
  <2>3. ~granted[u]
    BY <1>3, <1>5, <2>1, <2>2 DEF Leaving, IsWriter
  <2>4. QED
    BY <1>8, <2>3 DEF WaitInv
<1>9. pending_readers = 0 /\ t \in Writers
  BY <1>2 DEF HolderInv, HolderAt, Writers
<1>10. Cardinality(ReadLocks) = reads[t]
  <2>1. ReadLocks = {t} \X (1..reads[t])
    <3>1. ASSUME NEW u \in Threads, NEW i \in 1..MaxNest
          PROVE  i <= reads[u] <=> u = t /\ i \in 1..reads[t]
      <4>1. CASE u = t
        BY <1>1, <4>1
      <4>2. CASE u # t
        BY <1>3, <4>2
      <4>3. QED
        BY <4>1, <4>2
    <3>2. \A i \in 1..reads[t] : i \in 1..MaxNest
      BY DEF TypeInv
    <3>3. QED
      BY <3>1, <3>2 DEF ReadLocks
  <2>2. IsFiniteSet(1..reads[t]) /\ Cardinality(1..reads[t]) = reads[t]
    <3>1. 1 \in Int /\ reads[t] \in Int
      BY <1>1
    <3>2. /\ IsFiniteSet(1..reads[t])
          /\ Cardinality(1..reads[t]) = IF 1 > reads[t] THEN 0 ELSE reads[t] - 1 + 1
      BY <3>1, FS_Interval
    <3>3. QED
      BY <1>1, <3>2
  <2>3. IsFiniteSet({t}) /\ Cardinality({t}) = 1
    BY FS_Singleton
  <2>4. Cardinality({t} \X (1..reads[t])) = Cardinality({t}) * Cardinality(1..reads[t])
    BY <2>2, <2>3, FS_Product
  <2>5. QED
    BY <1>1, <2>1, <2>2, <2>3, <2>4
<1>11. QED
  BY <1>1, <1>2, <1>3, <1>5, <1>6, <1>7, <1>8, <1>9, <1>10

\* What giving it up does to the counts.
LEMMA LastWriteCounts ==
    ASSUME NEW t \in Threads, IInv, ~destroyed, pc[t] = "idle", holder = t,
           owner_count < 2 * Base, TypeInv', count' = count - Base,
           writes' = [writes EXCEPT ![t] = writes[t] - 1],
           UNCHANGED <<destroyed, pc, reads>>
    PROVE  /\ CountIsExact' /\ ClientInv'
           /\ writes'[t] = 0 /\ \A u \in Threads \ {t} : writes'[u] = writes[u]
           /\ Writers' = Writers \ {t}
           /\ ReadLocks' = ReadLocks /\ Entering' = Entering /\ AboutToRead' = AboutToRead
<1> USE DEF IInv, LiveInv
<1>1. writes[t] = 1 /\ t \in Writers
  BY LastWrite
<1>2. writes'[t] = 0 /\ \A u \in Threads \ {t} : writes'[u] = writes[u]
  BY <1>1 DEF TypeInv
<1>3. Writers' = Writers \ {t}
  BY <1>2 DEF Writers
<1>4. ReadLocks' = ReadLocks /\ Entering' = Entering /\ AboutToRead' = AboutToRead
  BY DEF ReadLocks, Entering, AboutToRead
<1> DEFINE b == Cardinality(Writers)
           n == Cardinality(ReadLocks)
           m == Cardinality(Entering)
<1>5. Cardinality(Writers') = b - 1 /\ b \in Nat /\ n \in Nat /\ m \in Nat
  BY <1>1, <1>3, CountedFinite, FS_RemoveElement
<1>6. count = n + m + Base * b
  BY CountSplit
<1>7. CountIsExact'
  <2>1. Base * (b - 1) = Base * b - Base /\ Base * b \in Nat
    BY <1>5
  <2> HIDE DEF b, n, m
  <2>2. count' = n + m + Base * (b - 1)
    BY <1>5, <1>6, <2>1
  <2>3. QED
    BY <1>4, <1>5, <2>2 DEF CountIsExact, n, m
<1>8. ClientInv'
  <2>1. ClientAt(t)'
    BY DEF ClientAt, Waits, ReaderWaits
  <2>2. QED
    BY <1>2, <2>1, ClientStep
<1>9. QED
  BY <1>2, <1>3, <1>4, <1>7, <1>8

\* _rw_lock_write_unlock() when nobody else uses the lock.
LEMMA UnlockAlone ==
    ASSUME NEW t \in Threads, IInv, ~destroyed, pc[t] = "idle", holder = t,
           owner_count < 2 * Base, owner_count' = 0, count - Base = 0, count' = count - Base,
           holder' = Nobody, writes' = [writes EXCEPT ![t] = writes[t] - 1],
           UNCHANGED <<wait, active_readers, pending_readers, waiters, granted, destroyed,
                       pc, reads>>
    PROVE  IInv'
<1> USE DEF IInv, LiveInv
<1>1. /\ writes[t] = 1 /\ t \in Writers /\ pending_readers = 0
      /\ \A u \in Threads : pc[u] # "readUnlock"
  BY LastWrite
<1>2. TypeInv'
  <2>1. writes' \in [Threads -> 0..MaxNest]
    <3>1. writes[t] - 1 \in 0..MaxNest
      BY <1>1
    <3>2. QED
      BY <3>1 DEF TypeInv
  <2>2. QED
    BY <2>1 DEF TypeInv
<1>3. /\ CountIsExact' /\ ClientInv'
      /\ writes'[t] = 0 /\ \A u \in Threads \ {t} : writes'[u] = writes[u]
      /\ Writers' = Writers \ {t}
      /\ ReadLocks' = ReadLocks /\ Entering' = Entering /\ AboutToRead' = AboutToRead
  BY <1>2, LastWriteCounts
<1>4. QueueInv' /\ WaitInv'
  BY Quiet DEF Waits, ReaderWaits
<1>5. HolderInv'
  BY <1>2, <1>3, NoWriterLetIn
<1> DEFINE b == Cardinality(Writers)
           n == Cardinality(ReadLocks)
           m == Cardinality(Entering)
<1>6. b \in Nat \ {0} /\ n \in Nat /\ m \in Nat
  BY <1>1, CountedFinite, FS_EmptySet
<1>7. count = n + m + Base * b /\ Base \in Nat
  BY CountSplit
<1>8. n = 0 /\ m = 0 /\ b = 1
  <2> HIDE DEF b, n, m
  <2>1. Base > 0
    BY FS_CardinalityType
  <2>2. CASE b = 1
    BY <1>6, <1>7, <2>2
  <2>3. CASE b >= 2
    <3>1. Base * b >= Base * 2
      BY <1>6, <1>7, <2>3
    <3>2. QED
      BY <1>6, <1>7, <2>1, <2>3, <3>1
  <2>4. QED
    BY <1>6, <2>2, <2>3
<1>9. Writers = {t} /\ AboutToRead = {} /\ Entering = {}
  BY <1>1, <1>8, Unused, CountedFinite, FS_Singleton
<1>10. waiters = <<>>
  <2>1. ASSUME NEW i \in 1..Len(waiters) PROVE FALSE
    <3>1. waiters[i].thread \in Entering \cup (Writers \ {t})
      BY Entries DEF QueueInv, Entering, Writers, ReaderWaits
    <3>2. QED
      BY <1>9, <3>1
  <2>2. QED
    BY <2>1 DEF TypeInv
<1>11. FreeInv'
  BY <1>1, <1>3, <1>9, <1>10, FS_EmptySet DEF FreeInv
<1>12. QED
  BY <1>2, <1>3, <1>4, <1>5, <1>11

\* _rw_lock_write_unlock() when other writers wait: one of them or the readers before them
\* are woken, and the old writer's read locks count as those of a reader.
LEMMA UnlockToWriters ==
    ASSUME NEW t \in Threads, IInv, ~destroyed, pc[t] = "idle", holder = t,
           owner_count < 2 * Base, owner_count' = 0, count - Base >= Base,
           count' = count - Base,
           rw_lock_unblock(owner_count - Base, pending_readers, count - Base),
           writes' = [writes EXCEPT ![t] = writes[t] - 1],
           UNCHANGED <<pending_readers, destroyed, pc, reads>>
    PROVE  IInv'
<1> USE DEF IInv, LiveInv
<1> DEFINE r == reads[t]
<1>1. /\ writes[t] = 1 /\ t \in Writers /\ pending_readers = 0 /\ owner_count - Base = r
      /\ \A u \in Threads : pc[u] # "readUnlock"
      /\ \A u \in Threads \ {t} : reads[u] = 0 /\ writes[u] = 0
      /\ Leaving = {} /\ r \in Nat /\ Cardinality(ReadLocks) = r
      /\ \A u \in Threads : pc[u] \in Waits => ~granted[u] /\ u \in Queued
  BY LastWrite
<1>2. PICK n \in 0..Len(waiters) :
         /\ n = Cardinality(Wakes(waiters, r, 0))
         /\ LetIn(n)
         /\ IF n > 0 /\ waiters[1].writer
            THEN holder' = waiters[1].thread /\ active_readers' = r
            ELSE holder' = Nobody /\ active_readers' = r + n
  <2> DEFINE c == count - Base
  <2>1. 0 \in Nat /\ rw_lock_unblock(r, 0, c) /\ c >= Base
    BY <1>1
  <2> HIDE DEF c, r
  <2>2. QED
    BY <1>1, <2>1, Unblocks
<1>3. /\ waiters' \in Seq(Waiter) /\ Len(waiters) \in Nat
      /\ Len(waiters') = Len(waiters) - n
      /\ \A j \in 1..Len(waiters') : waiters'[j] = waiters[j + n]
      /\ {waiters[i].thread : i \in 1..n} \subseteq Threads
      /\ Cardinality({waiters[i].thread : i \in 1..n}) = n
  BY <1>2, LetInQueue
<1>4. pc[t] \notin Waits /\ pc'[t] \notin Waits /\ \A u \in Threads \ {t} : pc'[u] = pc[u]
  BY DEF Waits, ReaderWaits
<1>5. /\ WaitTypeOK' /\ granted' \in [Threads -> BOOLEAN] /\ QueueInv' /\ WaitInv'
  BY <1>2, <1>4, LetInWaits
<1>6. /\ n = 0 => waiters = <<>> \/ waiters[1].writer
      /\ waiters # <<>> /\ waiters[1].writer => n = IF r > 0 THEN 0 ELSE 1
      /\ waiters # <<>> /\ ~waiters[1].writer =>
            /\ n > 0 /\ \A i \in 1..n : ~waiters[i].writer
            /\ n < Len(waiters) => waiters[n + 1].writer
  <2> HIDE DEF r
  <2>1. PICK z \in Nat : z = 0
    OBVIOUS
  <2>2. TypeInv /\ r \in Nat /\ n = Cardinality(Wakes(waiters, r, z))
    BY <1>1, <1>2, <2>1
  <2>3. /\ waiters # <<>> /\ waiters[1].writer => n = IF r > 0 \/ z > 0 THEN 0 ELSE 1
        /\ waiters # <<>> /\ ~waiters[1].writer =>
              /\ n > 0 /\ \A i \in 1..n : ~waiters[i].writer
              /\ n < Len(waiters) => waiters[n + 1].writer
    BY <2>2, WakesWhom
  <2>4. QED
    BY <2>1, <2>2, <2>3
<1>7. Writers \ {t} # {}
  <2>1. CASE Writers = {t}
    <3>1. Cardinality(Writers) = 1
      BY <2>1, FS_Singleton
    <3>2. /\ count = Cardinality(ReadLocks) + Cardinality(Entering) + Base * 1
          /\ Cardinality(ReadLocks) + Cardinality(Entering) < Base
      BY <3>1, CountSplit
    <3>3. QED
      BY <3>2, CountedFinite
  <2>2. QED
    BY <1>1, <2>1
<1>8. waiters # <<>> /\ 1 \in 1..Len(waiters)
  <2>1. PICK u \in Writers \ {t} : TRUE
    BY <1>7
  <2>2. u \in Threads /\ pc[u] = "writeWait"
    BY <1>1, <2>1 DEF Writers
  <2>3. u \in Queued
    BY <1>1, <2>2 DEF Waits
  <2>4. waiters # <<>>
    BY <2>3 DEF Queued
  <2>5. QED
    BY <1>3, <2>4 DEF TypeInv
<1>9. /\ writes' \in [Threads -> 0..MaxNest] /\ active_readers' \in Nat /\ count' \in Nat
      /\ holder' \in Threads \cup {Nobody}
  <2>1. writes[t] - 1 \in 0..MaxNest
    BY <1>1
  <2>2. writes' \in [Threads -> 0..MaxNest]
    BY <2>1 DEF TypeInv
  <2>3. active_readers' \in Nat /\ holder' \in Threads \cup {Nobody}
    <3> HIDE DEF r
    <3>1. QED
      BY <1>1, <1>2, <1>8, Entries
  <2>4. count' \in Nat
    BY DEF TypeInv
  <2>5. QED
    BY <2>2, <2>3, <2>4
<1>10. TypeInv'
  BY <1>3, <1>5, <1>9 DEF TypeInv
<1>11. /\ CountIsExact' /\ ClientInv'
       /\ writes'[t] = 0 /\ \A u \in Threads \ {t} : writes'[u] = writes[u]
       /\ Writers' = Writers \ {t}
       /\ ReadLocks' = ReadLocks /\ Entering' = Entering /\ AboutToRead' = AboutToRead
  BY <1>10, LastWriteCounts
<1> DEFINE K == {waiters[i].thread : i \in 1..n}
<1>12. \A u \in Threads : granted'[u] = (granted[u] \/ u \in K)
  BY <1>2 DEF LetIn
<1>13. CASE waiters[1].writer /\ r = 0
  <2> DEFINE h == waiters[1].thread
  <2>1. n = 1 /\ 1..n = {1}
    BY <1>6, <1>8, <1>13
  <2>2. K = {h} /\ holder' = h
    BY <1>2, <1>13, <2>1
  <2>3. h \in Threads /\ pc[h] = "writeWait" /\ h # t
    BY <1>8, <1>13, Entries DEF QueueInv
  <2>4. reads[h] = 0 /\ writes[h] = 0
    BY <1>1, <2>3
  <2>5. HolderInv'
    <3>1. /\ \A u \in Threads : granted'[u] = (granted[u] \/ u = h)
          /\ \A u \in Threads : reads'[u] = 0
          /\ \A u \in Threads \ {t} : u \notin Leaving
          /\ pc'[t] = "idle" /\ pending_readers' = 0
      BY <1>1, <1>12, <1>13, <2>2
    <3> HIDE DEF h, K, r
    <3>2. QED
      BY <1>4, <1>10, <1>11, <2>2, <2>3, <2>4, <3>1, WriterLetIn
  <2>6. FreeInv'
    BY <2>2, <2>3 DEF FreeInv
  <2>7. QED
    BY <1>5, <1>10, <1>11, <2>5, <2>6
<1>14. CASE waiters[1].writer /\ r # 0
  <2>1. n = 0 /\ K = {}
    BY <1>1, <1>6, <1>8, <1>14
  <2>2. holder' = Nobody /\ active_readers' = r /\ active_readers' > 0
    BY <1>1, <1>2, <1>14, <2>1
  <2>3. \A u \in Threads : granted'[u] = granted[u]
    BY <1>12, <2>1 DEF TypeInv
  <2>4. HolderInv'
    BY <1>4, <1>10, <1>11, <2>2, <2>3, NoWriterLetIn
  <2>5. Leaving' = {}
    BY <1>1, <1>11, <2>3 DEF Leaving
  <2>6. waiters' = waiters
    <3>1. waiters \in Seq(Waiter) /\ waiters' = SubSeq(waiters, 0 + 1, Len(waiters))
      BY <1>2, <2>1 DEF TypeInv, LetIn
    <3>2. SubSeq(waiters, 0 + 1, Len(waiters)) = waiters
      BY <3>1
    <3>3. QED
      BY <3>1, <3>2
  <2>7. FreeInv'
    <3>1. active_readers' = Cardinality(ReadLocks') + Cardinality(Leaving')
      BY <1>1, <1>11, <2>2, <2>5, FS_EmptySet
    <3>2. /\ pending_readers' <= Cardinality(AboutToRead')
          /\ active_readers' + pending_readers' > 0
      BY <1>1, <1>11, <2>2, CountedFinite
    <3>3. QED
      BY <1>7, <1>11, <1>14, <2>6, <3>1, <3>2 DEF FreeInv
  <2>8. QED
    BY <1>5, <1>10, <1>11, <2>4, <2>7
<1>15. CASE ~waiters[1].writer
  <2>1. /\ n > 0 /\ \A i \in 1..n : ~waiters[i].writer
        /\ n < Len(waiters) => waiters[n + 1].writer
    BY <1>6, <1>8, <1>15
  <2>2. holder' = Nobody /\ active_readers' = r + n
    BY <1>2, <1>15
  <2>3. \A u \in K : u \in Entering \ AboutToRead /\ pc[u] \in ReaderWaits
    <3> SUFFICES ASSUME NEW i \in 1..n
                 PROVE  LET u == waiters[i].thread
                        IN u \in Entering \ AboutToRead /\ pc[u] \in ReaderWaits
      OBVIOUS
    <3>1. i \in 1..Len(waiters) /\ ~waiters[i].writer
      BY <1>3, <2>1
    <3>2. waiters[i].thread \in Threads /\ pc[waiters[i].thread] \in ReaderWaits
      BY <3>1, Entries DEF QueueInv
    <3>3. QED
      BY <3>2 DEF Entering, AboutToRead, ReaderWaits
  <2> HIDE DEF K, r
  <2>4. HolderInv'
    <3>1. ASSUME NEW u \in Threads \ {t}, pc[u] = "writeWait" PROVE granted'[u] = granted[u]
      <4>1. u \notin K /\ granted[u] \in BOOLEAN
        BY <2>3, <3>1 DEF ReaderWaits, TypeInv
      <4>2. QED
        BY <1>12, <4>1
    <3>2. QED
      BY <1>4, <1>10, <1>11, <2>2, <3>1, NoWriterLetIn
  <2>5. Leaving' = K
    <3>1. ASSUME NEW u \in Threads PROVE u \in Leaving' <=> u \in K
      <4>1. u \notin Leaving /\ granted'[u] = (granted[u] \/ u \in K)
        BY <1>1, <1>12
      <4>2. u \in Leaving' <=> \/ u \in Entering \ AboutToRead /\ granted'[u]
                               \/ pc[u] = "readUnlock"
        BY <1>11 DEF Leaving
      <4>3. ~(u \in Entering \ AboutToRead /\ granted[u]) /\ pc[u] # "readUnlock"
        BY <4>1 DEF Leaving
      <4>4. QED
        BY <2>3, <4>1, <4>2, <4>3
    <3>2. K \subseteq Threads
      BY <1>3 DEF K
    <3>3. QED
      BY <3>1, <3>2 DEF Leaving
  <2>6. FreeInv'
    <3>1. n \in Nat /\ Cardinality(K) = n
      BY <1>3 DEF K
    <3>2. active_readers' = Cardinality(ReadLocks') + Cardinality(Leaving')
      BY <1>1, <1>11, <2>2, <2>5, <3>1
    <3>3. /\ pending_readers' <= Cardinality(AboutToRead')
          /\ active_readers' + pending_readers' > 0
      BY <1>1, <1>11, <2>1, <2>2, <3>1, CountedFinite
    <3>4. waiters' # <<>> => waiters'[1].writer
      <4>1. ASSUME waiters' # <<>> PROVE waiters'[1].writer
        <5>1. 1 \in 1..Len(waiters')
          BY <1>3, <4>1
        <5>2. waiters'[1] = waiters[1 + n] /\ n < Len(waiters) /\ 1 + n = n + 1
          BY <1>3, <3>1, <5>1
        <5>3. QED
          BY <2>1, <5>2
      <4>2. QED
        BY <4>1
    <3>5. QED
      BY <1>7, <1>11, <3>2, <3>3, <3>4 DEF FreeInv
  <2>7. QED
    BY <1>5, <1>10, <1>11, <2>4, <2>6
<1>16. QED
  BY <1>13, <1>14, <1>15

\* _rw_lock_write_unlock() when there are only readers: those that wait are woken, and
\* those that have yet to enter are expected.
LEMMA UnlockToReaders ==
    ASSUME NEW t \in Threads, IInv, ~destroyed, pc[t] = "idle", holder = t,
           owner_count < 2 * Base, owner_count' = 0, count - Base > 0, count - Base < Base,
           count' = count - Base,
           rw_lock_unblock(active_readers, pending_readers, count - Base),
           pending_readers' = ExpectedReaders(count - Base, owner_count - Base),
           writes' = [writes EXCEPT ![t] = writes[t] - 1],
           UNCHANGED <<destroyed, pc, reads>>
    PROVE  IInv'
<1> USE DEF IInv, LiveInv
<1> DEFINE r == reads[t]
<1>1. /\ writes[t] = 1 /\ t \in Writers /\ pending_readers = 0 /\ owner_count - Base = r
      /\ \A u \in Threads : pc[u] # "readUnlock"
      /\ r \in Nat /\ Cardinality(ReadLocks) = r
      /\ \A u \in Threads : pc[u] \in Waits => ~granted[u] /\ u \in Queued
  BY LastWrite
<1>2. PICK n \in 0..Len(waiters) :
         /\ n = Cardinality(Wakes(waiters, active_readers, pending_readers))
         /\ LetIn(n)
         /\ IF n > 0 /\ waiters[1].writer
            THEN holder' = waiters[1].thread /\ active_readers' = active_readers
            ELSE holder' = Nobody /\ active_readers' = active_readers
  <2> DEFINE c == count - Base
  <2>1. /\ active_readers \in Nat /\ pending_readers \in Nat
        /\ rw_lock_unblock(active_readers, pending_readers, c) /\ ~(c >= Base)
    BY DEF TypeInv
  <2> HIDE DEF c
  <2>2. QED
    BY <2>1, Unblocks
<1>3. /\ waiters' \in Seq(Waiter) /\ Len(waiters) \in Nat
      /\ Len(waiters') = Len(waiters) - n
      /\ {waiters[i].thread : i \in 1..n} \subseteq Threads
      /\ IsFiniteSet({waiters[i].thread : i \in 1..n})
      /\ Cardinality({waiters[i].thread : i \in 1..n}) = n
  BY <1>2, LetInQueue
<1>4. pc[t] \notin Waits /\ pc'[t] \notin Waits /\ \A u \in Threads \ {t} : pc'[u] = pc[u]
  BY DEF Waits, ReaderWaits
<1>5. /\ WaitTypeOK' /\ granted' \in [Threads -> BOOLEAN] /\ QueueInv' /\ WaitInv'
  BY <1>2, <1>4, LetInWaits
<1> DEFINE b == Cardinality(Writers)
           m == Cardinality(Entering)
<1>6. b \in Nat \ {0} /\ m \in Nat /\ count = r + m + Base * b /\ Base \in Nat
  BY <1>1, CountedFinite, CountSplit, FS_EmptySet
<1>7. b = 1
  <2> HIDE DEF b, m, r
  <2>1. CASE b >= 2
    <3>1. Base * b >= Base * 2
      BY <1>6, <2>1
    <3>2. QED
      BY <1>1, <1>6, <2>1, <3>1
  <2>2. QED
    BY <1>6, <2>1
<1>8. Writers = {t} /\ count - Base = r + m
  <2>1. Writers = {t}
    BY <1>1, <1>7, CountedFinite, FS_Singleton
  <2>2. count - Base = r + m
    <3> HIDE DEF b, m, r
    <3>1. QED
      BY <1>1, <1>6, <1>7
  <2>3. QED
    BY <2>1, <2>2
<1>9. ASSUME NEW i \in 1..Len(waiters)
      PROVE  ~waiters[i].writer /\ pc[waiters[i].thread] \in ReaderWaits
  <2>1. waiters[i].thread \in Threads
    BY Entries
  <2>2. pc[waiters[i].thread] # "writeWait"
    BY <1>8, <2>1 DEF Writers
  <2>3. QED
    BY <2>2 DEF QueueInv
<1>10. n = Len(waiters) /\ ReadersWoken = n
  <2>1. PICK z \in Nat : z = 0
    OBVIOUS
  <2> DEFINE k == Cardinality(Wakes(waiters, z, z))
  <2>2. ReadersWoken = k
    BY <2>1 DEF ReadersWoken
  <2>3. CASE waiters = <<>>
    <3>1. Wakes(waiters, z, z) = {}
      BY <2>3 DEF Wakes
    <3>2. Len(waiters) = 0 /\ k = 0
      BY <2>3, <3>1, FS_EmptySet
    <3>3. QED
      BY <2>2, <3>2
  <2>4. CASE waiters # <<>>
    <3>1. ~waiters[1].writer
      BY <1>3, <1>9, <2>4 DEF TypeInv
    <3>2. /\ active_readers \in Nat /\ pending_readers \in Nat
          /\ n = Cardinality(Wakes(waiters, active_readers, pending_readers))
      BY <1>2 DEF TypeInv
    <3>3. /\ Wakes(waiters, active_readers, pending_readers) = LeadingReaders(waiters)
          /\ n < Len(waiters) => waiters[n + 1].writer
      BY <2>4, <3>1, <3>2, WakesWhom
    <3>4. Wakes(waiters, z, z) = LeadingReaders(waiters)
      BY <2>4, <3>1 DEF Wakes
    <3>5. k = n
      BY <3>2, <3>3, <3>4
    <3>6. ~(n < Len(waiters))
      BY <1>3, <1>9, <3>3
    <3>7. QED
      BY <1>2, <1>3, <2>2, <3>5, <3>6
  <2>5. QED
    BY <2>3, <2>4
<1>11. waiters' = <<>> /\ n \in Nat
  <2>1. Len(waiters') = Len(waiters) - n /\ Len(waiters) \in Nat
    BY <1>3
  <2>2. n = Len(waiters)
    BY <1>10
  <2>3. Len(waiters') = 0 /\ n \in Nat
    BY <2>1, <2>2
  <2>4. QED
    BY <1>3, <2>3
<1> DEFINE K == {waiters[i].thread : i \in 1..n}
<1>12. K = Entering \ AboutToRead
  <2>1. K = Queued
    BY <1>10 DEF Queued
  <2>2. \A u \in Queued : u \in Threads /\ pc[u] \in ReaderWaits
    BY <1>9, Entries DEF Queued
  <2>3. \A u \in Threads : u \in Entering \ AboutToRead <=> pc[u] \in ReaderWaits
    BY DEF Entering, AboutToRead, ReaderWaits
  <2>4. \A u \in Threads : pc[u] \in ReaderWaits => u \in Queued
    BY <1>1 DEF Waits
  <2> HIDE DEF K
  <2>5. QED
    BY <2>1, <2>2, <2>3, <2>4 DEF Entering
<1>13. m = Cardinality(AboutToRead) + n
  <2>1. AboutToRead \in SUBSET Entering
    BY DEF AboutToRead, Entering
  <2>2. AboutToRead \cup K = Entering /\ AboutToRead \cap K = {}
    BY <1>12, <2>1
  <2>3. IsFiniteSet(K) /\ Cardinality(K) = n
    BY <1>3
  <2> HIDE DEF K
  <2>4. Cardinality(AboutToRead \cup K) =
           Cardinality(AboutToRead) + Cardinality(K) - Cardinality(AboutToRead \cap K)
    BY <2>3, CountedFinite, FS_Union
  <2>5. m = Cardinality(AboutToRead) + Cardinality(K) - 0
    BY <2>2, <2>4, FS_EmptySet
  <2> HIDE DEF m
  <2>6. QED
    BY <1>11, <2>3, <2>5, CountedFinite
<1>14. pending_readers' = Cardinality(AboutToRead)
  <2> DEFINE left == count - Base
             own == owner_count - Base
  <2>1. pending_readers' = ExpectedReaders(left, own) /\ left = r + m /\ own = r
    BY <1>1, <1>8
  <2> HIDE DEF m, r, left, own
  <2>2. pending_readers' = left - own - ReadersWoken
    BY <2>1 DEF ExpectedReaders
  <2>3. pending_readers' = (r + m) - r - n
    BY <1>10, <2>1, <2>2
  <2>4. r \in Nat /\ m \in Nat /\ n \in Nat /\ m = Cardinality(AboutToRead) + n
    BY <1>1, <1>6, <1>11, <1>13
  <2>5. Cardinality(AboutToRead) \in Nat
    BY CountedFinite
  <2>6. QED
    BY <2>3, <2>4, <2>5, Remain
<1>15. holder' = Nobody /\ active_readers' = active_readers
  <2>1. n > 0 => 1 \in 1..Len(waiters)
    BY <1>10, <1>11
  <2>2. ~(n > 0 /\ waiters[1].writer)
    BY <1>9, <2>1
  <2>3. QED
    BY <1>2, <2>2
<1>16. TypeInv'
  <2>1. writes[t] - 1 \in 0..MaxNest
    BY <1>1
  <2>2. writes' \in [Threads -> 0..MaxNest]
    BY <2>1 DEF TypeInv
  <2>3. count' \in Nat
    BY DEF TypeInv
  <2>4. pending_readers' \in Nat
    BY <1>14, CountedFinite
  <2>5. QED
    BY <1>3, <1>5, <1>15, <2>2, <2>3, <2>4 DEF TypeInv
<1>17. /\ CountIsExact' /\ ClientInv'
       /\ writes'[t] = 0 /\ \A u \in Threads \ {t} : writes'[u] = writes[u]
       /\ Writers' = Writers \ {t}
       /\ ReadLocks' = ReadLocks /\ Entering' = Entering /\ AboutToRead' = AboutToRead
  BY <1>16, LastWriteCounts
<1>18. HolderInv'
  <2>1. \A u \in Threads \ {t} : pc[u] # "writeWait"
    BY <1>8 DEF Writers
  <2>2. QED
    BY <1>4, <1>15, <1>16, <1>17, <2>1, NoWriterLetIn
<1>19. FreeInv'
  <2>1. Writers' = {} /\ \A u \in Threads : pc'[u] # "readUnlock"
    BY <1>1, <1>8, <1>17
  <2>2. /\ pending_readers' = Cardinality(AboutToRead')
        /\ pending_readers' <= Cardinality(AboutToRead')
    BY <1>14, <1>17, CountedFinite
  <2>3. QED
    BY <1>11, <2>1, <2>2 DEF FreeInv
<1>20. QED
  BY <1>5, <1>16, <1>17, <1>18, <1>19

-----------------------------------------------------------------------------
(* Destroying the lock and making a new one *)

\* rw_lock_destroy(): whoever waits is told, and nobody has been let in.
LEMMA Destroys ==
    ASSUME NEW t \in Threads, IInv, rw_lock_destroy(t)
    PROVE  IInv'
<1>0. ~destroyed /\ pc[t] = "idle" /\ OnlyWaiters(t)
  BY DEF rw_lock_destroy
<1> USE <1>0 DEF IInv, LiveInv
<1>1. /\ wait' = UnblockAll(wait, Queued, B_ERROR) /\ waiters' = <<>> /\ destroyed' = TRUE
      /\ reads' = [reads EXCEPT ![t] = 0] /\ writes' = [writes EXCEPT ![t] = 0]
      /\ UNCHANGED <<count, holder, owner_count, active_readers, pending_readers, granted,
                     pc>>
  BY DEF rw_lock_destroy, Queued
<1>2. /\ WaitTypeOK'
      /\ \A u \in Threads : wait'[u] = IF u \in Queued /\ wait[u] = Waiting
                                       THEN B_ERROR ELSE wait[u]
  BY <1>1 DEF TypeInv, UnblockAll
<1>3. TypeInv'
  <2>1. 0 \in 0..MaxNest
    OBVIOUS
  <2>2. reads' \in [Threads -> 0..MaxNest] /\ writes' \in [Threads -> 0..MaxNest]
    BY <1>1, <2>1 DEF TypeInv
  <2>3. waiters' \in Seq(Waiter)
    BY <1>1
  <2>4. QED
    BY <1>1, <1>2, <2>2, <2>3 DEF TypeInv
<1>4. QueueInv'
  BY <1>1 DEF QueueInv
<1>5. pending_readers = 0
  <2>1. CASE holder = t
    BY <2>1 DEF HolderInv, HolderAt
  <2>2. CASE holder # t
    <3>1. \A u \in Threads : pc[u] = "idle"
      BY <2>2 DEF OnlyWaiters
    <3>2. holder = Nobody
      <4>1. ASSUME holder \in Threads PROVE FALSE
        <5>1. writes[holder] = 0
          BY <2>2, <4>1 DEF OnlyWaiters
        <5>2. QED
          BY <3>1, <4>1, <5>1 DEF HolderInv, HolderAt
      <4>2. QED
        BY <4>1 DEF TypeInv
    <3>3. AboutToRead = {}
      BY <3>1 DEF AboutToRead
    <3>4. QED
      BY <3>2, <3>3, FS_EmptySet DEF FreeInv, TypeInv
  <2>3. QED
    BY <2>1, <2>2
<1>6. ASSUME NEW u \in Threads
      PROVE  /\ reads'[u] = 0 /\ writes'[u] = 0
             /\ pc'[u] \in {"idle"} \cup Waits
             /\ wait'[u] # Waiting
             /\ pc'[u] \in Waits \ {"readFailed"} => wait'[u] # B_OK /\ ~granted'[u]
  <2>1. reads'[u] = 0 /\ writes'[u] = 0
    BY <1>1 DEF OnlyWaiters, TypeInv
  <2>2. pc[u] \in {"idle", "readWait", "timedReadWait", "writeWait"}
    BY DEF OnlyWaiters
  <2>3. CASE pc[u] = "idle"
    <3>1. wait[u] # Waiting
      BY <2>3 DEF WaitInv
    <3>2. QED
      BY <1>1, <1>2, <2>1, <2>3, <3>1 DEF Waits, ReaderWaits
  <2>4. CASE pc[u] # "idle"
    <3>1. u # t /\ holder = t
      BY <2>4 DEF OnlyWaiters
    <3>2. u \notin Leaving /\ ~IsWriter(u)
      BY <3>1 DEF HolderInv, HolderAt
    <3>3. ~granted[u]
      BY <2>2, <2>4, <3>2 DEF Leaving, IsWriter, Entering, AboutToRead
    <3>4. u \in Queued /\ wait[u] \in {Waiting, B_TIMED_OUT}
      BY <2>2, <2>4, <3>3 DEF WaitInv, Waits, ReaderWaits
    <3>5. QED
      BY <1>1, <1>2, <2>1, <2>2, <3>3, <3>4 DEF Waits, ReaderWaits
  <2>5. QED
    BY <2>3, <2>4
<1>7. DeadInv'
  BY <1>1, <1>5, <1>6 DEF DeadInv
<1>8. QED
  BY <1>1, <1>3, <1>4, <1>7

\* A lock that nobody has used yet.
Fresh ==
    /\ TypeInv /\ Unlocked
    /\ \A t \in Threads :
          pc[t] = "idle" /\ reads[t] = 0 /\ writes[t] = 0 /\ wait[t] # Waiting

\* A new lock is in order.
LEMMA FreshInOrder == Fresh => IInv
<1> SUFFICES ASSUME Fresh PROVE IInv
  OBVIOUS
<1> USE DEF Fresh, Unlocked
<1>1. /\ ReadLocks = {} /\ Entering = {} /\ Writers = {} /\ AboutToRead = {}
      /\ Leaving = {}
  BY DEF ReadLocks, Entering, Writers, AboutToRead, Leaving
<1>2. CountIsExact
  BY <1>1, FS_EmptySet DEF CountIsExact
<1>3. QueueInv
  BY DEF QueueInv
<1>4. WaitInv
  BY DEF WaitInv, Waits, ReaderWaits
<1>5. ClientInv
  BY DEF ClientInv, ClientAt, Waits, ReaderWaits
<1>6. HolderInv
  <2>1. ASSUME NEW t \in Threads PROVE HolderAt(t)
    <3>1. ~IsWriter(t)
      BY DEF IsWriter
    <3>2. holder \notin Threads
      OBVIOUS
    <3>3. QED
      BY <3>1, <3>2 DEF HolderAt
  <2>2. QED
    BY <2>1 DEF HolderInv
<1>7. FreeInv
  BY <1>1, FS_EmptySet DEF FreeInv
<1>8. QED
  BY <1>2, <1>3, <1>4, <1>5, <1>6, <1>7 DEF IInv, LiveInv

\* rw_lock_init() makes such a lock of a destroyed one.
LEMMA InitFresh ==
    ASSUME IInv, rw_lock_init
    PROVE  Fresh'
<1>1. destroyed /\ \A t \in Threads : pc[t] = "idle"
  BY DEF rw_lock_init
<1>2. TypeInv /\ DeadInv
  BY <1>1 DEF IInv
<1>3. TypeInv'
  <2>1. <<>> \in Seq(Waiter) /\ [t \in Threads |-> FALSE] \in [Threads -> BOOLEAN]
    OBVIOUS
  <2>2. waiters' \in Seq(Waiter) /\ granted' \in [Threads -> BOOLEAN]
    BY <2>1 DEF rw_lock_init
  <2>3. QED
    BY <1>2, <2>2 DEF TypeInv, rw_lock_init
<1>4. Unlocked'
  BY DEF Unlocked, rw_lock_init
<1>5. \A t \in Threads :
          pc'[t] = "idle" /\ reads'[t] = 0 /\ writes'[t] = 0 /\ wait'[t] # Waiting
  BY <1>1, <1>2 DEF DeadInv, rw_lock_init
<1>6. QED
  BY <1>3, <1>4, <1>5 DEF Fresh

\* A call that was waiting when the lock was destroyed returns or goes on.
LEMMA WaitOfTheDead ==
    ASSUME NEW t \in Threads, IInv, destroyed, NEW step \in {"idle", "readFailed"},
           Goto(t, step), UNCHANGED <<wait, lockVars, reads, writes>>
    PROVE  IInv'
<1>1. TypeInv /\ DeadInv /\ QueueInv /\ destroyed'
  BY DEF IInv, lockVars
<1>2. /\ pc' \in [Threads -> Steps] /\ pc'[t] = step
      /\ \A u \in Threads \ {t} : pc'[u] = pc[u]
  BY <1>1 DEF TypeInv, Goto, Steps
<1>3. TypeInv'
  BY <1>1, <1>2 DEF TypeInv, lockVars
<1>4. QueueInv'
  BY <1>1 DEF QueueInv, DeadInv, lockVars
<1>5. DeadInv'
  BY <1>1, <1>2 DEF DeadInv, lockVars, Waits, ReaderWaits
<1>6. QED
  BY <1>1, <1>3, <1>4, <1>5 DEF IInv

-----------------------------------------------------------------------------
(* Every step *)

\* The calls: each branch of an action is one of the lemmas above.
LEMMA CallKeeps ==
    ASSUME NEW t \in Threads, IInv, Call(t)
    PROVE  IInv'
<1>1. ASSUME NEW slow \in {"read", "timedRead"}, rw_lock_read_lock(t, slow) PROVE IInv'
  <2>1. MayRead(t) /\ ~destroyed
    BY <1>1 DEF rw_lock_read_lock, MayRead
  <2>2. CASE count < Base /\ GetRead(t) /\ UNCHANGED pc
    BY <1>1, <2>1, <2>2, ReadFast DEF rw_lock_read_lock
  <2>3. CASE count >= Base /\ Goto(t, slow) /\ UNCHANGED reads
    BY <1>1, <2>1, <2>3, ReadEnters DEF rw_lock_read_lock
  <2>4. QED
    BY <1>1, <2>2, <2>3 DEF rw_lock_read_lock
<1>2. ASSUME rw_lock_write_lock(t) PROVE IInv'
  <2>1. MayWrite(t)
    BY <1>2 DEF rw_lock_write_lock
  <2>2. CASE holder = t
    BY <1>2, <2>1, <2>2, WriteNested DEF rw_lock_write_lock
  <2>3. CASE holder # t /\ count = 0
    BY <1>2, <2>1, <2>3, WriteFree DEF rw_lock_write_lock
  <2>4. CASE holder # t /\ count # 0
    BY <1>2, <2>1, <2>4, WriteWaits DEF rw_lock_write_lock
  <2>5. QED
    BY <2>2, <2>3, <2>4
<1>3. QED
  BY <1>1, <1>2, Destroys DEF Call

\* The unlocks.
LEMMA ReleaseKeeps ==
    ASSUME NEW t \in Threads, IInv, Release(t)
    PROVE  IInv'
<1>1. ASSUME rw_lock_write_unlock(t) PROVE IInv'
  <2>1. /\ pc[t] = "idle" /\ ~destroyed /\ writes[t] > 0 /\ holder = t
        /\ writes' = [writes EXCEPT ![t] = writes[t] - 1]
        /\ UNCHANGED <<destroyed, pc, reads>>
    BY <1>1 DEF rw_lock_write_unlock
  <2>2. CASE owner_count >= 2 * Base
    <3>1. /\ owner_count' = owner_count - Base
          /\ UNCHANGED <<wait, count, holder, active_readers, pending_readers, waiters,
                         granted>>
      <4>1. owner_count \in Nat /\ Base \in Nat /\ ~(owner_count < 2 * Base)
        BY <2>2 DEF IInv, TypeInv
      <4>2. QED
        BY <1>1, <4>1 DEF rw_lock_write_unlock
    <3>2. QED
      BY <2>1, <2>2, <3>1, UnlockNested
  <2>3. CASE ~(owner_count >= 2 * Base)
    <3>1. /\ owner_count < 2 * Base /\ owner_count' = 0 /\ count' = count - Base
          /\ \/ /\ count - Base = 0
                /\ holder' = Nobody
                /\ UNCHANGED <<wait, active_readers, pending_readers, waiters, granted>>
             \/ /\ count - Base >= Base
                /\ rw_lock_unblock(owner_count - Base, pending_readers, count - Base)
                /\ UNCHANGED pending_readers
             \/ /\ count - Base > 0 /\ count - Base < Base
                /\ rw_lock_unblock(active_readers, pending_readers, count - Base)
                /\ pending_readers' = ExpectedReaders(count - Base, owner_count - Base)
      BY <1>1, <2>3 DEF rw_lock_write_unlock
    <3>2. CASE count - Base = 0 /\ holder' = Nobody
               /\ UNCHANGED <<wait, active_readers, pending_readers, waiters, granted>>
      BY <2>1, <3>1, <3>2, UnlockAlone
    <3>3. CASE count - Base >= Base
               /\ rw_lock_unblock(owner_count - Base, pending_readers, count - Base)
               /\ UNCHANGED pending_readers
      BY <2>1, <3>1, <3>3, UnlockToWriters
    <3>4. CASE count - Base > 0 /\ count - Base < Base
               /\ rw_lock_unblock(active_readers, pending_readers, count - Base)
               /\ pending_readers' = ExpectedReaders(count - Base, owner_count - Base)
      BY <2>1, <3>1, <3>4, UnlockToReaders
    <3>5. QED
      BY <3>1, <3>2, <3>3, <3>4
  <2>4. QED
    BY <2>2, <2>3
<1>2. QED
  BY <1>1, ReadUnlocks DEF Release

\* After the atomic_add(), or in rw_lock_wait(), of a lock in use.
LEMMA ContinueKeeps ==
    ASSUME NEW t \in Threads, IInv, ~destroyed, Continue(t)
    PROVE  IInv'
<1>0. TypeInv /\ WaitInv
  BY DEF IInv, LiveInv
<1>1. ASSUME NEW step \in {"readWait", "timedReadWait"}, pc[t] \in {"read", "timedRead"},
             ReadLockSlow(t, step)
      PROVE  IInv'
  <2>1. CASE holder = t
    BY <1>1, <2>1, ReadByHolder DEF ReadLockSlow
  <2>2. CASE holder # t /\ pending_readers > 0
    <3>1. pending_readers # 0
      BY <1>0, <2>2 DEF TypeInv
    <3>2. QED
      BY <1>1, <2>2, <3>1, ReadPending DEF ReadLockSlow
  <2>3. CASE holder # t /\ ~(pending_readers > 0)
    BY <1>1, <2>3, ReadWaits DEF ReadLockSlow
  <2>4. QED
    BY <2>1, <2>2, <2>3
<1>2. ASSUME ReadWaitReturns(t) PROVE IInv'
  <2>1. pc[t] = "readWait" /\ wait[t] # Waiting
    BY <1>2 DEF ReadWaitReturns, Unblocked
  <2>2. granted[t] /\ wait[t] = B_OK
    BY <1>0, <2>1 DEF WaitInv
  <2>3. GetRead(t) /\ Goto(t, "idle") /\ UNCHANGED <<wait, lockVars, writes>>
    BY <1>2, <2>2 DEF ReadWaitReturns
  <2>4. QED
    BY <2>1, <2>2, <2>3, ReaderReturns
<1>3. ASSUME TimedReadWaitReturns(t) PROVE IInv'
  <2>1. /\ pc[t] = "timedReadWait" /\ wait[t] # Waiting
        /\ UNCHANGED <<wait, lockVars, writes>>
    BY <1>3 DEF TimedReadWaitReturns, Unblocked
  <2>2. wait[t] = B_OK => granted[t]
    BY <1>0, <2>1 DEF WaitInv
  <2>3. CASE granted[t]
    <3>1. GetRead(t) /\ Goto(t, "idle")
      BY <1>3, <2>3 DEF TimedReadWaitReturns
    <3>2. QED
      BY <2>1, <2>3, <3>1, ReaderReturns
  <2>4. CASE ~granted[t]
    <3>1. Goto(t, "readFailed") /\ UNCHANGED reads
      BY <1>3, <2>2, <2>4 DEF TimedReadWaitReturns
    <3>2. QED
      BY <2>1, <2>4, <3>1, ReaderFails
  <2>5. QED
    BY <2>3, <2>4
<1>4. ASSUME _rw_lock_read_unlock(t) PROVE IInv'
  <2>1. /\ pc[t] = "readUnlock" /\ Goto(t, "idle")
        /\ UNCHANGED <<count, pending_readers, destroyed, reads, writes>>
    BY <1>4 DEF _rw_lock_read_unlock
  <2>2. CASE /\ holder = t /\ owner_count' = owner_count - 1
             /\ UNCHANGED <<wait, holder, active_readers, waiters, granted>>
    BY <2>1, <2>2, UnlockByHolder
  <2>3. CASE /\ holder # t
             /\ active_readers > 1 \/ (active_readers = 1 /\ holder # Nobody)
             /\ active_readers' = active_readers - 1
             /\ UNCHANGED <<wait, holder, owner_count, waiters, granted>>
    BY <2>1, <2>3, UnlockNotLast
  <2>4. CASE /\ holder = Nobody /\ active_readers = 1
             /\ rw_lock_unblock(0, pending_readers, count) /\ UNCHANGED owner_count
    BY <2>1, <2>4, UnlockLast
  <2>5. QED
    BY <1>4, <2>2, <2>3, <2>4 DEF _rw_lock_read_unlock
<1>5. ASSUME WriteWaitReturns(t) PROVE IInv'
  <2>1. pc[t] = "writeWait" /\ wait[t] # Waiting
    BY <1>5 DEF WriteWaitReturns, Unblocked
  <2>2. granted[t] /\ wait[t] = B_OK
    BY <1>0, <2>1 DEF WaitInv
  <2>3. /\ Goto(t, "idle") /\ holder' = t /\ owner_count' = Base /\ GetWrite(t)
        /\ UNCHANGED <<wait, count, active_readers, pending_readers, waiters, granted,
                       destroyed, reads>>
    BY <1>5, <2>2 DEF WriteWaitReturns
  <2>4. QED
    BY <2>1, <2>2, <2>3, WriterReturns
<1>6. QED
  BY <1>1, <1>2, <1>3, <1>4, <1>5, ReaderLeaves
  DEF Continue, _rw_lock_read_lock, _rw_lock_read_lock_with_timeout

\* The same for a destroyed lock: only the waits end.
LEMMA DeadContinue ==
    ASSUME NEW t \in Threads, IInv, destroyed, Continue(t)
    PROVE  IInv'
<1>1. DeadInv
  BY DEF IInv
<1>2. /\ pc[t] \in {"idle"} \cup Waits
      /\ pc[t] \in Waits \ {"readFailed"} => wait[t] # B_OK /\ ~granted[t]
  BY <1>1 DEF DeadInv
<1>3. /\ ~_rw_lock_read_lock(t) /\ ~_rw_lock_read_lock_with_timeout(t)
      /\ ~_rw_lock_read_unlock(t)
  BY <1>2 DEF Waits, ReaderWaits, _rw_lock_read_lock, _rw_lock_read_lock_with_timeout,
              _rw_lock_read_unlock
<1>4. ~TimedReadFails(t)
  BY <1>1 DEF DeadInv, TimedReadFails
<1>5. ASSUME ReadWaitReturns(t) PROVE IInv'
  <2>1. Goto(t, "idle") /\ UNCHANGED <<wait, lockVars, reads, writes>>
    BY <1>2, <1>5 DEF ReadWaitReturns, Waits, ReaderWaits
  <2>2. QED
    BY <2>1, WaitOfTheDead
<1>6. ASSUME TimedReadWaitReturns(t) PROVE IInv'
  <2>1. Goto(t, "readFailed") /\ UNCHANGED <<wait, lockVars, reads, writes>>
    BY <1>2, <1>6 DEF TimedReadWaitReturns, Waits, ReaderWaits
  <2>2. QED
    BY <2>1, WaitOfTheDead
<1>7. ASSUME WriteWaitReturns(t) PROVE IInv'
  <2>1. Goto(t, "idle") /\ UNCHANGED <<wait, lockVars, reads, writes>>
    BY <1>2, <1>7 DEF WriteWaitReturns, Waits, lockVars
  <2>2. QED
    BY <2>1, WaitOfTheDead
<1>8. QED
  BY <1>3, <1>4, <1>5, <1>6, <1>7 DEF Continue

\* Every step keeps the invariant, or makes a new lock.
LEMMA StepKeeps ==
    ASSUME IInv, [Next]_vars
    PROVE  IInv' \/ Fresh'
<1>1. CASE UNCHANGED vars
  <2>1. TypeInv' = TypeInv /\ QueueInv' = QueueInv /\ DeadInv' = DeadInv
    BY <1>1 DEF vars, lockVars, TypeInv, QueueInv, DeadInv
  <2>2. Queued' = Queued
    BY <1>1 DEF vars, lockVars, Queued
  <2>3. /\ Entering' = Entering /\ Writers' = Writers /\ ReadLocks' = ReadLocks
        /\ AboutToRead' = AboutToRead
    BY <1>1 DEF vars, lockVars, Entering, Writers, ReadLocks, AboutToRead
  <2>4. Leaving' = Leaving
    BY <1>1, <2>3 DEF vars, lockVars, Leaving
  <2>5. CountIsExact' = CountIsExact /\ WaitInv' = WaitInv
    BY <1>1, <2>2, <2>3 DEF vars, lockVars, CountIsExact, WaitInv
  <2>6. ClientInv' = ClientInv
    BY <1>1 DEF vars, ClientInv, ClientAt
  <2>7. HolderInv' = HolderInv
    BY <1>1, <2>4 DEF vars, lockVars, HolderInv, HolderAt, IsWriter, OwnerCount
  <2>8. FreeInv' = FreeInv
    BY <1>1, <2>3, <2>4 DEF vars, lockVars, FreeInv
  <2>9. destroyed' = destroyed
    BY <1>1 DEF vars, lockVars
  <2>10. QED
    BY <2>1, <2>5, <2>6, <2>7, <2>8, <2>9 DEF IInv, LiveInv
<1>2. CASE Next
  <2>1. CASE rw_lock_init
    BY <2>1, InitFresh
  <2>2. ASSUME NEW t \in Threads, Continue(t) \/ Release(t) \/ Call(t) \/ TimerFires(t)
        PROVE  IInv'
    BY <2>2, ContinueKeeps, DeadContinue, ReleaseKeeps, CallKeeps, TimerKeeps
  <2>3. QED
    BY <1>2, <2>1, <2>2 DEF Next
<1>3. QED
  BY <1>1, <1>2

-----------------------------------------------------------------------------
(* The theorems *)

\* Every reachable state of the lock satisfies the inductive invariant.
THEOREM LockInOrder == Spec => []IInv
<1>1. Init => Fresh
  <2> SUFFICES ASSUME Init PROVE Fresh
    OBVIOUS
  <2>1. <<>> \in Seq(Waiter) /\ 0 \in 0..MaxNest
    OBVIOUS
  <2>2. TypeInv
    BY <2>1 DEF Init, Unlocked, TypeInv, NoWaits, Steps
  <2>3. QED
    BY <2>2 DEF Init, Fresh, NoWaits
<1>2. Fresh => IInv
  BY FreshInOrder
<1>3. IInv /\ [Next]_vars => IInv' \/ Fresh'
  BY StepKeeps
<1>4. QED
  BY <1>1, <1>2, <1>3, PTL DEF Spec

\* While a thread has the write lock no other thread has a read or a write lock,
\* whatever the atomic_add()s of the readers race with.
THEOREM WritersExclude == Spec => []ReaderWriterExclusion
<1>1. IInv => ReaderWriterExclusion
  <2> SUFFICES ASSUME IInv, NEW t \in Threads, NEW u \in Threads, t # u, writes[t] > 0
               PROVE  reads[u] = 0 /\ writes[u] = 0
    BY DEF ReaderWriterExclusion
  <2>1. ~destroyed
    BY DEF IInv, DeadInv
  <2>2. HolderInv /\ TypeInv
    BY <2>1 DEF IInv, LiveInv
  <2>3. holder = t
    BY <2>2 DEF HolderInv, HolderAt, IsWriter
  <2>4. reads[u] = 0 /\ ~IsWriter(u)
    BY <2>2, <2>3 DEF HolderInv, HolderAt
  <2>5. ~(writes[u] > 0) /\ writes[u] \in Nat
    BY <2>2, <2>4 DEF IsWriter, TypeInv
  <2>6. QED
    BY <2>4, <2>5
<1>2. QED
  BY <1>1, LockInOrder, PTL

\* rw_lock::count never loses or gains anybody.
THEOREM CountExact == Spec => []CountIsExact
<1>1. IInv => CountIsExact
  BY DEF IInv, LiveInv, CountIsExact
<1>2. QED
  BY <1>1, LockInOrder, PTL

\* While a writer waits and none has the lock, active_readers counts the readers that do.
THEOREM ActiveExact == Spec => []ActiveReadersExact
<1>1. IInv => ActiveReadersExact
  <2> SUFFICES ASSUME IInv, ~destroyed, holder = Nobody, count >= Base
               PROVE  active_readers = Cardinality(ReadLocks) + Cardinality(Leaving)
    BY DEF ActiveReadersExact
  <2>1. TypeInv /\ LiveInv /\ FreeInv
    BY DEF IInv, LiveInv
  <2>2. ~(count < Base)
    BY <2>1 DEF TypeInv
  <2>3. Writers # {}
    BY <2>1, <2>2, CountSplit
  <2>4. QED
    BY <2>1, <2>3 DEF FreeInv
<1>2. QED
  BY <1>1, LockInOrder, PTL

\* Every reader in pending_readers is there to come, and no writer is let in before it.
THEOREM PendingExist == Spec => []PendingReadersExist
<1>1. IInv => PendingReadersExist
  <2> SUFFICES ASSUME IInv, pending_readers > 0
               PROVE  holder = Nobody /\ pending_readers <= Cardinality(AboutToRead)
    BY DEF PendingReadersExist
  <2>1. ~destroyed
    BY DEF IInv, DeadInv
  <2>2. TypeInv /\ HolderInv /\ FreeInv
    BY <2>1 DEF IInv, LiveInv
  <2>3. holder = Nobody
    BY <2>2 DEF TypeInv, HolderInv, HolderAt
  <2>4. QED
    BY <2>2, <2>3 DEF FreeInv
<1>2. QED
  BY <1>1, LockInOrder, PTL

\* The rest of a division does not see the multiples of the divisor.
LEMMA RestOfSum ==
    ASSUME NEW d \in Nat, NEW a \in Nat, NEW b \in Nat, 0 < b, b < d
    PROVE  (d * a + b) % d > 0
<1> DEFINE x == d * a + b
           q == x \div d
           r == x % d
<1>1. d * a \in Nat
  OBVIOUS
<1>2. x \in Nat
  BY <1>1
<1> HIDE DEF x
<1>3. q \in Int /\ r \in 0..(d - 1) /\ x = d * q + r
  BY <1>2
<1> HIDE DEF q, r
<1>4. ASSUME r = 0 PROVE FALSE
  <2>1. d * q = d * a + b /\ d * q \in Int /\ d * a \in Int
    BY <1>1, <1>3, <1>4 DEF x
  <2>2. CASE q <= a
    <3>1. d * q <= d * a
      BY <1>3, <2>2
    <3>2. QED
      BY <2>1, <3>1
  <2>3. CASE q >= a + 1
    <3>1. d * q >= d * (a + 1) /\ d * (a + 1) = d * a + d
      BY <1>3, <2>3
    <3>2. QED
      BY <2>1, <3>1
  <2>4. QED
    BY <1>3, <2>2, <2>3
<1>5. r > 0
  BY <1>3, <1>4
<1>6. QED
  BY <1>5 DEF r, x

\* No ASSERT() and no panic() of the code is reached.
THEOREM NeverPanics == Spec => []NoPanic
<1>1. IInv => NoPanic
  <2> SUFFICES ASSUME IInv, ~destroyed, NEW t \in Threads
               PROVE  /\ pc[t] \in {"read", "timedRead"} /\ holder # t
                         /\ pending_readers = 0 => count >= Base
                      /\ pc[t] = "readUnlock" =>
                            IF holder = t THEN owner_count % Base > 0
                            ELSE active_readers > 0
                      /\ writes[t] > 0 => holder = t /\ owner_count >= Base
    BY DEF NoPanic
  <2>1. TypeInv /\ LiveInv /\ ClientInv /\ HolderInv /\ FreeInv
    BY DEF IInv, LiveInv
  <2>2. ASSUME pc[t] \in {"read", "timedRead"}, pending_readers = 0 PROVE count >= Base
    <3>1. CASE holder = Nobody
      <4>1. t \in AboutToRead
        BY <2>2 DEF AboutToRead
      <4>2. Cardinality(AboutToRead) # 0
        BY <4>1, CountedFinite, FS_EmptySet
      <4>3. Writers # {}
        BY <2>1, <2>2, <3>1, <4>2 DEF FreeInv
      <4>4. ~(count < Base)
        BY <2>1, <4>3, CountSplit
      <4>5. QED
        BY <2>1, <4>4 DEF TypeInv
    <3>2. CASE holder # Nobody
      <4>1. Writers # {}
        BY <2>1, <3>2, NoWriters
      <4>2. ~(count < Base)
        BY <2>1, <4>1, CountSplit
      <4>3. QED
        BY <2>1, <4>2 DEF TypeInv
    <3>3. QED
      BY <3>1, <3>2
  <2>3. ASSUME pc[t] = "readUnlock", holder = t PROVE owner_count % Base > 0
    <3> DEFINE b == reads[t] + 1
               a == writes[t]
    <3>1. owner_count = OwnerCount(t)
      BY <2>1, <2>3 DEF HolderInv, HolderAt
    <3>2. a \in Nat /\ b \in Nat /\ 0 < b /\ b <= MaxNest
      BY <2>1, <2>3 DEF TypeInv, ClientInv, ClientAt
    <3>3. owner_count = Base * a + b
      <4>1. reads[t] \in Nat /\ Base * a \in Nat
        BY <2>1, <3>2 DEF TypeInv
      <4>2. owner_count = Base * a + reads[t] + 1
        BY <2>3, <3>1 DEF OwnerCount
      <4>3. QED
        BY <4>1, <4>2
    <3>4. b < Base
      BY <3>2, FS_CardinalityType
    <3> HIDE DEF a, b
    <3>5. (Base * a + b) % Base > 0
      BY <3>2, <3>4, RestOfSum
    <3>6. QED
      BY <3>3, <3>5
  <2>4. ASSUME pc[t] = "readUnlock", holder # t PROVE active_readers > 0
    <3>1. /\ Cardinality(Leaving) \in Nat \ {0}
          /\ active_readers = Cardinality(ReadLocks) + Cardinality(Leaving)
      BY <2>4, UnlockerActive
    <3>2. QED
      BY <3>1, CountedFinite
  <2>5. ASSUME writes[t] > 0 PROVE holder = t /\ owner_count >= Base
    <3>1. holder = t /\ owner_count = OwnerCount(t)
      BY <2>1, <2>5 DEF HolderInv, HolderAt, IsWriter
    <3> DEFINE a == writes[t]
               o == reads[t] + IF pc[t] = "readUnlock" THEN 1 ELSE 0
    <3>2. a \in Nat \ {0} /\ o \in Nat /\ owner_count = Base * a + o
      BY <2>1, <2>5, <3>1 DEF TypeInv, OwnerCount
    <3> HIDE DEF a, o
    <3>3. Base * a >= Base /\ Base * a \in Nat
      BY <3>2
    <3>4. QED
      BY <3>1, <3>2, <3>3
  <2>6. QED
    BY <2>2, <2>3, <2>4, <2>5
<1>2. QED
  BY <1>1, LockInOrder, PTL

\* No lost wake-up: when everybody is outside of the code or asleep, somebody has what the
\* first in the queue waits for.
THEOREM NoneForgotten == Spec => []NobodyForgotten
<1>1. IInv => NobodyForgotten
  <2> SUFFICES ASSUME IInv, \A t \in Threads : pc[t] = "idle" \/ ~Unblocked(t),
                      waiters # <<>>
               PROVE  \E t \in Threads : writes[t] > 0 \/ (waiters[1].writer /\ reads[t] > 0)
    BY DEF NobodyForgotten
  <2>1. ~destroyed
    BY DEF IInv, DeadInv
  <2>2. TypeInv /\ QueueInv /\ WaitInv /\ HolderInv /\ FreeInv
    BY <2>1 DEF IInv, LiveInv
  <2>3. \A t \in Threads : pc[t] = "idle" \/ wait[t] = Waiting
    BY DEF Unblocked
  <2>4. ASSUME NEW t \in Threads, pc[t] \in Waits, granted[t] PROVE FALSE
    BY <2>2, <2>3, <2>4 DEF WaitInv, Waits, ReaderWaits
  <2>5. CASE holder \in Threads
    <3>1. ~(pc[holder] = "writeWait" /\ granted[holder])
      BY <2>4, <2>5 DEF Waits
    <3>2. writes[holder] > 0
      BY <2>2, <2>5, <3>1 DEF HolderInv, HolderAt
    <3>3. QED
      BY <2>5, <3>2
  <2>6. CASE holder = Nobody
    <3>1. Writers # {} /\ waiters[1].writer
      BY <2>2, <2>6, HeadIsWriter
    <3>2. \A t \in Threads : pc[t] \notin {"read", "timedRead", "readUnlock"}
      BY <2>2, <2>3 DEF WaitInv
    <3>3. AboutToRead = {} /\ Leaving = {}
      <4>1. AboutToRead = {}
        BY <3>2 DEF AboutToRead
      <4>2. ASSUME NEW t \in Leaving PROVE FALSE
        <5>1. t \in Threads /\ pc[t] \in Waits /\ granted[t]
          BY <3>2 DEF Leaving, Entering, Waits, ReaderWaits
        <5>2. QED
          BY <2>4, <5>1
      <4>3. QED
        BY <4>1, <4>2
    <3>4. pending_readers = 0 /\ active_readers > 0
      <4>1. pending_readers <= 0 /\ active_readers + pending_readers > 0
        BY <2>2, <2>6, <3>3, FS_EmptySet DEF FreeInv
      <4>2. QED
        BY <2>2, <4>1 DEF TypeInv
    <3>5. active_readers = Cardinality(ReadLocks) + 0
      BY <2>2, <2>6, <3>1, <3>3, FS_EmptySet DEF FreeInv
    <3>6. ReadLocks # {}
      BY <3>4, <3>5, CountedFinite, FS_EmptySet
    <3>7. PICK l \in Threads \X (1..MaxNest) : l[2] <= reads[l[1]]
      BY <3>6 DEF ReadLocks
    <3>8. l[1] \in Threads /\ reads[l[1]] > 0
      BY <2>2, <3>7 DEF TypeInv
    <3>9. QED
      BY <3>1, <3>8
  <2>7. QED
    BY <2>2, <2>5, <2>6 DEF TypeInv
<1>2. QED
  BY <1>1, LockInOrder, PTL
=============================================================================
