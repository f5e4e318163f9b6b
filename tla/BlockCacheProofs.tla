-------------------------- MODULE BlockCacheProofs --------------------------
(***************************************************************************)
(* What TLAPS proves about the block cache by itself, for any set of       *)
(* blocks, any number of transactions and any size of the background       *)
(* writer's batches: Inv1, and that every operation of BlockCache keeps it.*)
(* The proofs about its clients (BlockCacheClientProofs, JournalProofs)    *)
(* start from here.                                                        *)
(***************************************************************************)
EXTENDS BlockCache, FiniteSetTheorems, TLAPS

-----------------------------------------------------------------------------
(* Sets of numbers, and sequences *)

\* A set of natural numbers has a smallest element.
LEMMA SmallestExists ==
    ASSUME NEW S \in SUBSET Nat, S # {}
    PROVE  \E x \in S : \A y \in S : x <= y
<1> DEFINE R == {p \in Nat \X Nat : p[1] < p[2]}
<1>1. IsWellFoundedOn(R, Nat)
  <2>1. OpToRel(<, Nat) = R
    BY DEF OpToRel
  <2>2. QED
    BY <2>1, NatLessThanWellFounded
<1>2. PICK x \in S : \A y \in S : ~(<<y, x>> \in R)
  <2> HIDE DEF R
  <2>1. QED
    BY <1>1, WFMin
<1>3. \A y \in S : ~(y < x)
  BY <1>2
<1>4. QED
  BY <1>3

\* What Min() returns is in the set.
LEMMA MinIn ==
    ASSUME NEW S \in SUBSET Nat, S # {}
    PROVE  Min(S) \in S /\ \A y \in S : Min(S) <= y
BY SmallestExists DEF Min

\* What Max() returns is the largest element of a bounded set.
LEMMA MaxIsLargest ==
    ASSUME NEW S \in SUBSET Nat, NEW n \in Nat, S # {}, \A x \in S : x <= n
    PROVE  Max(S) \in S /\ \A y \in S : y <= Max(S)
<1> DEFINE T == {n - x : x \in S}
<1>1. T \in SUBSET Nat /\ T # {}
  <2>1. \A x \in S : n - x \in Nat
    OBVIOUS
  <2>2. T # {}
    OBVIOUS
  <2>3. QED
    BY <2>1, <2>2
<1>2. PICK z \in T : \A y \in T : z <= y
  <2> HIDE DEF T
  <2>1. QED
    BY <1>1, SmallestExists
<1>3. PICK x \in S : z = n - x
  BY <1>2
<1>4. \A y \in S : n - y \in T
  OBVIOUS
<1>5. \A y \in S : x >= y
  BY <1>2, <1>3, <1>4
<1>6. QED
  BY <1>5 DEF Max

\* A finite set of natural numbers has a bound.
LEMMA FiniteBounded ==
    ASSUME NEW S \in SUBSET Nat, IsFiniteSet(S)
    PROVE  \E n \in Nat : \A x \in S : x <= n
<1> DEFINE T == {m \in Nat : \E U \in SUBSET S :
                    Cardinality(U) = m /\ ~ \E n \in Nat : \A x \in U : x <= n}
<1> SUFFICES ASSUME ~ \E n \in Nat : \A x \in S : x <= n
             PROVE  FALSE
  OBVIOUS
<1>1. Cardinality(S) \in Nat
  BY FS_CardinalityType
<1>2. Cardinality(S) \in T /\ T \in SUBSET Nat
  BY <1>1
<1>3. PICK m \in T : \A k \in T : m <= k
  <2> HIDE DEF T
  <2>1. QED
    BY <1>2, SmallestExists
<1>4. PICK U \in SUBSET S : Cardinality(U) = m /\ ~ \E n \in Nat : \A x \in U : x <= n
  BY <1>3
<1>5. PICK y \in U : TRUE
  BY <1>4
<1>6. IsFiniteSet(U) /\ m \in Nat
  BY <1>2, <1>3, FS_Subset
<1>7. Cardinality(U \ {y}) = m - 1 /\ m - 1 \in Nat
  <2>1. IsFiniteSet(U \ {y}) /\ Cardinality(U \ {y}) = Cardinality(U) - 1
    BY <1>5, <1>6, FS_RemoveElement
  <2>2. QED
    BY <1>4, <2>1, FS_CardinalityType
<1>8. \E n \in Nat : \A x \in U \ {y} : x <= n
  <2>1. m - 1 \notin T
    BY <1>3, <1>6, <1>7
  <2>2. QED
    BY <1>7, <2>1
<1>9. PICK n \in Nat : \A x \in U \ {y} : x <= n
  BY <1>8
<1>10. \A x \in U : x <= n + y
  <2>1. y \in Nat /\ \A x \in U : x \in Nat
    BY <1>5
  <2>2. QED
    BY <1>9, <2>1
<1>11. n + y \in Nat
  BY <1>5, <1>9
<1>12. QED
  BY <1>4, <1>10, <1>11

\* A sequence over a set is one over a larger set.
LEMMA SeqSubset ==
    ASSUME NEW S, NEW T, S \subseteq T, NEW s \in Seq(S)
    PROVE  s \in Seq(T)
<1>1. s \in [1..Len(s) -> T] /\ Len(s) \in Nat
  OBVIOUS
<1>2. QED
  BY <1>1

\* The entries of a sequence without its head.
LEMMA TailEntries ==
    ASSUME NEW S, NEW q \in Seq(S), q # <<>>
    PROVE  /\ Len(q) \in Nat \ {0}
           /\ Tail(q) \in Seq(S)
           /\ Len(Tail(q)) = Len(q) - 1
           /\ \A i \in 1..(Len(q) - 1) : Tail(q)[i] = q[i + 1]
           /\ Head(q) = q[1] /\ Head(q) \in S
OBVIOUS

-----------------------------------------------------------------------------
(* Lemmas about the operators *)

\* A sequence of the elements of a set, each once.
Lists(q, S) ==
    /\ Cardinality(S) \in Nat /\ q \in [1..Cardinality(S) -> S]
    /\ \A k, l \in 1..Cardinality(S) : q[k] = q[l] => k = l
    /\ \A i \in S : \E k \in 1..Cardinality(S) : q[k] = i

\* InOrder() is one.
LEMMA InOrderIs ==
    ASSUME NEW S, IsFiniteSet(S), NEW key \in [S -> Nat],
           \A i, j \in S : key[i] = key[j] => i = j
    PROVE  Lists(InOrder(S, key), S)
<1> DEFINE n == Cardinality(S)
           Low(i) == {j \in S : key[j] <= key[i]}
           rank == [i \in S |-> Cardinality(Low(i))]
<1>1. n \in Nat
  BY FS_CardinalityType
<1>2. ASSUME NEW i \in S
      PROVE  /\ IsFiniteSet(Low(i)) /\ Cardinality(Low(i)) \in 1..n /\ i \in Low(i)
  <2>1. Low(i) \in SUBSET S /\ i \in Low(i)
    OBVIOUS
  <2> HIDE DEF Low
  <2>2. IsFiniteSet(Low(i)) /\ Cardinality(Low(i)) <= n
    BY <2>1, FS_Subset
  <2>3. Cardinality(Low(i)) \in Nat /\ Cardinality(Low(i)) # 0
    BY <2>1, <2>2, FS_CardinalityType, FS_EmptySet
  <2>4. QED
    BY <1>1, <2>1, <2>2, <2>3
<1>3. ASSUME NEW i \in S, NEW j \in S, key[i] < key[j]
      PROVE  Cardinality(Low(i)) # Cardinality(Low(j))
  <2>1. Low(i) \in SUBSET Low(j) /\ j \in Low(j) /\ j \notin Low(i)
    BY <1>3
  <2> HIDE DEF Low
  <2>2. QED
    BY <1>2, <2>1, FS_Subset
<1>4. rank \in Injection(S, 1..n)
  <2>1. rank \in [S -> 1..n]
    BY <1>2
  <2>2. ASSUME NEW i \in S, NEW j \in S, i # j PROVE rank[i] # rank[j]
    <3>1. key[i] < key[j] \/ key[j] < key[i]
      BY <2>2
    <3> HIDE DEF Low
    <3>2. QED
      BY <1>3, <3>1
  <2> HIDE DEF rank
  <2>3. QED
    BY <2>1, <2>2 DEF Injection, IsInjective
<1>5. rank \in Surjection(S, 1..n)
  <2>1. IsFiniteSet(1..n) /\ Cardinality(1..n) = n
    BY <1>1, FS_Interval
  <2> HIDE DEF rank
  <2>2. QED
    BY <1>4, <2>1, FS_Injection
<1>6. \A k \in 1..n : \E i \in S : Cardinality(Low(i)) = k
  <2>1. \A k \in 1..n : \E i \in S : rank[i] = k
    <3> HIDE DEF rank
    <3>1. QED
      BY <1>5 DEF Surjection
  <2>2. QED
    BY <2>1
<1>7. /\ InOrder(S, key) \in [1..n -> S]
      /\ \A k \in 1..n : Cardinality(Low(InOrder(S, key)[k])) = k
  <2>1. InOrder(S, key) = [k \in 1..n |-> CHOOSE i \in S : Cardinality(Low(i)) = k]
    BY DEF InOrder
  <2> HIDE DEF Low
  <2>2. QED
    BY <1>6, <2>1
<1>8. ASSUME NEW i \in S PROVE \E k \in 1..n : InOrder(S, key)[k] = i
  <2>1. rank[i] \in 1..n /\ rank[i] = Cardinality(Low(i))
    BY <1>2
  <2>2. PICK j \in S : j = InOrder(S, key)[rank[i]]
    BY <1>7, <2>1
  <2>3. rank[j] = rank[i]
    BY <1>7, <2>1, <2>2
  <2>4. j = i
    <3> HIDE DEF rank
    <3>1. QED
      BY <1>4, <2>3 DEF Injection, IsInjective
  <2>5. QED
    BY <2>1, <2>2, <2>4
<1>9. ASSUME NEW k \in 1..n, NEW l \in 1..n, InOrder(S, key)[k] = InOrder(S, key)[l]
      PROVE  k = l
  <2> HIDE DEF Low
  <2>1. QED
    BY <1>7, <1>9
<1>10. QED
  <2> HIDE DEF rank
  <2>1. QED
    BY <1>1, <1>7, <1>8, <1>9 DEF Lists

-----------------------------------------------------------------------------
(***************************************************************************)
(* The types.  A state of the cache is a record of blocks, transactions    *)
(* and events, as in BlockCache.                                           *)
(***************************************************************************)
Values == 0..MaxStamp

BlockType ==
    [cached : BOOLEAN, current : Values \cup {NoData}, original : Values \cup {NoData},
     parent : Values \cup {NoData, Current}, transaction : Ids \cup {NoId},
     previous : Ids \cup {NoId}, dirty : BOOLEAN, discard : BOOLEAN, unused : BOOLEAN]

TransactionType ==
    [state : {"gone", "open", "closed"}, num : Int, main : Int, sub : Int,
     hasSub : BOOLEAN, hook : BOOLEAN]

CacheType ==
    [block : [Blocks -> BlockType], transaction : [Ids -> TransactionType],
     events : Seq(Ids \cup {Sync})]

Ops == {"none", "end", "detach", "discard", "sync", "wait"}

CallType == [op : Ops, arg : Nat, hook : BOOLEAN]

(***************************************************************************)
(* The shape of a block: which combinations of its fields occur.           *)
(***************************************************************************)
IsOpen(c, i) == c.transaction[i].state = "open"

ShapeOf(c, r) ==
    /\ ~r.cached => r = Absent
    /\ r.cached => r.current # NoData
    /\ r.unused => /\ r.transaction = NoId /\ r.previous = NoId
                   /\ r.original = NoData /\ ~r.discard
    /\ r.discard => r.previous = NoId
    /\ r.transaction = NoId => r.parent = NoData
    /\ r.parent # NoData => c.transaction[r.transaction].hasSub
    /\ r.transaction = NoId /\ r.original # NoData =>
            r.previous # NoId /\ r.current = r.original
    /\ r.transaction = NoId /\ r.previous = NoId /\ r.dirty => r.unused
    /\ r.transaction # NoId /\ r.previous # NoId => r.original # NoData
    /\ r.transaction # NoId => IsOpen(c, r.transaction)
    /\ r.previous # NoId => c.transaction[r.previous].state = "closed"

Shape(c) == \A b \in Blocks : ShapeOf(c, c.block[b])

\* Transactions and the ids in the notifications: an id is used once.
Transactions(c, next) ==
    /\ \A i \in Ids : c.transaction[i].state = "gone" => c.transaction[i].num = 0
    /\ \A i \in Ids : i >= next => c.transaction[i].state = "gone"
    /\ \A i, j \in Ids : IsOpen(c, i) /\ IsOpen(c, j) => i = j
    /\ \A k \in 1..Len(c.events) : c.events[k] # Sync =>
            c.events[k] < next /\ c.transaction[c.events[k]].state = "gone"

Counts(c) ==
    \A i \in Ids :
        /\ IsOpen(c, i) => c.transaction[i].num = Cardinality(InTransaction(c, i))
        /\ c.transaction[i].state = "closed" =>
                c.transaction[i].num = Cardinality(InPrevious(c, i))

\* All that a state of the cache by itself has to satisfy.
CacheOK(c, next) ==
    c \in CacheType /\ Shape(c) /\ Transactions(c, next) /\ Counts(c)

MayBeWritten(r) == r.previous # NoId \/ (r.transaction = NoId /\ r.dirty)

\* An "end" or a "detach" counts as committed from its start.
Committing(op) == op \in {"end", "detach"}

\* What an abort brings back.
Undo(r) == IF r.original # NoData THEN r.original ELSE r.current

\* Ids are positive numbers.
LEMMA IdsAre == Ids \subseteq Nat /\ NoId \notin Ids
BY BlockCacheAssumption DEF Ids, NoId

\* A deleted transaction counts no blocks.
LEMMA GoneIs == /\ Gone \in TransactionType /\ Gone.state = "gone" /\ Gone.num = 0
                /\ ~Gone.hasSub
BY DEF Gone, TransactionType

\* There are finitely many ids.
LEMMA FiniteIds == IsFiniteSet(Ids)
BY BlockCacheAssumption, FS_Interval DEF Ids

USE IdsAre DEF NoId, NoData, Current, Sync

-----------------------------------------------------------------------------
(* BlocksDone(): what _BlockDone() does with the blocks of a write *)

\* Sets of blocks are finite.
LEMMA FiniteBlocks ==
    ASSUME NEW S \in SUBSET Blocks
    PROVE  /\ IsFiniteSet(S) /\ Cardinality(S) \in Nat
           /\ Cardinality(S) = 0 <=> S = {}
BY BlockCacheAssumption, FS_Subset, FS_CardinalityType, FS_EmptySet

\* _BlockDone() of one block, field by field.
LEMMA DoneType ==
    ASSUME NEW r \in BlockType
    PROVE  /\ Done(r) \in BlockType
           /\ Done(r).cached = r.cached /\ Done(r).current = r.current
           /\ Done(r).parent = r.parent /\ Done(r).transaction = r.transaction
           /\ Done(r).previous = NoId /\ Done(r).discard = r.discard
           /\ Done(r).dirty = (r.dirty /\ WritesOriginal(r))
           /\ Done(r).original = IF r.previous # NoId /\ r.transaction = NoId
                                 THEN NoData ELSE r.original
           /\ Done(r).unused = (r.unused \/ r.transaction = NoId)
BY ZenonT(30) DEF BlockType, Done, WritesOriginal

\* _BlockDone() leaves a block that may be written in a consistent shape.
LEMMA DoneShape ==
    ASSUME NEW c, NEW r \in BlockType, ShapeOf(c, r), MayBeWritten(r)
    PROVE  ShapeOf(c, Done(r))
BY DoneType DEF ShapeOf, BlockType, WritesOriginal, IsOpen, Absent, NewBlock, MayBeWritten

\* The parts of the result: each block of S is done; a transaction loses its blocks in S
\* from its count, or was ended and is deleted with the last of them; events that are
\* added are about deleted transactions.
IsGone(c, i) == c.transaction[i].state = "gone" /\ c.transaction[i].num = 0

SameButNum(t, u) ==
    /\ t.state = u.state /\ t.hasSub = u.hasSub /\ t.hook = u.hook
    /\ t.main = u.main /\ t.sub = u.sub

TransactionDone(c, d, S, i) ==
    \/ /\ SameButNum(d.transaction[i], c.transaction[i])
       /\ d.transaction[i].num = c.transaction[i].num - Cardinality(InPrevious(c, i) \cap S)
    \/ c.transaction[i].state = "closed" /\ IsGone(d, i) /\ InPrevious(c, i) \subseteq S

\* What CacheOK() says of the parts of a state of the cache.
LEMMA CacheParts ==
    ASSUME NEW c, NEW next, CacheOK(c, next)
    PROVE  /\ c.block \in [Blocks -> BlockType] /\ c.transaction \in [Ids -> TransactionType]
           /\ c.events \in Seq(Ids \cup {Sync})
           /\ \A b \in Blocks : c.block[b] \in BlockType /\ ShapeOf(c, c.block[b])
           /\ \A i \in Ids : c.transaction[i] \in TransactionType
           /\ Transactions(c, next) /\ Counts(c)
BY DEF CacheOK, CacheType, Shape

\* A transaction that blocks wait for has ended; one that has blocks is open.
LEMMA PointsTo ==
    ASSUME NEW c, NEW next, CacheOK(c, next), NEW i \in Ids
    PROVE  /\ InPrevious(c, i) # {} => c.transaction[i].state = "closed"
           /\ InTransaction(c, i) # {} => IsOpen(c, i)
<1>1. ASSUME InPrevious(c, i) # {} PROVE c.transaction[i].state = "closed"
  <2>1. PICK b \in Blocks : c.block[b].previous = i
    BY <1>1 DEF InPrevious
  <2>2. ShapeOf(c, c.block[b])
    BY CacheParts
  <2>3. QED
    BY <2>1, <2>2 DEF ShapeOf
<1>2. ASSUME InTransaction(c, i) # {} PROVE IsOpen(c, i)
  <2>1. PICK b \in Blocks : c.block[b].transaction = i
    BY <1>2 DEF InTransaction
  <2>2. ShapeOf(c, c.block[b])
    BY CacheParts
  <2>3. QED
    BY <2>1, <2>2 DEF ShapeOf
<1>3. QED
  BY <1>1, <1>2

\* The transactions whose last blocks are in S, and those of them that somebody waits for.
Finishing(c, S) ==
    {i \in Ids : /\ c.transaction[i].num > 0
                 /\ c.transaction[i].num <= Cardinality(InPrevious(c, i) \cap S)}
Hooked(c, S) == {i \in Finishing(c, S) : c.transaction[i].hook}

\* They have ended, and S has all their blocks.
LEMMA FinishingIs ==
    ASSUME NEW c, NEW next, CacheOK(c, next), NEW S \in SUBSET Blocks, NEW i \in Ids
    PROVE  /\ Cardinality(InPrevious(c, i) \cap S) \in Nat
           /\ i \in Finishing(c, S) <=> /\ c.transaction[i].state = "closed"
                                        /\ InPrevious(c, i) # {} /\ InPrevious(c, i) \subseteq S
<1> DEFINE P == InPrevious(c, i)
           D == InPrevious(c, i) \cap S
           t == c.transaction[i]
<1>1. /\ IsFiniteSet(P) /\ D \in SUBSET P /\ Cardinality(D) \in Nat /\ Cardinality(P) \in Nat
      /\ (Cardinality(D) = 0 <=> D = {}) /\ (Cardinality(P) = 0 <=> P = {})
      /\ Cardinality(D) <= Cardinality(P)
      /\ (Cardinality(P) = Cardinality(D) => D = P)
  <2>1. P \in SUBSET Blocks /\ D \in SUBSET Blocks /\ D \in SUBSET P
    BY DEF InPrevious
  <2> HIDE DEF P, D
  <2>2. QED
    BY <2>1, FiniteBlocks, FS_Subset
<1>2. /\ t \in TransactionType /\ (P # {} => t.state = "closed")
      /\ t.state = "closed" => t.num = Cardinality(P)
  BY CacheParts, PointsTo DEF Counts
<1>3. t.num \in Int
  BY <1>2 DEF TransactionType
<1>4. i \in Finishing(c, S) <=> t.num > 0 /\ t.num <= Cardinality(D)
  BY DEF Finishing
<1>5. P \subseteq S <=> D = P
  OBVIOUS
<1>6. D # {} => P # {}
  OBVIOUS
<1> HIDE DEF P, D, t
<1>7. (t.num > 0 /\ t.num <= Cardinality(D)) <=> (t.state = "closed" /\ P # {} /\ D = P)
  BY <1>1, <1>2, <1>3, <1>6
<1>8. QED
  BY <1>1, <1>4, <1>5, <1>7 DEF P, D, t

\* What is notified: each of them, once.
Notifies(c, d, S) == \E q : Lists(q, Hooked(c, S)) /\ d.events = c.events \o q

\* _BlockDone() does so.
LEMMA DoneEvents ==
    ASSUME NEW c, NEW next, CacheOK(c, next), NEW S \in SUBSET Blocks,
           NEW d, d = BlocksDone(c, S)
    PROVE  Notifies(c, d, S)
<1> DEFINE key == [i \in Hooked(c, S) |-> Max(InPrevious(c, i) \cap S)]
<1>1. d.events = c.events \o InOrder(Hooked(c, S), key)
  BY DEF BlocksDone, Hooked, Finishing
<1>2. ASSUME NEW i \in Hooked(c, S) PROVE key[i] \in InPrevious(c, i) /\ key[i] \in Nat
  <2>1. i \in Ids /\ i \in Finishing(c, S)
    BY DEF Hooked, Finishing
  <2>2. InPrevious(c, i) # {} /\ InPrevious(c, i) \subseteq S
    BY <2>1, FinishingIs
  <2> DEFINE D == InPrevious(c, i) \cap S
  <2>3. D \in SUBSET Nat /\ D # {} /\ D \in SUBSET Blocks
    BY <2>2, BlockCacheAssumption DEF InPrevious
  <2>4. PICK n \in Nat : \A x \in D : x <= n
    <3>1. IsFiniteSet(D)
      BY <2>3, FiniteBlocks
    <3>2. QED
      BY <2>3, <3>1, FiniteBounded
  <2>5. Max(D) \in D /\ key[i] = Max(D)
    <3> HIDE DEF D
    <3>1. Max(D) \in D
      BY <2>3, <2>4, MaxIsLargest
    <3>2. QED
      BY <3>1 DEF D
  <2>6. QED
    BY <2>3, <2>5
<1>3. key \in [Hooked(c, S) -> Nat]
  BY <1>2
<1>4. ASSUME NEW i \in Hooked(c, S), NEW j \in Hooked(c, S), key[i] = key[j] PROVE i = j
  BY <1>2, <1>4 DEF InPrevious
<1>5. IsFiniteSet(Hooked(c, S))
  BY FiniteIds, FS_Subset DEF Hooked, Finishing
<1> HIDE DEF key
<1>6. Lists(InOrder(Hooked(c, S), key), Hooked(c, S))
  BY <1>3, <1>4, <1>5, InOrderIs
<1>7. QED
  BY <1>1, <1>6 DEF Notifies

\* BlocksDone() has these parts.
LEMMA BlocksDoneParts ==
    ASSUME NEW c, NEW next, CacheOK(c, next), NEW S \in SUBSET Blocks,
           NEW d, d = BlocksDone(c, S)
    PROVE  /\ d \in CacheType
           /\ \A b \in Blocks :
                d.block[b] = IF b \in S THEN Done(c.block[b]) ELSE c.block[b]
           /\ \A i \in Ids : TransactionDone(c, d, S, i)
           /\ \A k \in 1..Len(d.events) :
                \/ k \in 1..Len(c.events) /\ d.events[k] = c.events[k]
                \/ /\ d.events[k] \in Ids
                   /\ c.transaction[d.events[k]].state = "closed"
                   /\ IsGone(d, d.events[k])
<1> DEFINE done(i) == InPrevious(c, i) \cap S
           finished == Finishing(c, S)
           hooked == Hooked(c, S)
<1>0. /\ c \in CacheType /\ Shape(c) /\ Counts(c)
      /\ c.block \in [Blocks -> BlockType] /\ c.transaction \in [Ids -> TransactionType]
      /\ c.events \in Seq(Ids \cup {Sync})
  BY DEF CacheOK, CacheType
<1>1. /\ d.block = [b \in Blocks |-> IF b \in S THEN Done(c.block[b]) ELSE c.block[b]]
      /\ d.transaction = [i \in Ids |->
            IF i \in finished THEN Gone
            ELSE [c.transaction[i] EXCEPT !.num = @ - Cardinality(done(i))]]
      /\ d = [block |-> d.block, transaction |-> d.transaction, events |-> d.events]
  BY DEF BlocksDone, Finishing
<1>2. ASSUME NEW i \in Ids
      PROVE  /\ IsFiniteSet(InPrevious(c, i)) /\ done(i) \in SUBSET InPrevious(c, i)
             /\ done(i) \in SUBSET Nat /\ done(i) \in SUBSET Blocks
             /\ Cardinality(done(i)) \in Nat
             /\ Cardinality(done(i)) = 0 <=> done(i) = {}
             /\ Cardinality(done(i)) <= Cardinality(InPrevious(c, i))
             /\ Cardinality(InPrevious(c, i)) = Cardinality(done(i))
                    => done(i) = InPrevious(c, i)
  <2>1. InPrevious(c, i) \in SUBSET Blocks
    BY DEF InPrevious
  <2>2. QED
    BY <2>1, BlockCacheAssumption, FiniteBlocks, FS_Subset
<1>3. ASSUME NEW i \in finished
      PROVE  /\ c.transaction[i].state = "closed"
             /\ InPrevious(c, i) \subseteq S /\ done(i) # {}
  <2>1. i \in Ids /\ i \in Finishing(c, S)
    BY DEF Finishing
  <2>2. /\ c.transaction[i].state = "closed"
        /\ InPrevious(c, i) # {} /\ InPrevious(c, i) \subseteq S
    <3> HIDE DEF done, finished
    <3>1. QED
      BY <2>1, FinishingIs
  <2>3. QED
    BY <2>2
<1>4. PICK t : t \in Seq(hooked) /\ d.events = c.events \o t
  <2>1. PICK t : Lists(t, hooked) /\ d.events = c.events \o t
    BY DoneEvents DEF Notifies
  <2>2. Cardinality(Hooked(c, S)) \in Nat /\ t \in [1..Cardinality(Hooked(c, S)) -> Hooked(c, S)]
    BY <2>1 DEF Lists
  <2>3. t \in Seq(hooked)
    BY <2>2
  <2>4. QED
    BY <2>1, <2>3
<1>5. ASSUME NEW i \in Ids
      PROVE  TransactionDone(c, d, S, i)
  <2>1. CASE i \in finished
    <3> HIDE DEF finished, done
    <3>1. QED
      BY <1>1, <1>3, <2>1, GoneIs DEF IsGone, TransactionDone
  <2>2. CASE i \notin finished
    <3>1. c.transaction[i] \in TransactionType
      BY <1>0
    <3> HIDE DEF finished, done
    <3>2. d.transaction[i] = [c.transaction[i] EXCEPT !.num = @ - Cardinality(done(i))]
      BY <1>1, <2>2
    <3>3. /\ SameButNum(d.transaction[i], c.transaction[i])
          /\ d.transaction[i].num = c.transaction[i].num - Cardinality(done(i))
      BY <3>1, <3>2 DEF TransactionType, SameButNum
    <3>4. QED
      BY <3>3 DEF TransactionDone, done
  <2>3. QED
    BY <2>1, <2>2
<1>6. d \in CacheType
  <2>1. d.block \in [Blocks -> BlockType]
    <3>1. ASSUME NEW b \in Blocks
          PROVE  (IF b \in S THEN Done(c.block[b]) ELSE c.block[b]) \in BlockType
      <4>1. c.block[b] \in BlockType
        BY <1>0
      <4>2. QED
        BY <4>1, DoneType
    <3>2. d.block = [b \in Blocks |-> IF b \in S THEN Done(c.block[b]) ELSE c.block[b]]
      BY <1>1
    <3>3. QED
      BY <3>1, <3>2
  <2>2. d.transaction \in [Ids -> TransactionType]
    <3>1. Gone \in TransactionType
      BY DEF Gone, TransactionType
    <3>2. ASSUME NEW i \in Ids
          PROVE  [c.transaction[i] EXCEPT !.num = @ - Cardinality(done(i))]
                    \in TransactionType
      <4>1. Cardinality(done(i)) \in Nat /\ c.transaction[i] \in TransactionType
        BY <1>0, <1>2
      <4> HIDE DEF done
      <4>2. QED
        BY <4>1 DEF TransactionType
    <3> HIDE DEF finished, done
    <3>3. QED
      BY <1>1, <3>1, <3>2, ZenonT(30)
  <2>3. d.events \in Seq(Ids \cup {Sync})
    <3>1. hooked \in SUBSET (Ids \cup {Sync})
      BY DEF Hooked, Finishing
    <3> HIDE DEF hooked
    <3>2. t \in Seq(Ids \cup {Sync})
      BY <1>4, <3>1, SeqSubset
    <3>3. QED
      BY <1>0, <1>4, <3>2
  <2>4. QED
    BY <1>1, <2>1, <2>2, <2>3 DEF CacheType
<1>7. ASSUME NEW k \in 1..Len(d.events)
      PROVE  \/ k \in 1..Len(c.events) /\ d.events[k] = c.events[k]
             \/ /\ d.events[k] \in Ids
                /\ c.transaction[d.events[k]].state = "closed"
                /\ IsGone(d, d.events[k])
  <2>1. \/ k \in 1..Len(c.events) /\ d.events[k] = c.events[k]
        \/ d.events[k] \in hooked
    <3> HIDE DEF hooked
    <3>1. QED
      BY <1>0, <1>4
  <2>2. hooked \subseteq finished /\ finished \subseteq Ids
    BY DEF Hooked, Finishing
  <2>3. QED
    <3> HIDE DEF hooked, finished
    <3>1. QED
      BY <1>1, <1>3, <2>1, <2>2, GoneIs DEF IsGone
<1>8. QED
  BY <1>1, <1>5, <1>6, <1>7

\* The shape of a block depends on the transactions it points to only.
LEMMA ShapeFrame ==
    ASSUME NEW c, NEW d, NEW r, ShapeOf(c, r),
           r.transaction # NoId =>
                /\ IsOpen(d, r.transaction)
                /\ r.parent # NoData => d.transaction[r.transaction].hasSub,
           r.previous # NoId => d.transaction[r.previous].state = "closed"
    PROVE  ShapeOf(d, r)
BY DEF ShapeOf

\* _BlockDone() keeps the cache consistent.
LEMMA BlocksDoneOK ==
    ASSUME NEW c, NEW next \in Nat, CacheOK(c, next), NEW S \in SUBSET Blocks,
           \A b \in S : MayBeWritten(c.block[b]), NEW d, d = BlocksDone(c, S)
    PROVE  CacheOK(d, next)
<1>0. /\ c \in CacheType /\ Shape(c) /\ Counts(c) /\ Transactions(c, next)
      /\ c.block \in [Blocks -> BlockType] /\ c.transaction \in [Ids -> TransactionType]
      /\ c.events \in Seq(Ids \cup {Sync})
  BY DEF CacheOK, CacheType
<1>1. /\ d \in CacheType
      /\ \A b \in Blocks : d.block[b] = IF b \in S THEN Done(c.block[b]) ELSE c.block[b]
      /\ d.block \in [Blocks -> BlockType] /\ d.transaction \in [Ids -> TransactionType]
      /\ d.events \in Seq(Ids \cup {Sync})
  BY BlocksDoneParts DEF CacheType
<1>9. ASSUME NEW i \in Ids, InPrevious(c, i) # {} PROVE c.transaction[i].state = "closed"
  <2>1. PICK b \in Blocks : c.block[b].previous = i
    BY <1>9 DEF InPrevious
  <2>2. ShapeOf(c, c.block[b])
    BY <1>0 DEF Shape
  <2>3. QED
    BY <2>1, <2>2 DEF ShapeOf
<1>2. ASSUME NEW i \in Ids
      PROVE  \/ /\ d.transaction[i].state = c.transaction[i].state
                /\ d.transaction[i].hasSub = c.transaction[i].hasSub
                /\ d.transaction[i].num =
                        c.transaction[i].num - Cardinality(InPrevious(c, i) \cap S)
             \/ /\ c.transaction[i].state = "closed" /\ d.transaction[i].state = "gone"
                /\ InPrevious(c, i) \subseteq S
  <2>1. TransactionDone(c, d, S, i)
    BY BlocksDoneParts
  <2>2. QED
    BY <2>1 DEF TransactionDone, SameButNum, IsGone
<1>8. ASSUME NEW i \in Ids, d.transaction[i].state = "gone" PROVE d.transaction[i].num = 0
  <2>1. CASE /\ SameButNum(d.transaction[i], c.transaction[i])
             /\ d.transaction[i].num =
                    c.transaction[i].num - Cardinality(InPrevious(c, i) \cap S)
    <3>1. c.transaction[i].num = 0 /\ c.transaction[i].state = "gone"
      BY <1>0, <1>8, <2>1 DEF Transactions, SameButNum
    <3>2. InPrevious(c, i) \cap S = {}
      BY <1>9, <3>1
    <3>3. Cardinality(InPrevious(c, i) \cap S) = 0
      BY <3>2, FS_EmptySet
    <3>4. QED
      BY <2>1, <3>1, <3>3
  <2>2. TransactionDone(c, d, S, i)
    BY BlocksDoneParts
  <2>3. QED
    BY <2>1, <2>2 DEF IsGone, TransactionDone
<1>3. \A i \in Ids : InTransaction(d, i) = InTransaction(c, i)
                     /\ InPrevious(d, i) = InPrevious(c, i) \ S
  <2>1. \A b \in Blocks : /\ d.block[b].transaction = c.block[b].transaction
                          /\ d.block[b].previous = IF b \in S THEN NoId
                                                   ELSE c.block[b].previous
    <3> SUFFICES ASSUME NEW b \in Blocks
                 PROVE  /\ d.block[b].transaction = c.block[b].transaction
                        /\ d.block[b].previous = IF b \in S THEN NoId
                                                 ELSE c.block[b].previous
      OBVIOUS
    <3>1. c.block[b] \in BlockType
      BY <1>0
    <3>2. QED
      BY <1>1, <3>1, DoneType
  <2>2. QED
    BY <2>1, Zenon DEF InTransaction, InPrevious
<1>4. Shape(d)
  <2> SUFFICES ASSUME NEW b \in Blocks PROVE ShapeOf(d, d.block[b])
    BY DEF Shape
  <2>1. ShapeOf(c, d.block[b]) /\ d.block[b] \in BlockType
    <3>1. c.block[b] \in BlockType /\ ShapeOf(c, c.block[b])
      BY <1>0 DEF Shape
    <3>2. CASE b \in S
      BY <1>1, <3>1, <3>2, DoneType, DoneShape
    <3>3. CASE b \notin S
      BY <1>1, <3>1, <3>3
    <3>4. QED
      BY <3>2, <3>3
  <2>2. d.block[b].transaction # NoId =>
            /\ IsOpen(d, d.block[b].transaction)
            /\ d.block[b].parent # NoData => d.transaction[d.block[b].transaction].hasSub
    BY <1>2, <2>1 DEF ShapeOf, BlockType, IsOpen
  <2>3. ASSUME d.block[b].previous # NoId
        PROVE  d.transaction[d.block[b].previous].state = "closed"
    <3> DEFINE i == d.block[b].previous
    <3>1. i \in Ids /\ c.transaction[i].state = "closed" /\ b \in InPrevious(d, i)
      BY <2>1, <2>3 DEF ShapeOf, BlockType, InPrevious
    <3>2. ~(InPrevious(c, i) \subseteq S)
      BY <1>3, <3>1
    <3>3. QED
      BY <1>2, <3>1, <3>2
  <2>4. QED
    BY <2>1, <2>2, <2>3, ShapeFrame
<1>5. Transactions(d, next)
  <2>1. \A i \in Ids : d.transaction[i].state = "gone" => d.transaction[i].num = 0
    BY <1>8
  <2>2. \A i \in Ids : i >= next => d.transaction[i].state = "gone"
    BY <1>0, <1>2 DEF Transactions
  <2>3. \A i, j \in Ids : IsOpen(d, i) /\ IsOpen(d, j) => i = j
    <3>1. \A i \in Ids : IsOpen(d, i) => IsOpen(c, i)
      BY <1>2 DEF IsOpen
    <3>2. QED
      BY <1>0, <3>1 DEF Transactions
  <2>4. ASSUME NEW k \in 1..Len(d.events), d.events[k] # Sync
        PROVE  d.events[k] < next /\ d.transaction[d.events[k]].state = "gone"
    <3>1. CASE k \in 1..Len(c.events) /\ d.events[k] = c.events[k]
      <4>1. d.events[k] \in Ids
        BY <1>1, <2>4
      <4>2. c.events[k] < next /\ c.transaction[c.events[k]].state = "gone"
        BY <1>0, <2>4, <3>1 DEF Transactions
      <4>3. QED
        BY <1>2, <3>1, <4>1, <4>2
    <3>2. CASE /\ d.events[k] \in Ids
               /\ c.transaction[d.events[k]].state = "closed"
               /\ IsGone(d, d.events[k])
      <4>1. ~(d.events[k] >= next)
        BY <1>0, <3>2 DEF Transactions
      <4>2. d.events[k] \in Nat
        BY <3>2
      <4>3. QED
        BY <3>2, <4>1, <4>2 DEF IsGone
    <3>3. QED
      BY <3>1, <3>2, BlocksDoneParts
  <2>5. QED
    BY <2>1, <2>2, <2>3, <2>4 DEF Transactions
<1>6. Counts(d)
  <2> SUFFICES ASSUME NEW i \in Ids
               PROVE  /\ IsOpen(d, i) =>
                            d.transaction[i].num = Cardinality(InTransaction(d, i))
                      /\ d.transaction[i].state = "closed" =>
                            d.transaction[i].num = Cardinality(InPrevious(d, i))
    BY DEF Counts
  <2>1. InPrevious(c, i) \in SUBSET Blocks /\ InTransaction(c, i) \in SUBSET Blocks
    BY DEF InPrevious, InTransaction
  <2>2. ASSUME IsOpen(d, i)
        PROVE  d.transaction[i].num = Cardinality(InTransaction(d, i))
    <3>1. IsOpen(c, i) /\ d.transaction[i].num =
                c.transaction[i].num - Cardinality(InPrevious(c, i) \cap S)
      BY <1>2, <2>2 DEF IsOpen, Gone
    <3>2. InPrevious(c, i) \cap S = {}
      BY <1>9, <3>1 DEF IsOpen
    <3>3. Cardinality(InPrevious(c, i) \cap S) = 0
      BY <3>2, FS_EmptySet
    <3>4. c.transaction[i].num = Cardinality(InTransaction(c, i))
      BY <1>0, <3>1 DEF Counts
    <3>5. Cardinality(InTransaction(c, i)) \in Nat
      BY <2>1, FiniteBlocks
    <3>6. QED
      BY <1>3, <3>1, <3>3, <3>4, <3>5
  <2>3. ASSUME d.transaction[i].state = "closed"
        PROVE  d.transaction[i].num = Cardinality(InPrevious(d, i))
    <3>1. c.transaction[i].state = "closed" /\ d.transaction[i].num =
                c.transaction[i].num - Cardinality(InPrevious(c, i) \cap S)
      BY <1>2, <2>3 DEF Gone
    <3>2. c.transaction[i].num = Cardinality(InPrevious(c, i))
      BY <1>0, <3>1 DEF Counts
    <3>3. Cardinality(InPrevious(c, i) \ S) =
                Cardinality(InPrevious(c, i)) - Cardinality(InPrevious(c, i) \cap S)
      BY <2>1, FiniteBlocks, FS_Difference
    <3>4. QED
      BY <1>3, <3>1, <3>2, <3>3
  <2>4. QED
    BY <2>2, <2>3
<1>7. QED
  BY <1>1, <1>4, <1>5, <1>6 DEF CacheOK

-----------------------------------------------------------------------------
(* What ends a call: Ended(), DetachedSub(), Discard() *)

\* A block that is not in the cache.
LEMMA AbsentIs ==
    /\ Absent \in BlockType /\ Absent.transaction = NoId /\ Absent.previous = NoId
    /\ \A c : ShapeOf(c, Absent)
    /\ ~Absent.cached /\ ~Absent.dirty /\ ~Absent.discard
    /\ Absent.original = NoData /\ Absent.parent = NoData
BY DEF Absent, NewBlock, BlockType, ShapeOf

EndedBlock(r, i) == IF r.discard THEN Absent
                    ELSE [r EXCEPT !.original = NoData, !.parent = NoData,
                                   !.previous = i, !.transaction = NoId]

\* A block of the transaction after cache_end_transaction(), field by field.
LEMMA EndedBlockIs ==
    ASSUME NEW c, NEW r \in BlockType, NEW i \in Ids, ShapeOf(c, r), r.transaction = i,
           NEW d, d.transaction[i].state = "closed"
    PROVE  /\ EndedBlock(r, i) \in BlockType /\ ShapeOf(d, EndedBlock(r, i))
           /\ EndedBlock(r, i).transaction = NoId
           /\ EndedBlock(r, i).previous = IF r.discard THEN NoId ELSE i
           /\ r.discard => EndedBlock(r, i) = Absent
           /\ ~r.discard => /\ EndedBlock(r, i).current = r.current
                            /\ EndedBlock(r, i).original = NoData
                            /\ EndedBlock(r, i).parent = NoData
                            /\ EndedBlock(r, i).dirty = r.dirty
                            /\ EndedBlock(r, i).cached = r.cached
                            /\ ~EndedBlock(r, i).discard
<1>1. CASE r.discard
  BY <1>1, AbsentIs DEF EndedBlock
<1>2. CASE ~r.discard
  <2> DEFINE s == EndedBlock(r, i)
  <2>1. s = [r EXCEPT !.original = NoData, !.parent = NoData, !.previous = i,
                      !.transaction = NoId]
    BY <1>2 DEF EndedBlock
  <2> HIDE DEF s
  <2>2. /\ s \in BlockType /\ s.original = NoData /\ s.parent = NoData /\ s.previous = i
        /\ s.transaction = NoId /\ s.current = r.current /\ s.dirty = r.dirty
        /\ s.cached = r.cached /\ s.discard = r.discard /\ s.unused = r.unused
    BY <2>1 DEF BlockType
  <2>3. r.cached /\ r.current # NoData /\ ~r.unused
    BY DEF ShapeOf, Absent, NewBlock
  <2>4. ShapeOf(d, s)
    BY <1>2, <2>2, <2>3 DEF ShapeOf
  <2>5. QED
    BY <1>2, <2>2, <2>4 DEF s
<1>3. QED
  BY <1>1, <1>2

\* The blocks, transactions and events after cache_end_transaction().
LEMMA EndedParts ==
    ASSUME NEW c, NEW next \in Nat, CacheOK(c, next), NEW i \in Ids, IsOpen(c, i),
           NEW hook \in BOOLEAN, NEW d, d = Ended(c, i, hook)
    PROVE  /\ d \in [block : [Blocks -> BlockType], transaction : [Ids -> TransactionType],
                     events : Seq(Ids \cup {Sync})]
           /\ d.events = c.events
           /\ \A b \in Blocks : d.block[b] = IF c.block[b].transaction = i
                                             THEN EndedBlock(c.block[b], i) ELSE c.block[b]
           /\ d.transaction[i].state = "closed"
           /\ d.transaction[i].num = c.transaction[i].num - Cardinality(Discarded(c, i))
           /\ \A j \in Ids : j # i => d.transaction[j] = c.transaction[j]
<1>0. /\ c.block \in [Blocks -> BlockType] /\ c.transaction \in [Ids -> TransactionType]
      /\ c.events \in Seq(Ids \cup {Sync}) /\ c \in CacheType
  BY CacheParts DEF CacheOK
<1> DEFINE n == Cardinality(Discarded(c, i))
           bl == [b \in Blocks |->
                    IF b \in Discarded(c, i) THEN Absent
                    ELSE IF b \in InTransaction(c, i)
                    THEN [c.block[b] EXCEPT !.original = NoData, !.parent = NoData,
                                      !.previous = i, !.transaction = NoId]
                    ELSE c.block[b]]
           q == c.transaction[i].num - n
           t == [c.transaction[i] EXCEPT !.state = "closed", !.hook = hook, !.num = q]
<1>1. n \in Nat
  <2>1. Discarded(c, i) \in SUBSET Blocks
    BY DEF Discarded, InTransaction
  <2>2. QED
    BY <2>1, FiniteBlocks
<1>2. /\ d.block = bl /\ d.events = c.events
      /\ d = [block |-> d.block, transaction |-> d.transaction, events |-> d.events]
      /\ d.transaction = [c.transaction EXCEPT ![i] = t]
  <2>1. d = [block |-> bl, transaction |-> [c.transaction EXCEPT ![i] = t],
             events |-> c.events]
    BY DEF Ended
  <2> HIDE DEF bl, t
  <2>2. QED
    BY <2>1
<1>3. /\ d.transaction \in [Ids -> TransactionType] /\ d.transaction[i].state = "closed"
      /\ d.transaction[i].num = c.transaction[i].num - n
      /\ \A j \in Ids : j # i => d.transaction[j] = c.transaction[j]
  <2>1. c.transaction[i] \in TransactionType
    BY <1>0
  <2> HIDE DEF n, bl
  <2>0. q \in Int
    BY <1>1, <2>1 DEF TransactionType
  <2> HIDE DEF q
  <2>2. t \in TransactionType /\ t.state = "closed" /\ t.num = q
    BY <2>0, <2>1 DEF TransactionType
  <2> HIDE DEF t
  <2>3. QED
    BY <1>0, <1>2, <2>2 DEF q
<1>4. ASSUME NEW b \in Blocks
      PROVE  d.block[b] = IF c.block[b].transaction = i
                          THEN EndedBlock(c.block[b], i) ELSE c.block[b]
  <2>1. /\ b \in Discarded(c, i) <=> c.block[b].transaction = i /\ c.block[b].discard
        /\ b \in InTransaction(c, i) <=> c.block[b].transaction = i
    BY DEF Discarded, InTransaction
  <2>2. QED
    BY <1>2, <2>1 DEF EndedBlock
<1>5. d.block \in [Blocks -> BlockType]
  <2>1. \A b \in Blocks : d.block[b] \in BlockType
    <3> SUFFICES ASSUME NEW b \in Blocks PROVE d.block[b] \in BlockType
      OBVIOUS
    <3>1. c.block[b] \in BlockType /\ ShapeOf(c, c.block[b])
      BY CacheParts
    <3>2. CASE c.block[b].transaction = i
      <4>1. d.block[b] = EndedBlock(c.block[b], i)
        BY <1>4, <3>2
      <4>2. d.transaction[i].state = "closed"
        BY <1>3
      <4>3. EndedBlock(c.block[b], i) \in BlockType
        BY <3>1, <3>2, <4>2, EndedBlockIs
      <4>4. QED
        BY <4>1, <4>3
    <3>3. CASE c.block[b].transaction # i
      BY <1>4, <3>1, <3>3
    <3>4. QED
      BY <3>2, <3>3
  <2>2. QED
    BY <1>2, <2>1
<1>6. QED
  BY <1>0, <1>2, <1>3, <1>4, <1>5 DEF n

\* cache_end_transaction() keeps the cache consistent.
LEMMA EndedOK ==
    ASSUME NEW c, NEW next \in Nat, CacheOK(c, next), NEW i \in Ids, IsOpen(c, i),
           \A b \in InTransaction(c, i) : c.block[b].previous = NoId,
           NEW hook \in BOOLEAN, NEW d, d = Ended(c, i, hook)
    PROVE  CacheOK(d, next)
<1>1. /\ d \in CacheType /\ d.events = c.events
      /\ \A b \in Blocks : d.block[b] = IF c.block[b].transaction = i
                                        THEN EndedBlock(c.block[b], i) ELSE c.block[b]
      /\ d.transaction[i].state = "closed"
      /\ d.transaction[i].num = c.transaction[i].num - Cardinality(Discarded(c, i))
      /\ \A j \in Ids : j # i => d.transaction[j] = c.transaction[j]
  BY EndedParts DEF CacheType
<1>2. ASSUME NEW b \in Blocks
      PROVE  /\ c.block[b] \in BlockType /\ ShapeOf(c, c.block[b])
             /\ c.block[b].transaction = i => c.block[b].previous = NoId
             /\ c.block[b].transaction \in {NoId, i} /\ c.block[b].previous # i
  <2>1. c.block[b] \in BlockType /\ ShapeOf(c, c.block[b]) /\ Transactions(c, next)
    BY CacheParts
  <2>2. c.block[b].transaction = i => c.block[b].previous = NoId
    BY DEF InTransaction
  <2>3. c.block[b].transaction \in {NoId, i} /\ c.block[b].previous # i
    BY <2>1 DEF BlockType, ShapeOf, Transactions, IsOpen
  <2>4. QED
    BY <2>1, <2>2, <2>3
<1>3. Shape(d)
  <2> SUFFICES ASSUME NEW b \in Blocks PROVE ShapeOf(d, d.block[b])
    BY DEF Shape
  <2>1. CASE c.block[b].transaction = i
    <3>1. PICK r \in BlockType : r = c.block[b]
      BY <1>2
    <3>2. ShapeOf(c, r) /\ r.transaction = i /\ d.block[b] = EndedBlock(r, i)
      BY <1>1, <1>2, <2>1, <3>1
    <3>3. ShapeOf(d, EndedBlock(r, i))
      BY <1>1, <3>2, EndedBlockIs
    <3>4. QED
      BY <3>2, <3>3
  <2>2. CASE c.block[b].transaction = NoId
    <3>1. d.block[b] = c.block[b] /\ ShapeOf(c, c.block[b])
      BY <1>1, <1>2, <2>2
    <3>2. c.block[b].previous # NoId => d.transaction[c.block[b].previous].state = "closed"
      BY <1>1, <1>2 DEF ShapeOf, BlockType
    <3>3. QED
      BY <2>2, <3>1, <3>2, ShapeFrame
  <2>3. QED
    BY <1>2, <2>1, <2>2
<1>4. Transactions(d, next)
  <2>1. Transactions(c, next)
    BY CacheParts
  <2>2. \A j \in Ids : j # i => /\ d.transaction[j].state = c.transaction[j].state
                                /\ d.transaction[j].num = c.transaction[j].num
    <3> SUFFICES ASSUME NEW j \in Ids, j # i PROVE d.transaction[j] = c.transaction[j]
      OBVIOUS
    <3>1. QED
      BY EndedParts
  <2>3. c.events \in Seq(Ids \cup {Sync})
    BY CacheParts
  <2>4. \A k \in 1..Len(d.events) : d.events[k] # Sync =>
            d.events[k] < next /\ d.transaction[d.events[k]].state = "gone"
    <3> SUFFICES ASSUME NEW k \in 1..Len(c.events), c.events[k] # Sync
                 PROVE  c.events[k] < next /\ d.transaction[c.events[k]].state = "gone"
      BY <1>1
    <3>1. /\ c.events[k] \in Ids
          /\ c.events[k] < next /\ c.transaction[c.events[k]].state = "gone"
      BY <2>1, <2>3 DEF Transactions
    <3>2. QED
      BY <2>2, <3>1 DEF IsOpen
  <2>5. \A j \in Ids : j >= next => d.transaction[j].state = "gone"
    BY <1>1, <2>1, <2>2 DEF Transactions, IsOpen
  <2>6. \A j \in Ids : d.transaction[j].state = "gone" => d.transaction[j].num = 0
    BY <1>1, <2>1, <2>2 DEF Transactions
  <2>7. \A j, k \in Ids : IsOpen(d, j) /\ IsOpen(d, k) => j = k
    BY <1>1, <2>1, <2>2 DEF Transactions, IsOpen
  <2>8. QED
    BY <2>4, <2>5, <2>6, <2>7 DEF Transactions
<1>5. /\ InPrevious(d, i) = InTransaction(c, i) \ Discarded(c, i)
      /\ \A j \in Ids : j # i => /\ InPrevious(d, j) = InPrevious(c, j)
                                 /\ InTransaction(d, j) = InTransaction(c, j)
  <2>1. \A b \in Blocks :
            /\ d.block[b].transaction = IF c.block[b].transaction = i THEN NoId
                                        ELSE c.block[b].transaction
            /\ d.block[b].previous = IF c.block[b].transaction # i THEN c.block[b].previous
                                     ELSE IF c.block[b].discard THEN NoId ELSE i
    BY <1>1, <1>2, EndedBlockIs
  <2>2. InPrevious(d, i) = InTransaction(c, i) \ Discarded(c, i)
    BY <1>2, <2>1 DEF InPrevious, InTransaction, Discarded
  <2>3. ASSUME NEW j \in Ids, j # i
        PROVE  InPrevious(d, j) = InPrevious(c, j) /\ InTransaction(d, j) = InTransaction(c, j)
    BY <1>2, <2>1, <2>3 DEF InPrevious, InTransaction
  <2>4. QED
    BY <2>2, <2>3
<1>6. Counts(d)
  <2>0. Counts(c)
    BY CacheParts
  <2>1. Discarded(c, i) \in SUBSET InTransaction(c, i) /\ InTransaction(c, i) \in SUBSET Blocks
    BY DEF Discarded, InTransaction
  <2>2. Cardinality(InTransaction(c, i) \ Discarded(c, i)) =
            Cardinality(InTransaction(c, i)) - Cardinality(Discarded(c, i))
    <3>1. InTransaction(c, i) \cap Discarded(c, i) = Discarded(c, i)
      BY <2>1
    <3>2. PICK S \in SUBSET Blocks, T \in SUBSET Blocks :
                S = InTransaction(c, i) /\ T = Discarded(c, i)
      BY <2>1
    <3>3. Cardinality(S \ T) = Cardinality(S) - Cardinality(S \cap T)
      BY FiniteBlocks, FS_Difference
    <3>4. QED
      BY <3>1, <3>2, <3>3
  <2>3. d.transaction[i].num = Cardinality(InPrevious(d, i))
    BY <1>1, <1>5, <2>0, <2>2 DEF Counts
  <2>4. QED
    BY <1>1, <1>5, <2>0, <2>3 DEF Counts, IsOpen
<1>7. QED
  BY <1>1, <1>3, <1>4, <1>6 DEF CacheOK

\* What cache_detach_sub_transaction() relies on.
SubPart(c, i) ==
    {b \in InTransaction(c, i) : c.block[b].parent # Current /\ ~c.block[b].discard}
MainPart(c, i) == {b \in InTransaction(c, i) : c.block[b].parent # NoData}

DividedBlock(r) == IF r.discard THEN r.parent = NoData
                   ELSE r.parent # Current => r.original # NoData

Divided(c, i) ==
    /\ c.transaction[i].sub = Cardinality(SubPart(c, i))
    /\ c.transaction[i].main = Cardinality(MainPart(c, i) \cup Discarded(c, i))
    /\ \A b \in InTransaction(c, i) : DividedBlock(c.block[b])

\* A block of the transaction after cache_detach_sub_transaction().
LEMMA DetachedIs ==
    ASSUME NEW c, NEW r \in BlockType, NEW i \in Ids, NEW j \in Ids, ShapeOf(c, r),
           r.transaction = i, r.previous = NoId, DividedBlock(r),
           NEW d, d.transaction[i].state = "closed", IsOpen(d, j)
    PROVE  /\ Detached(r, i, j) \in BlockType /\ ShapeOf(d, Detached(r, i, j))
           /\ Detached(r, i, j).transaction =
                    IF r.discard \/ r.parent = Current THEN NoId ELSE j
           /\ Detached(r, i, j).previous =
                    IF r.discard \/ r.parent = NoData THEN NoId ELSE i
           /\ r.discard => Detached(r, i, j) = Absent
           /\ ~r.discard => /\ Detached(r, i, j).current = r.current
                            /\ Detached(r, i, j).original =
                                    IF r.parent = NoData THEN r.original
                                    ELSE IF r.parent = Current THEN NoData ELSE r.parent
                            /\ Detached(r, i, j).parent = NoData
                            /\ Detached(r, i, j).dirty = r.dirty
                            /\ Detached(r, i, j).cached = r.cached
                            /\ ~Detached(r, i, j).discard
<1>1. CASE r.discard
  BY <1>1, AbsentIs DEF Detached
<1>2. CASE ~r.discard
  <2> DEFINE x == IF r.parent = NoData THEN r.original
                  ELSE IF r.parent = Current THEN NoData ELSE r.parent
             y == IF r.parent = NoData THEN NoId ELSE i
             z == IF r.parent = Current THEN NoId ELSE j
             s == Detached(r, i, j)
  <2>1. x = NoData <=> r.parent = Current
    BY <1>2 DEF BlockType, DividedBlock
  <2>2. s = [r EXCEPT !.original = x, !.parent = NoData, !.previous = y, !.transaction = z]
    BY <1>2, <2>1 DEF Detached
  <2>3. x \in Values \cup {NoData} /\ y \in Ids \cup {NoId} /\ z \in Ids \cup {NoId}
    BY DEF BlockType
  <2> HIDE DEF x, y, z, s
  <2>4. /\ s \in BlockType /\ s.original = x /\ s.parent = NoData /\ s.previous = y
        /\ s.transaction = z /\ s.current = r.current /\ s.dirty = r.dirty
        /\ s.cached = r.cached /\ s.discard = r.discard /\ s.unused = r.unused
    BY <2>2, <2>3 DEF BlockType
  <2>5. r.cached /\ r.current # NoData /\ ~r.unused
    BY DEF ShapeOf, Absent, NewBlock
  <2>6. ShapeOf(d, s)
    BY <1>2, <2>1, <2>4, <2>5 DEF ShapeOf, IsOpen, x, y, z
  <2>7. QED
    BY <1>2, <2>4, <2>6 DEF x, y, z, s
<1>3. QED
  BY <1>1, <1>2

\* The transactions after cache_detach_sub_transaction().
Renewed(c, d, i, j) ==
    /\ j # i /\ c.transaction[j].state = "gone"
    /\ d.transaction[i].state = "closed" /\ IsOpen(d, j) /\ ~d.transaction[j].hasSub
    /\ d.transaction[i].num = c.transaction[i].main - Cardinality(Discarded(c, i))
    /\ d.transaction[j].num = c.transaction[i].sub
    /\ \A k \in Ids : k \notin {i, j} => d.transaction[k] = c.transaction[k]

\* cache_detach_sub_transaction() has these parts.
LEMMA DetachedParts ==
    ASSUME NEW c, NEW next \in Nat, CacheOK(c, next), NEW i \in Ids, IsOpen(c, i),
           next \in Ids, NEW hook \in BOOLEAN, NEW d, d = DetachedSub(c, i, next, hook)
    PROVE  /\ d = [block |-> d.block, transaction |-> d.transaction, events |-> c.events]
           /\ d.block = [b \in Blocks |-> IF c.block[b].transaction = i
                                          THEN Detached(c.block[b], i, next) ELSE c.block[b]]
           /\ d.transaction \in [Ids -> TransactionType]
           /\ Renewed(c, d, i, next)
<1> DEFINE n == Cardinality(Discarded(c, i))
           q == c.transaction[i].main - n
           zero == 0
           bl == [b \in Blocks |-> IF b \in InTransaction(c, i)
                                   THEN Detached(c.block[b], i, next) ELSE c.block[b]]
           t == [c.transaction[i] EXCEPT !.state = "closed", !.hook = hook,
                                         !.hasSub = FALSE, !.sub = zero, !.num = q]
           k == c.transaction[i].sub
           u == [Gone EXCEPT !.state = "open", !.num = k]
<1>1. /\ c.transaction \in [Ids -> TransactionType] /\ Transactions(c, next)
      /\ c.transaction[i] \in TransactionType
  BY CacheParts
<1>2. next # i /\ c.transaction[next].state = "gone"
  BY <1>1 DEF Transactions, IsOpen
<1>3. d = [block |-> bl, transaction |-> [c.transaction EXCEPT ![i] = t, ![next] = u],
           events |-> c.events]
  BY DEF DetachedSub
<1>4. q \in Int /\ k \in Int /\ zero \in Int
  <2>1. Discarded(c, i) \in SUBSET Blocks
    BY DEF Discarded, InTransaction
  <2>2. n \in Nat
    BY <2>1, FiniteBlocks
  <2> HIDE DEF n
  <2>3. QED
    BY <1>1, <2>2 DEF TransactionType
<1>5. bl = [b \in Blocks |-> IF c.block[b].transaction = i
                             THEN Detached(c.block[b], i, next) ELSE c.block[b]]
  BY DEF InTransaction
<1> HIDE DEF q, k, bl, zero
<1>6. t \in TransactionType /\ t.state = "closed" /\ t.num = q
  <2>1. c.transaction[i] \in TransactionType
    BY <1>1
  <2>2. QED
    BY <1>4, <2>1 DEF TransactionType
<1>7. u \in TransactionType /\ u.state = "open" /\ u.num = k /\ ~u.hasSub
  BY <1>4, GoneIs DEF TransactionType
<1> HIDE DEF t, u
<1>8. /\ d.transaction \in [Ids -> TransactionType]
      /\ d.transaction[i] = t /\ d.transaction[next] = u
      /\ \A j \in Ids : j \notin {i, next} => d.transaction[j] = c.transaction[j]
  BY <1>1, <1>2, <1>3, <1>6, <1>7
<1>9. d.block = bl /\ d = [block |-> d.block, transaction |-> d.transaction, events |-> c.events]
  BY <1>3
<1>10. QED
  BY <1>2, <1>5, <1>6, <1>7, <1>8, <1>9 DEF Renewed, IsOpen, q, k

\* cache_detach_sub_transaction() keeps the cache consistent.
LEMMA DetachedOK ==
    ASSUME NEW c, NEW next \in Nat, CacheOK(c, next), NEW i \in Ids, IsOpen(c, i),
           \A b \in InTransaction(c, i) : c.block[b].previous = NoId,
           Divided(c, i), next \in Ids,
           NEW hook \in BOOLEAN, NEW d, d = DetachedSub(c, i, next, hook)
    PROVE  CacheOK(d, next + 1)
<1>1. /\ d = [block |-> d.block, transaction |-> d.transaction, events |-> c.events]
      /\ d.block = [b \in Blocks |-> IF c.block[b].transaction = i
                                     THEN Detached(c.block[b], i, next) ELSE c.block[b]]
      /\ d.transaction \in [Ids -> TransactionType]
      /\ Renewed(c, d, i, next)
  BY DetachedParts
<1>2. /\ next # i /\ c.transaction[next].state = "gone"
      /\ d.transaction[i].state = "closed" /\ IsOpen(d, next)
      /\ d.transaction[i].num = c.transaction[i].main - Cardinality(Discarded(c, i))
      /\ d.transaction[next].num = c.transaction[i].sub
  BY <1>1 DEF Renewed
<1>3. ASSUME NEW j \in Ids, j \notin {i, next} PROVE d.transaction[j] = c.transaction[j]
  BY <1>1, <1>3 DEF Renewed
<1>4. ASSUME NEW b \in Blocks
      PROVE  /\ c.block[b] \in BlockType /\ ShapeOf(c, c.block[b])
             /\ c.block[b].transaction = i => /\ c.block[b].previous = NoId
                                              /\ DividedBlock(c.block[b])
             /\ c.block[b].transaction \in {NoId, i}
             /\ c.block[b].previous \notin {i, next}
  <2>1. c.block[b] \in BlockType /\ ShapeOf(c, c.block[b]) /\ Transactions(c, next)
    BY CacheParts
  <2>2. c.block[b].transaction = i => /\ c.block[b].previous = NoId
                                      /\ DividedBlock(c.block[b])
    BY DEF InTransaction, Divided
  <2>3. c.block[b].transaction \in {NoId, i}
    BY <2>1 DEF BlockType, ShapeOf, Transactions, IsOpen
  <2>4. c.block[b].previous \notin {i, next}
    BY <1>2, <2>1 DEF ShapeOf, IsOpen
  <2>5. QED
    BY <2>1, <2>2, <2>3, <2>4
<1>5. ASSUME NEW b \in Blocks
      PROVE  /\ d.block[b] \in BlockType /\ ShapeOf(d, d.block[b])
             /\ d.block[b].transaction =
                    IF c.block[b].transaction # i THEN NoId
                    ELSE IF c.block[b].discard \/ c.block[b].parent = Current
                    THEN NoId ELSE next
             /\ d.block[b].previous =
                    IF c.block[b].transaction # i THEN c.block[b].previous
                    ELSE IF c.block[b].discard \/ c.block[b].parent = NoData
                    THEN NoId ELSE i
  <2>1. CASE c.block[b].transaction = i
    <3>1. d.block[b] = Detached(c.block[b], i, next)
      BY <1>1, <2>1
    <3>2. /\ c.block[b] \in BlockType /\ ShapeOf(c, c.block[b])
          /\ c.block[b].previous = NoId /\ DividedBlock(c.block[b])
      BY <1>4, <2>1
    <3>3. PICK r \in BlockType : r = c.block[b]
      BY <3>2
    <3>4. /\ Detached(r, i, next) \in BlockType /\ ShapeOf(d, Detached(r, i, next))
          /\ Detached(r, i, next).transaction =
                   IF r.discard \/ r.parent = Current THEN NoId ELSE next
          /\ Detached(r, i, next).previous =
                   IF r.discard \/ r.parent = NoData THEN NoId ELSE i
      <4>1. ShapeOf(c, r) /\ r.transaction = i /\ r.previous = NoId /\ DividedBlock(r)
        BY <2>1, <3>2, <3>3
      <4>2. d.transaction[i].state = "closed" /\ IsOpen(d, next) /\ next \in Ids
        BY <1>2
      <4>3. QED
        BY <4>1, <4>2, DetachedIs
    <3>5. QED
      BY <2>1, <3>1, <3>3, <3>4
  <2>2. CASE c.block[b].transaction = NoId
    <3>1. d.block[b] = c.block[b] /\ c.block[b] \in BlockType /\ ShapeOf(c, c.block[b])
      BY <1>1, <1>4, <2>2
    <3>2. c.block[b].previous # NoId => d.transaction[c.block[b].previous].state = "closed"
      BY <1>3, <1>4 DEF ShapeOf, BlockType
    <3>3. ShapeOf(d, c.block[b])
      BY <2>2, <3>1, <3>2, ShapeFrame
    <3>4. QED
      BY <2>2, <3>1, <3>3
  <2>3. QED
    BY <1>4, <2>1, <2>2
<1>6. d \in CacheType
  <2>1. d.block \in [Blocks -> BlockType]
    BY <1>1, <1>5
  <2>2. c.events \in Seq(Ids \cup {Sync})
    BY CacheParts
  <2>3. QED
    BY <1>1, <2>1, <2>2 DEF CacheType
<1>7. Transactions(d, next + 1)
  <2>1. Transactions(c, next) /\ c.events \in Seq(Ids \cup {Sync}) /\ d.events = c.events
    BY <1>1, CacheParts
  <2>2. \A j \in Ids : j \notin {i, next} => /\ d.transaction[j].state = c.transaction[j].state
                                             /\ d.transaction[j].num = c.transaction[j].num
    BY <1>3
  <2>3. ASSUME NEW k \in 1..Len(d.events), d.events[k] # Sync
        PROVE  d.events[k] < next + 1 /\ d.transaction[d.events[k]].state = "gone"
    <3>1. /\ c.events[k] \in Ids
          /\ c.events[k] < next /\ c.transaction[c.events[k]].state = "gone"
      BY <2>1, <2>3 DEF Transactions
    <3>4. c.events[k] \in Nat /\ c.events[k] # i
      BY <3>1 DEF IsOpen
    <3>2. c.events[k] \in Nat /\ c.events[k] \notin {i, next}
      BY <3>1, <3>4
    <3>3. QED
      BY <2>1, <2>2, <3>1, <3>2
  <2>4. \A j \in Ids : d.transaction[j].state = "gone" => d.transaction[j].num = 0
    BY <1>2, <2>1, <2>2 DEF Transactions, IsOpen
  <2>5. ASSUME NEW j \in Ids, j >= next + 1 PROVE d.transaction[j].state = "gone"
    <3>1. j \in Nat /\ j >= next /\ j # next
      BY <2>5
    <3>2. c.transaction[j].state = "gone"
      BY <2>1, <3>1 DEF Transactions
    <3>3. j # i
      BY <3>2 DEF IsOpen
    <3>4. QED
      BY <2>2, <3>1, <3>2, <3>3
  <2>6. \A j \in Ids : IsOpen(d, j) => j = next
    BY <1>2, <2>1, <2>2 DEF Transactions, IsOpen
  <2>7. QED
    BY <2>3, <2>4, <2>5, <2>6 DEF Transactions
<1>8. /\ InPrevious(d, i) = (MainPart(c, i) \cup Discarded(c, i)) \ Discarded(c, i)
      /\ InTransaction(d, next) = SubPart(c, i)
      /\ \A j \in Ids : j # i => InPrevious(d, j) = InPrevious(c, j)
  <2> DEFINE D(b) == c.block[b].transaction = i /\ ~c.block[b].discard
  <2>1. \A b \in Blocks : d.block[b].previous = i <=> D(b) /\ c.block[b].parent # NoData
    BY <1>4, <1>5
  <2>2. \A b \in Blocks : d.block[b].transaction = next <=> D(b) /\ c.block[b].parent # Current
    BY <1>2, <1>4, <1>5
  <2>3. InPrevious(d, i) = (MainPart(c, i) \cup Discarded(c, i)) \ Discarded(c, i)
    BY <2>1 DEF InPrevious, MainPart, Discarded, InTransaction
  <2>4. InTransaction(d, next) = SubPart(c, i)
    BY <2>2 DEF SubPart, InTransaction
  <2>5. ASSUME NEW j \in Ids, j # i PROVE InPrevious(d, j) = InPrevious(c, j)
    <3>1. \A b \in Blocks : d.block[b].previous = j <=> c.block[b].previous = j
      BY <1>4, <1>5, <2>5
    <3>2. QED
      BY <3>1 DEF InPrevious
  <2>6. QED
    BY <2>3, <2>4, <2>5
<1>9. Counts(d)
  <2>1. /\ Discarded(c, i) \in SUBSET Blocks /\ MainPart(c, i) \cup Discarded(c, i) \in SUBSET Blocks
        /\ (MainPart(c, i) \cup Discarded(c, i)) \cap Discarded(c, i) = Discarded(c, i)
    BY DEF Discarded, MainPart, InTransaction
  <2>2. Cardinality((MainPart(c, i) \cup Discarded(c, i)) \ Discarded(c, i)) =
            Cardinality(MainPart(c, i) \cup Discarded(c, i)) - Cardinality(Discarded(c, i))
    <3> DEFINE M == MainPart(c, i) \cup Discarded(c, i)
               X == Discarded(c, i)
    <3>1. M \in SUBSET Blocks /\ M \cap X = X
      BY <2>1
    <3> HIDE DEF M, X
    <3>2. Cardinality(M \ X) = Cardinality(M) - Cardinality(X)
      BY <3>1, FiniteBlocks, FS_Difference
    <3>3. QED
      BY <3>2 DEF M, X
  <2>3. d.transaction[i].num = Cardinality(InPrevious(d, i))
    BY <1>2, <1>8, <2>2 DEF Divided
  <2>4. d.transaction[next].num = Cardinality(InTransaction(d, next))
    BY <1>2, <1>8 DEF Divided
  <2>5. ASSUME NEW j \in Ids, j \notin {i, next}
        PROVE  /\ ~IsOpen(d, j)
               /\ d.transaction[j].state = "closed" =>
                    d.transaction[j].num = Cardinality(InPrevious(d, j))
    <3>1. /\ d.transaction[j].state = c.transaction[j].state
          /\ d.transaction[j].num = c.transaction[j].num
          /\ InPrevious(d, j) = InPrevious(c, j)
      BY <1>3, <1>8, <2>5
    <3>2. Counts(c) /\ Transactions(c, next)
      BY CacheParts
    <3>3. QED
      BY <2>5, <3>1, <3>2 DEF Counts, Transactions, IsOpen
  <2>6. QED
    BY <1>2, <2>3, <2>4, <2>5 DEF Counts, IsOpen
<1>10. QED
  BY <1>5, <1>6, <1>7, <1>9 DEF CacheOK, Shape

\* A change of one block that leaves its transactions alone keeps the cache consistent.
LEMMA OneBlockOK ==
    ASSUME NEW c, NEW next \in Nat, CacheOK(c, next), NEW b \in Blocks,
           NEW s \in BlockType, ShapeOf(c, s),
           s.previous = c.block[b].previous, s.transaction = c.block[b].transaction,
           NEW d, d = [block |-> [c.block EXCEPT ![b] = s], transaction |-> c.transaction,
                       events |-> c.events]
    PROVE  CacheOK(d, next)
<1>1. /\ c.block \in [Blocks -> BlockType] /\ c.transaction \in [Ids -> TransactionType]
      /\ c.events \in Seq(Ids \cup {Sync})
  BY CacheParts
<1>2. /\ d.block = [c.block EXCEPT ![b] = s] /\ d.transaction = c.transaction
      /\ d.events = c.events /\ d \in CacheType
  BY <1>1 DEF CacheType
<1>3. \A x \in Blocks : d.block[x] = IF x = b THEN s ELSE c.block[x]
  BY <1>1, <1>2
<1>4. Shape(d)
  <2> SUFFICES ASSUME NEW x \in Blocks PROVE ShapeOf(d, d.block[x])
    BY DEF Shape
  <2>1. ShapeOf(c, d.block[x])
    BY <1>3, CacheParts
  <2>2. QED
    BY <1>2, <2>1 DEF ShapeOf, IsOpen
<1>5. \A i \in Ids : InTransaction(d, i) = InTransaction(c, i) /\ InPrevious(d, i) = InPrevious(c, i)
  BY <1>3 DEF InTransaction, InPrevious
<1>6. Transactions(d, next) /\ Counts(d)
  <2>1. Transactions(c, next) /\ Counts(c)
    BY CacheParts
  <2>2. QED
    BY <1>2, <1>5, <2>1 DEF Transactions, Counts, IsOpen
<1>7. QED
  BY <1>2, <1>4, <1>6 DEF CacheOK

\* block_cache_discard() keeps the cache consistent.
LEMMA DiscardOK ==
    ASSUME NEW c, NEW next \in Nat, CacheOK(c, next), NEW b \in Blocks,
           c.block[b].previous = NoId, NEW d, d = Discard(c, b)
    PROVE  CacheOK(d, next)
<1> DEFINE r == c.block[b]
           s == CASE ~r.cached -> r
                  [] r.unused  -> Absent
                  [] OTHER     -> [r EXCEPT !.discard = TRUE]
<1>1. r \in BlockType /\ ShapeOf(c, r) /\ r.previous = NoId /\ c \in CacheType
      /\ c.block \in [Blocks -> BlockType]
  BY CacheParts DEF CacheOK
<1>2. d = [c EXCEPT !.block = [@ EXCEPT ![b] = s]]
  BY DEF Discard
<1>3. /\ s \in BlockType /\ ShapeOf(c, s) /\ s.previous = NoId
      /\ s.transaction = r.transaction
  <2>1. CASE ~r.cached
    <3>0. ~r.unused
      BY <1>1, <2>1 DEF ShapeOf, Absent, NewBlock
    <3>1. s = r
      BY <2>1, <3>0
    <3> HIDE DEF s, r
    <3>2. QED
      BY <1>1, <3>1
  <2>2. CASE r.cached /\ r.unused
    <3>1. s = Absent
      BY <2>2
    <3> HIDE DEF s
    <3>2. r.transaction = NoId
      BY <1>1, <2>2 DEF ShapeOf
    <3>3. QED
      BY <3>1, <3>2, AbsentIs
  <2>3. CASE r.cached /\ ~r.unused
    <3>1. s = [r EXCEPT !.discard = TRUE]
      BY <2>3
    <3> HIDE DEF s, r
    <3>2. QED
      BY <1>1, <2>3, <3>1 DEF BlockType, ShapeOf, IsOpen, Absent, NewBlock
  <2>4. QED
    BY <2>1, <2>2, <2>3
<1> HIDE DEF s
<1>4. d = [block |-> [c.block EXCEPT ![b] = s], transaction |-> c.transaction,
           events |-> c.events]
  BY <1>1, <1>2 DEF CacheType
<1>5. QED
  BY <1>1, <1>3, <1>4, OneBlockOK

\* While a transaction is open, it is the only one with blocks in its list.
LEMMA OnlyOpen ==
    ASSUME NEW c, NEW next, CacheOK(c, next), NEW i \in Ids, IsOpen(c, i), NEW b \in Blocks
    PROVE  c.block[b].transaction \in {NoId, i} /\ c.block[b].previous # i
<1>1. c.block[b] \in BlockType /\ ShapeOf(c, c.block[b]) /\ Transactions(c, next)
  BY CacheParts
<1>2. QED
  BY <1>1 DEF BlockType, ShapeOf, Transactions, IsOpen

\* A change of blocks and of the open transaction that does not touch what ended
\* transactions have left keeps the cache consistent.
LEMMA OneTransactionOK ==
    ASSUME NEW c, NEW next \in Nat, CacheOK(c, next), NEW i \in Ids, IsOpen(c, i),
           NEW d, d.transaction \in [Ids -> TransactionType], d.events = c.events,
           \A j \in Ids : j # i => d.transaction[j] = c.transaction[j],
           d = [block |-> d.block, transaction |-> d.transaction, events |-> d.events],
           d.block \in [Blocks -> BlockType], Shape(d),
           \A b \in Blocks : /\ d.block[b].previous = c.block[b].previous
                             /\ d.block[b].transaction \in {NoId, i},
           \/ IsOpen(d, i) /\ d.transaction[i].num = Cardinality(InTransaction(d, i))
           \/ d.transaction[i].state = "gone" /\ d.transaction[i].num = 0
    PROVE  CacheOK(d, next)
<1>1. /\ c.transaction \in [Ids -> TransactionType] /\ c.events \in Seq(Ids \cup {Sync})
      /\ Transactions(c, next) /\ Counts(c)
  BY CacheParts
<1>2. d \in CacheType
  BY <1>1 DEF CacheType
<1>4. \A j \in Ids : j # i => /\ d.transaction[j].state = c.transaction[j].state
                             /\ d.transaction[j].num = c.transaction[j].num
                             /\ ~IsOpen(c, j)
  BY <1>1 DEF Transactions
<1>5. \A j \in Ids : InPrevious(d, j) = InPrevious(c, j)
  BY DEF InPrevious
<1>6. Transactions(d, next)
  <2>1. ASSUME NEW k \in 1..Len(d.events), d.events[k] # Sync
        PROVE  d.events[k] < next /\ d.transaction[d.events[k]].state = "gone"
    <3>1. /\ c.events[k] \in Ids
          /\ c.events[k] < next /\ c.transaction[c.events[k]].state = "gone"
      BY <1>1, <2>1 DEF Transactions
    <3>2. c.events[k] # i
      BY <3>1 DEF IsOpen
    <3>3. QED
      BY <1>4, <3>1, <3>2
  <2>2. ASSUME NEW j \in Ids, j >= next PROVE d.transaction[j].state = "gone"
    <3>1. c.transaction[j].state = "gone"
      BY <1>1, <2>2 DEF Transactions
    <3>2. QED
      BY <1>4, <3>1 DEF IsOpen
  <2>3. ASSUME NEW j \in Ids, d.transaction[j].state = "gone" PROVE d.transaction[j].num = 0
    BY <1>1, <1>4, <2>3 DEF Transactions, IsOpen
  <2>4. ASSUME NEW j \in Ids, IsOpen(d, j) PROVE j = i
    BY <1>4, <2>4 DEF IsOpen
  <2>5. QED
    BY <2>1, <2>2, <2>3, <2>4 DEF Transactions
<1>7. Counts(d)
  <2> SUFFICES ASSUME NEW j \in Ids
               PROVE  /\ IsOpen(d, j) =>
                            d.transaction[j].num = Cardinality(InTransaction(d, j))
                      /\ d.transaction[j].state = "closed" =>
                            d.transaction[j].num = Cardinality(InPrevious(d, j))
    BY DEF Counts
  <2>1. CASE j = i
    BY <2>1 DEF IsOpen
  <2>2. CASE j # i
    BY <1>1, <1>4, <1>5, <2>2 DEF Counts, IsOpen
  <2>3. QED
    BY <2>1, <2>2
<1>8. QED
  BY <1>2, <1>6, <1>7 DEF CacheOK

-----------------------------------------------------------------------------
(***************************************************************************)
(* The first inductive invariant: the cache is consistent, marked blocks   *)
(* may be written and are marked by one writer, and the call in progress   *)
(* finds its transaction as it was when it let go of the lock.             *)
(***************************************************************************)
OtherTypes ==
    /\ notifying \in Ids \cup {NoId}
    /\ toWrite \in [Writers -> SUBSET Blocks] /\ written \in [Writers -> SUBSET Blocks]
    /\ disk \in [Blocks -> Values]

Types == nextId \in Nat /\ call \in CallType /\ OtherTypes

\* Only a client that waits for notifications has asked for one, and only for one.
SyncOK ==
    /\ \A k \in 1..Len(events) : events[k] = Sync => call.op = "wait"
    /\ \A k, l \in 1..Len(events) : events[k] = Sync /\ events[l] = Sync => k = l

Loose(r) == r.transaction = NoId /\ r.previous = NoId

Disjoint ==
    /\ Busy("client") \cap Busy("background") = {}
    /\ Busy("client") \cap Busy("memory") = {}
    /\ Busy("background") \cap Busy("memory") = {}

\* A block that is written to be dropped belongs to no transaction.
WritersOK ==
    /\ Disjoint
    /\ \A b \in BusyWriting : MayBeWritten(block[b])
    /\ \A b \in Busy("memory") : Loose(block[b])

\* A call that has let go of the lock: its transaction is still open, and only blocks the
\* call itself writes wait for an earlier transaction.
Closing(c, next, op, i, B) ==
    /\ i \in Ids /\ IsOpen(c, i)
    /\ \A b \in InTransaction(c, i) : c.block[b].previous # NoId => b \in B
    /\ op = "detach" => next \in Ids /\ c.transaction[i].hasSub /\ Divided(c, i)

CallOK ==
    /\ Busy("client") # {} <=> call.op \in {"end", "detach", "discard", "sync"}
    /\ Committing(call.op) => Closing(Cache, nextId, call.op, call.arg, Busy("client"))
    /\ call.op = "discard" => call.arg \in Busy("client")

\* The transaction whose hook runs is gone, and its id is not used again.
Notified == notifying # NoId => notifying < nextId /\ transaction[notifying].state = "gone"

Inv1 == Types /\ CacheOK(Cache, nextId) /\ SyncOK /\ WritersOK /\ CallOK /\ Notified

-----------------------------------------------------------------------------
(* What the client's operations make of one block *)

StartedSub(r) == IF r.discard
                 THEN [r EXCEPT !.parent = NoData, !.original = NoData, !.current = Undo(r)]
                 ELSE [r EXCEPT !.parent = Current]

\* A block of the transaction after cache_start_sub_transaction(), field by field.
LEMMA StartedSubIs ==
    ASSUME NEW c, NEW r \in BlockType, ShapeOf(c, r), r.transaction # NoId,
           NEW s, s = StartedSub(r)
    PROVE  /\ s \in BlockType /\ s.transaction = r.transaction /\ s.previous = r.previous
           /\ s.cached = r.cached /\ s.discard = r.discard /\ s.unused = r.unused
           /\ s.dirty = r.dirty
           /\ s.parent = IF r.discard THEN NoData ELSE Current
           /\ s.original = IF r.discard THEN NoData ELSE r.original
           /\ s.current = IF r.discard THEN Undo(r) ELSE r.current
           /\ \A d : IsOpen(d, r.transaction) /\ d.transaction[r.transaction].hasSub
                     /\ (r.previous # NoId => d.transaction[r.previous].state = "closed")
                        => ShapeOf(d, s)
<1>1. Undo(r) \in Values \cup {NoData}
  BY DEF Undo, BlockType
<1>2. CASE r.discard
  <2>1. s = [r EXCEPT !.parent = NoData, !.original = NoData, !.current = Undo(r)]
    BY <1>2 DEF StartedSub
  <2>2. r.cached => Undo(r) # NoData
    BY DEF Undo, ShapeOf
  <2>3. QED
    BY <1>1, <1>2, <2>1, <2>2, ZenonT(30) DEF BlockType, ShapeOf, Absent, NewBlock
<1>3. CASE ~r.discard
  <2>1. s = [r EXCEPT !.parent = Current]
    BY <1>3 DEF StartedSub
  <2>2. QED
    BY <1>3, <2>1 DEF BlockType, ShapeOf, Absent, NewBlock
<1>4. QED
  BY <1>2, <1>3

AbortedBlock(r) ==
    [r EXCEPT !.current = Undo(r), !.original = NoData, !.parent = NoData,
              !.transaction = NoId, !.discard = FALSE, !.dirty = r.dirty /\ r.previous # NoId]

\* A block of the transaction after cache_abort_transaction(), field by field.
LEMMA AbortedIs ==
    ASSUME NEW c, NEW r \in BlockType, ShapeOf(c, r), r.transaction # NoId,
           NEW s, s = AbortedBlock(r)
    PROVE  /\ s \in BlockType /\ s.transaction = NoId /\ s.previous = r.previous
           /\ s.cached = r.cached /\ ~s.discard /\ s.unused = r.unused
           /\ s.dirty = (r.dirty /\ r.previous # NoId)
           /\ s.parent = NoData /\ s.original = NoData /\ s.current = Undo(r)
           /\ \A d : (r.previous # NoId => d.transaction[r.previous].state = "closed")
                        => ShapeOf(d, s)
<1>1. Undo(r) \in Values \cup {NoData} /\ (r.cached => Undo(r) # NoData)
  BY DEF Undo, BlockType, ShapeOf
<1>2. (r.dirty /\ r.previous # NoId) \in BOOLEAN
  OBVIOUS
<1>3. /\ s \in BlockType /\ s.transaction = NoId /\ s.previous = r.previous
      /\ s.cached = r.cached /\ ~s.discard /\ s.unused = r.unused
      /\ s.dirty = (r.dirty /\ r.previous # NoId)
      /\ s.parent = NoData /\ s.original = NoData /\ s.current = Undo(r)
  BY <1>1, <1>2 DEF AbortedBlock, BlockType
<1>4. r.cached /\ ~r.unused
  BY DEF ShapeOf, Absent, NewBlock
<1>5. QED
  BY <1>1, <1>3, <1>4 DEF ShapeOf

LeftBlock(r) ==
    [r EXCEPT !.current = Undo(r), !.transaction = NoId, !.discard = FALSE,
              !.original = IF r.previous = NoId THEN NoData ELSE r.original,
              !.dirty = r.dirty /\ r.previous # NoId,
              !.unused = r.unused \/ r.previous = NoId]

\* A block that only the sub transaction had changed after cache_abort_sub_transaction().
LEMMA LeftIs ==
    ASSUME NEW c, NEW r \in BlockType, ShapeOf(c, r), r.transaction # NoId,
           r.parent = NoData, NEW s, s = LeftBlock(r)
    PROVE  /\ s \in BlockType /\ s.transaction = NoId /\ s.previous = r.previous
           /\ s.cached = r.cached /\ ~s.discard /\ s.unused = (r.previous = NoId)
           /\ s.dirty = (r.dirty /\ r.previous # NoId)
           /\ s.parent = NoData /\ s.current = Undo(r)
           /\ s.original = IF r.previous = NoId THEN NoData ELSE r.original
           /\ \A d : (r.previous # NoId => d.transaction[r.previous].state = "closed")
                        => ShapeOf(d, s)
<1> DEFINE o == IF r.previous = NoId THEN NoData ELSE r.original
           u == r.unused \/ r.previous = NoId
           y == r.dirty /\ r.previous # NoId
<1>1. Undo(r) \in Values \cup {NoData} /\ (r.cached => Undo(r) # NoData)
  BY DEF Undo, BlockType, ShapeOf
<1>2. u \in BOOLEAN /\ y \in BOOLEAN /\ o \in Values \cup {NoData}
  BY DEF BlockType
<1>3. r.cached /\ ~r.unused
  BY DEF ShapeOf, Absent, NewBlock
<1>4. /\ s \in BlockType /\ s.transaction = NoId /\ s.previous = r.previous
      /\ s.cached = r.cached /\ ~s.discard /\ s.unused = u /\ s.dirty = y
      /\ s.parent = NoData /\ s.current = Undo(r) /\ s.original = o
  <2>1. s = [r EXCEPT !.current = Undo(r), !.transaction = NoId, !.discard = FALSE,
                      !.original = o, !.dirty = y, !.unused = u]
    BY DEF LeftBlock
  <2> HIDE DEF o, u, y
  <2>2. QED
    BY <1>1, <1>2, <2>1 DEF BlockType
<1>5. u = (r.previous = NoId)
  BY <1>3
<1>6. \A d : (r.previous # NoId => d.transaction[r.previous].state = "closed")
                  => ShapeOf(d, s)
  BY <1>1, <1>3, <1>4, <1>5 DEF ShapeOf, Undo
<1>7. QED
  BY <1>4, <1>5, <1>6

RestoredBlock(r) == [r EXCEPT !.current = IF r.parent # Current THEN r.parent ELSE r.current,
                              !.parent = NoData, !.discard = FALSE]

\* A block that the parent had changed as well after cache_abort_sub_transaction().
LEMMA RestoredIs ==
    ASSUME NEW c, NEW r \in BlockType, ShapeOf(c, r), r.transaction # NoId,
           r.parent # NoData, NEW s, s = RestoredBlock(r)
    PROVE  /\ s \in BlockType /\ s.transaction = r.transaction /\ s.previous = r.previous
           /\ s.cached = r.cached /\ ~s.discard /\ s.unused = r.unused
           /\ s.dirty = r.dirty /\ s.original = r.original
           /\ s.parent = NoData
           /\ s.current = IF r.parent # Current THEN r.parent ELSE r.current
           /\ \A d : IsOpen(d, r.transaction)
                     /\ (r.previous # NoId => d.transaction[r.previous].state = "closed")
                        => ShapeOf(d, s)
<1> DEFINE v == IF r.parent # Current THEN r.parent ELSE r.current
<1>1. v \in Values \cup {NoData} /\ (r.cached => v # NoData)
  BY DEF BlockType, ShapeOf
<1>2. r.cached /\ ~r.unused
  BY DEF ShapeOf, Absent, NewBlock
<1>3. /\ s \in BlockType /\ s.transaction = r.transaction /\ s.previous = r.previous
      /\ s.cached = r.cached /\ ~s.discard /\ s.unused = r.unused
      /\ s.dirty = r.dirty /\ s.original = r.original
      /\ s.parent = NoData /\ s.current = v
  <2>1. s = [r EXCEPT !.current = v, !.parent = NoData, !.discard = FALSE]
    BY DEF RestoredBlock
  <2> HIDE DEF v
  <2>2. QED
    BY <1>1, <2>1 DEF BlockType
<1> HIDE DEF v
<1>4. ASSUME NEW d, IsOpen(d, r.transaction),
             r.previous # NoId => d.transaction[r.previous].state = "closed"
      PROVE  ShapeOf(d, s)
  BY <1>1, <1>2, <1>3, <1>4 DEF ShapeOf
<1>5. QED
  BY <1>3, <1>4 DEF v

WrittenBlock(r, isNew, i, data) ==
    [Copied(r, isNew) EXCEPT !.transaction = i, !.current = data, !.dirty = TRUE,
                             !.discard = FALSE, !.unused = FALSE]

\* A block as it is found is the one in the cache, or a new one.
LEMMA FoundIs ==
    ASSUME NEW b \in Blocks, block[b] \in BlockType, ShapeOf(Cache, block[b]),
           disk[b] \in Values, NEW cleared \in BOOLEAN, NEW r, r = Found(b, cleared)
    PROVE  /\ r \in BlockType /\ r.cached
           /\ block[b].cached => r = block[b]
           /\ ~block[b].cached =>
                /\ block[b] = Absent
                /\ r.current = IF cleared THEN NoData ELSE disk[b]
                /\ r.original = NoData /\ r.parent = NoData /\ r.transaction = NoId
                /\ r.previous = NoId /\ ~r.dirty /\ ~r.discard /\ ~r.unused
<1>1. CASE block[b].cached
  BY <1>1 DEF Found
<1>2. CASE ~block[b].cached
  <2> DEFINE v == IF cleared THEN NoData ELSE disk[b]
  <2>1. v \in Values \cup {NoData} /\ r = NewBlock(v)
    BY <1>2 DEF Found
  <2> HIDE DEF v
  <2>2. block[b] = Absent
    BY <1>2 DEF ShapeOf
  <2>3. QED
    BY <1>2, <2>1, <2>2 DEF NewBlock, BlockType, v
<1>3. QED
  BY <1>1, <1>2

\* A block after get_writable_cached_block(), field by field.
LEMMA WrittenIs ==
    ASSUME NEW r \in BlockType, NEW isNew \in BOOLEAN, NEW i \in Ids, NEW data \in Values,
           NEW s, s = WrittenBlock(r, isNew, i, data)
    PROVE  /\ s \in BlockType /\ s.transaction = i /\ s.previous = r.previous
           /\ s.cached = r.cached /\ ~s.discard /\ ~s.unused /\ s.dirty
           /\ s.current = data
           /\ s.original = IF r.original = NoData /\ ~isNew THEN r.current ELSE r.original
           /\ s.parent = IF r.parent = Current THEN r.current ELSE r.parent
<1> DEFINE o == IF r.original = NoData /\ ~isNew THEN r.current ELSE r.original
           p == IF r.parent = Current THEN r.current ELSE r.parent
           t == Copied(r, isNew)
<1>1. o \in Values \cup {NoData} /\ p \in Values \cup {NoData, Current}
  BY DEF BlockType
<1>2. t = [r EXCEPT !.original = o, !.parent = p]
  BY DEF Copied
<1>3. s = [t EXCEPT !.transaction = i, !.current = data, !.dirty = TRUE,
                    !.discard = FALSE, !.unused = FALSE]
  BY DEF WrittenBlock
<1> HIDE DEF o, p, t
<1>4. /\ t \in BlockType /\ t.original = o /\ t.parent = p
      /\ t.previous = r.previous /\ t.cached = r.cached
  BY <1>1, <1>2 DEF BlockType
<1>5. /\ s \in BlockType /\ s.original = o /\ s.parent = p /\ s.transaction = i
      /\ s.previous = r.previous /\ s.cached = r.cached /\ ~s.discard /\ ~s.unused /\ s.dirty
      /\ s.current = data
  BY <1>3, <1>4 DEF BlockType
<1>6. QED
  BY <1>5 DEF o, p

-----------------------------------------------------------------------------
(* The client's operations that keep the lock *)

\* What Inv1 says, taken apart.
LEMMA InvParts ==
    ASSUME Inv1
    PROVE  /\ CacheOK(Cache, nextId) /\ Types /\ nextId \in Nat
           /\ Cache.block = block /\ Cache.transaction = transaction /\ Cache.events = events
           /\ block \in [Blocks -> BlockType] /\ transaction \in [Ids -> TransactionType]
           /\ events \in Seq(Ids \cup {Sync})
           /\ \A b \in Blocks : block[b] \in BlockType /\ ShapeOf(Cache, block[b])
           /\ \A i \in Ids : /\ transaction[i] \in TransactionType
                             /\ IsOpen(Cache, i) <=> Open(i)
<1>1. CacheOK(Cache, nextId) /\ Types /\ nextId \in Nat
  BY DEF Inv1, Types
<1>2. Cache.block = block /\ Cache.transaction = transaction /\ Cache.events = events
  BY DEF Cache
<1>3. QED
  BY <1>1, <1>2, CacheParts DEF IsOpen, Open

\* A step of the client that leaves writers and events alone: what has to be shown.
LEMMA ClientFrame ==
    ASSUME Inv1, Idle, Types', CacheOK(Cache, nextId)', nextId <= nextId',
           UNCHANGED <<events, notifying, toWrite, written, call>>,
           \A b \in BusyWriting :
                MayBeWritten(block[b])' /\ (Loose(block[b]) => Loose(block[b])'),
           \A i \in Ids : i < nextId /\ transaction[i].state = "gone" =>
                              transaction'[i].state = "gone"
    PROVE  Inv1'
<1>1. /\ SyncOK' /\ Busy("client")' = Busy("client")
      /\ Busy("background")' = Busy("background") /\ Busy("memory")' = Busy("memory")
  BY DEF Inv1, SyncOK, Busy
<1>2. BusyWriting' = BusyWriting
  BY <1>1 DEF BusyWriting
<1>3. WritersOK'
  <2>1. Disjoint'
    BY <1>1 DEF Inv1, WritersOK, Disjoint
  <2>2. \A b \in Busy("memory") : b \in BusyWriting /\ Loose(block[b])
    BY DEF Inv1, WritersOK, BusyWriting
  <2>3. QED
    BY <1>1, <1>2, <2>1, <2>2 DEF WritersOK
<1>4. CallOK'
  <2>1. call.op = "none" /\ call' = call
    BY DEF Idle, NoCall
  <2>2. Busy("client") = {}
    BY <2>1 DEF Inv1, CallOK
  <2>3. QED
    BY <1>1, <2>1, <2>2 DEF CallOK, Committing
<1>5. Notified'
  <2>1. notifying' = notifying /\ notifying \in Ids \cup {NoId} /\ nextId \in Nat /\ nextId' \in Nat
    BY DEF Inv1, Types, OtherTypes
  <2>2. notifying # NoId => notifying < nextId /\ transaction[notifying].state = "gone"
    BY DEF Inv1, Notified
  <2>3. QED
    BY <2>1, <2>2 DEF Notified
<1>6. QED
  BY <1>1, <1>3, <1>4, <1>5 DEF Inv1


\* cache_start_transaction() keeps the first invariant.
LEMMA StartInv1 ==
    ASSUME Inv1, StartTransaction
    PROVE  Inv1'
<1>1. /\ Idle /\ BusyWriting = {} /\ nextId \in Ids /\ \A i \in Ids : ~Open(i)
      /\ transaction' = [transaction EXCEPT ![nextId] = [Gone EXCEPT !.state = "open"]]
      /\ nextId' = nextId + 1
      /\ UNCHANGED <<block, events, notifying, toWrite, written, call, disk>>
  BY DEF StartTransaction, TransactionLock
<1>2. Types'
  BY <1>1 DEF Inv1, Types, OtherTypes
<1> DEFINE t == [Gone EXCEPT !.state = "open"]
<1>3. t \in TransactionType /\ t.state = "open" /\ t.num = 0
  BY GoneIs DEF TransactionType
<1> HIDE DEF t
<1>4. /\ CacheOK(Cache, nextId) /\ transaction \in [Ids -> TransactionType] /\ nextId \in Nat
      /\ Cache.block = block /\ Cache.transaction = transaction /\ Cache.events = events
      /\ Transactions(Cache, nextId) /\ Counts(Cache)
      /\ block \in [Blocks -> BlockType] /\ events \in Seq(Ids \cup {Sync})
  BY InvParts, CacheParts
<1>5. Cache' = [block |-> block, transaction |-> transaction', events |-> events]
      /\ (Cache').block = block /\ (Cache').transaction = transaction' /\ (Cache').events = events
  BY <1>1 DEF Cache
<1>6. /\ transaction' = [transaction EXCEPT ![nextId] = t] /\ transaction'[nextId] = t
      /\ \A i \in Ids : i # nextId => transaction'[i] = transaction[i]
      /\ transaction' \in [Ids -> TransactionType]
  BY <1>1, <1>3, <1>4 DEF t
<1>7. transaction[nextId].state = "gone"
  BY <1>1, <1>4 DEF Transactions
<1>8. CacheOK(Cache, nextId)'
  <2>1. Cache' \in CacheType
    BY <1>4, <1>5, <1>6 DEF CacheType
  <2>2. Shape(Cache')
    <3> SUFFICES ASSUME NEW b \in Blocks PROVE ShapeOf(Cache', block[b])
      BY <1>5 DEF Shape
    <3>1. block[b] \in BlockType /\ ShapeOf(Cache, block[b])
      BY InvParts
    <3>2. block[b].transaction = NoId
      BY <1>1, <1>4, <3>1 DEF BlockType, ShapeOf, Open, IsOpen
    <3>3. block[b].previous # NoId => transaction'[block[b].previous].state = "closed"
      BY <1>4, <1>6, <1>7, <3>1 DEF BlockType, ShapeOf
    <3>4. QED
      BY <1>5, <3>1, <3>2, <3>3, ShapeFrame
  <2>3. Transactions(Cache', nextId + 1)
    <3>1. \A i \in Ids : i # nextId => /\ transaction'[i].state = transaction[i].state
                                      /\ transaction'[i].num = transaction[i].num
      BY <1>6
    <3>2. ASSUME NEW k \in 1..Len(events), events[k] # Sync
          PROVE  events[k] < nextId + 1 /\ transaction'[events[k]].state = "gone"
      <4>1. events[k] \in Ids /\ events[k] < nextId /\ transaction[events[k]].state = "gone"
        BY <1>4, <3>2 DEF Transactions
      <4>2. events[k] \in Nat
        BY <4>1
      <4>3. QED
        BY <1>4, <3>1, <4>1, <4>2
    <3>3. ASSUME NEW i \in Ids, i >= nextId + 1 PROVE transaction'[i].state = "gone"
      <4>1. i \in Nat /\ i >= nextId /\ i # nextId
        BY <1>4, <3>3
      <4>2. QED
        BY <1>4, <3>1, <4>1 DEF Transactions
    <3>4. ASSUME NEW i \in Ids, transaction'[i].state = "gone" PROVE transaction'[i].num = 0
      BY <1>3, <1>4, <1>6, <3>1, <3>4 DEF Transactions
    <3>5. ASSUME NEW i \in Ids, transaction'[i].state = "open" PROVE i = nextId
      BY <1>1, <3>1, <3>5 DEF Open
    <3>6. QED
      BY <1>5, <3>2, <3>3, <3>4, <3>5 DEF Transactions, IsOpen
  <2>4. Counts(Cache')
    <3>1. \A i \in Ids : /\ InTransaction(Cache', i) = InTransaction(Cache, i)
                         /\ InPrevious(Cache', i) = InPrevious(Cache, i)
      BY <1>4, <1>5 DEF InTransaction, InPrevious
    <3>2. InTransaction(Cache, nextId) = {}
      BY <1>1, <1>4, <1>7, PointsTo DEF IsOpen
    <3>3. Cardinality(InTransaction(Cache', nextId)) = 0
      BY <1>1, <3>1, <3>2, FS_EmptySet
    <3> SUFFICES ASSUME NEW i \in Ids
                 PROVE  /\ transaction'[i].state = "open" =>
                              transaction'[i].num = Cardinality(InTransaction(Cache', i))
                        /\ transaction'[i].state = "closed" =>
                              transaction'[i].num = Cardinality(InPrevious(Cache', i))
      BY <1>5 DEF Counts, IsOpen
    <3>4. CASE i = nextId
      BY <1>3, <1>6, <3>3, <3>4
    <3>5. CASE i # nextId
      <4>1. transaction'[i] = transaction[i] /\ InTransaction(Cache', i) = InTransaction(Cache, i)
            /\ InPrevious(Cache', i) = InPrevious(Cache, i)
        BY <1>6, <3>1, <3>5
      <4>2. QED
        BY <1>4, <4>1 DEF Counts, IsOpen
    <3>6. QED
      BY <3>4, <3>5
  <2>5. QED
    BY <1>1, <2>1, <2>2, <2>3, <2>4 DEF CacheOK
<1>9. \A i \in Ids : i < nextId /\ transaction[i].state = "gone" => transaction'[i].state = "gone"
  BY <1>4, <1>6
<1>10. nextId <= nextId'
  BY <1>1, <1>4
<1>11. QED
  BY <1>1, <1>2, <1>8, <1>9, <1>10, ClientFrame

\* Updates of the fields of one transaction, for any values.
Updated(f, i, hasSub, num, main, sub) ==
    [f EXCEPT ![i] = [f[i] EXCEPT !.hasSub = hasSub, !.num = num, !.main = main, !.sub = sub]]

\* An updated transaction has the new values, the others stay.
LEMMA UpdatedTransaction ==
    ASSUME NEW f \in [Ids -> TransactionType], NEW i \in Ids, NEW hasSub \in BOOLEAN,
           NEW num \in Int, NEW main \in Int, NEW sub \in Int,
           NEW g, g = Updated(f, i, hasSub, num, main, sub)
    PROVE  /\ g \in [Ids -> TransactionType]
           /\ g[i].state = f[i].state /\ g[i].num = num /\ g[i].hasSub = hasSub
           /\ g[i].main = main /\ g[i].sub = sub
           /\ \A j \in Ids : j # i => g[j] = f[j]
<1> DEFINE t == [f[i] EXCEPT !.hasSub = hasSub, !.num = num, !.main = main, !.sub = sub]
<1>1. /\ t \in TransactionType /\ t.state = f[i].state /\ t.num = num /\ t.hasSub = hasSub
      /\ t.main = main /\ t.sub = sub
  <2>1. f[i] \in TransactionType
    OBVIOUS
  <2>2. QED
    BY <2>1 DEF TransactionType
<1>2. g = [f EXCEPT ![i] = t]
  BY DEF Updated
<1> HIDE DEF t
<1>3. QED
  BY <1>1, <1>2

\* The transactions after cache_start_sub_transaction().
LEMMA StartSubUpdates ==
    ASSUME Inv1, NEW i \in Ids, StartSubTransaction(i)
    PROVE  /\ transaction' \in [Ids -> TransactionType]
           /\ transaction'[i].state = transaction[i].state
           /\ transaction'[i].num = transaction[i].num /\ transaction'[i].hasSub
           /\ transaction'[i].main = transaction[i].num /\ transaction'[i].sub = 0
           /\ \A j \in Ids : j # i => transaction'[j] = transaction[j]
<1>1. transaction \in [Ids -> TransactionType] /\ transaction[i] \in TransactionType
  BY InvParts
<1>2. transaction' = [transaction EXCEPT ![i].hasSub = TRUE, ![i].sub = 0,
                                         ![i].main = transaction[i].num]
  BY DEF StartSubTransaction
<1> DEFINE z == 0
           y == TRUE
           n == transaction[i].num
<1>3. n \in Int /\ z \in Int /\ y \in BOOLEAN
  BY <1>1 DEF TransactionType
<1>4. transaction' = Updated(transaction, i, y, n, n, z)
  BY <1>1, <1>2 DEF TransactionType, Updated
<1> HIDE DEF z, y, n
<1>5. /\ transaction' \in [Ids -> TransactionType]
      /\ transaction'[i].state = transaction[i].state
      /\ transaction'[i].num = n /\ transaction'[i].hasSub = y
      /\ transaction'[i].main = n /\ transaction'[i].sub = z
      /\ \A j \in Ids : j # i => transaction'[j] = transaction[j]
  BY <1>1, <1>3, <1>4, UpdatedTransaction
<1>6. QED
  BY <1>5 DEF z, y, n

\* The transactions after get_writable_cached_block().
LEMMA WriteUpdates ==
    ASSUME Inv1, NEW i \in Ids, NEW b \in Blocks, NEW cleared \in BOOLEAN, NEW data,
           GetWritable(b, i, cleared, data)
    PROVE  /\ transaction' \in [Ids -> TransactionType]
           /\ transaction'[i].state = transaction[i].state
           /\ transaction'[i].num = IF Found(b, cleared).transaction = NoId
                                     THEN transaction[i].num + 1 ELSE transaction[i].num
           /\ transaction'[i].hasSub = transaction[i].hasSub
           /\ \A j \in Ids : j # i => transaction'[j] = transaction[j]
<1>1. transaction \in [Ids -> TransactionType] /\ transaction[i] \in TransactionType
  BY InvParts
<1> DEFINE n == IF Found(b, cleared).transaction = NoId
                THEN transaction[i].num + 1 ELSE transaction[i].num
<1>2. PICK s \in {transaction[i].sub, transaction[i].sub + 1} :
         transaction' = [transaction EXCEPT ![i].num = n, ![i].sub = s]
  <2> DEFINE r == Found(b, cleared)
             joins == r.transaction = NoId
             wasUnchanged == r.original = NoData \/ r.previous # NoId
             forParent == r.parent = Current
             forSub == transaction[i].hasSub /\ r.parent = NoData /\ wasUnchanged
  <2>1. transaction' = [transaction EXCEPT
            ![i].num = IF joins THEN @ + 1 ELSE @,
            ![i].sub = IF forParent \/ forSub THEN @ + 1 ELSE @]
    BY DEF GetWritable
  <2> HIDE DEF r, forParent, forSub
  <2>2. transaction' = [transaction EXCEPT
            ![i].num = IF joins THEN transaction[i].num + 1 ELSE transaction[i].num,
            ![i].sub = IF forParent \/ forSub THEN transaction[i].sub + 1
                                              ELSE transaction[i].sub]
    BY <1>1, <2>1
  <2>3. QED
    BY <2>2 DEF r
<1> DEFINE m == transaction[i].main
           h == transaction[i].hasSub
<1>3. n \in Int /\ s \in Int /\ m \in Int /\ h \in BOOLEAN
  BY <1>1 DEF TransactionType
<1> HIDE DEF n
<1>4. transaction' = Updated(transaction, i, h, n, m, s)
  BY <1>1, <1>2, <1>3 DEF TransactionType, Updated
<1> HIDE DEF m, h
<1>5. /\ transaction' \in [Ids -> TransactionType]
      /\ transaction'[i].state = transaction[i].state
      /\ transaction'[i].num = n /\ transaction'[i].hasSub = h
      /\ \A j \in Ids : j # i => transaction'[j] = transaction[j]
  BY <1>1, <1>3, <1>4, UpdatedTransaction
<1>6. QED
  BY <1>5 DEF n, h

\* What they count for the sub transaction.
LEMMA WriteCounts ==
    ASSUME Inv1, NEW i \in Ids, NEW b \in Blocks, NEW cleared \in BOOLEAN, NEW data,
           GetWritable(b, i, cleared, data), NEW r, r = Found(b, cleared)
    PROVE  /\ transaction'[i].main = transaction[i].main
           /\ transaction'[i].sub =
                IF \/ r.parent = Current
                   \/ /\ transaction[i].hasSub /\ r.parent = NoData
                      /\ r.original = NoData \/ r.previous # NoId
                THEN transaction[i].sub + 1 ELSE transaction[i].sub
<1>1. transaction \in [Ids -> TransactionType] /\ transaction[i] \in TransactionType
  BY InvParts
<1> DEFINE joins == r.transaction = NoId
           wasUnchanged == r.original = NoData \/ r.previous # NoId
           forParent == r.parent = Current
           forSub == transaction[i].hasSub /\ r.parent = NoData /\ wasUnchanged
<1>2. transaction' = [transaction EXCEPT
          ![i].num = IF joins THEN @ + 1 ELSE @,
          ![i].sub = IF forParent \/ forSub THEN @ + 1 ELSE @]
  BY DEF GetWritable
<1>3. PICK n, s : /\ n = IF joins THEN transaction[i].num + 1 ELSE transaction[i].num
                  /\ s = IF forParent \/ forSub THEN transaction[i].sub + 1
                                              ELSE transaction[i].sub
  OBVIOUS
<1> HIDE DEF joins, forParent, forSub, wasUnchanged
<1>4. transaction' = [transaction EXCEPT ![i].num = n, ![i].sub = s]
  BY <1>1, <1>2, <1>3
<1>5. transaction'[i].main = transaction[i].main /\ transaction'[i].sub = s
  BY <1>1, <1>4 DEF TransactionType
<1>6. QED
  BY <1>3, <1>5 DEF forParent, forSub, wasUnchanged

\* The transactions after cache_abort_sub_transaction().
LEMMA AbortSubUpdates ==
    ASSUME Inv1, NEW i \in Ids, AbortSubTransaction(i)
    PROVE  /\ transaction' \in [Ids -> TransactionType]
           /\ transaction'[i].state = transaction[i].state
           /\ transaction'[i].num = transaction[i].num
                - Cardinality({b \in InTransaction(Cache, i) : block[b].parent = NoData})
           /\ ~transaction'[i].hasSub
           /\ \A j \in Ids : j # i => transaction'[j] = transaction[j]
<1>1. transaction \in [Ids -> TransactionType] /\ transaction[i] \in TransactionType
  BY InvParts
<1> DEFINE leaving == {b \in InTransaction(Cache, i) : block[b].parent = NoData}
           n == transaction[i].num - Cardinality(leaving)
           m == transaction[i].main
           z == 0
           y == FALSE
<1>2. transaction' = [transaction EXCEPT ![i].num = n, ![i].hasSub = FALSE, ![i].sub = 0]
  <2>1. transaction' = [transaction EXCEPT ![i].num = @ - Cardinality(leaving),
                                           ![i].hasSub = FALSE, ![i].sub = 0]
    BY DEF AbortSubTransaction
  <2> HIDE DEF leaving
  <2>2. QED
    BY <1>1, <2>1
<1>3. n \in Int /\ m \in Int /\ z \in Int /\ y \in BOOLEAN
  <2>1. leaving \in SUBSET Blocks
    BY DEF InTransaction
  <2> HIDE DEF leaving
  <2>2. Cardinality(leaving) \in Nat
    BY <2>1, FiniteBlocks
  <2>3. QED
    BY <1>1, <2>2 DEF TransactionType
<1> HIDE DEF n
<1>4. transaction' = Updated(transaction, i, y, n, m, z)
  BY <1>1, <1>2, <1>3 DEF TransactionType, Updated
<1> HIDE DEF z, y, m
<1>5. /\ transaction' \in [Ids -> TransactionType]
      /\ transaction'[i].state = transaction[i].state
      /\ transaction'[i].num = n /\ transaction'[i].hasSub = y
      /\ \A j \in Ids : j # i => transaction'[j] = transaction[j]
  BY <1>1, <1>3, <1>4, UpdatedTransaction
<1>6. QED
  BY <1>5 DEF y, n

\* What OneTransactionOK() needs of a step of the client on the open transaction i.
LEMMA OpenStepOK ==
    ASSUME Inv1, NEW i \in Ids, Open(i),
           events' = events, nextId' = nextId,
           transaction' \in [Ids -> TransactionType],
           \A j \in Ids : j # i => transaction'[j] = transaction[j],
           block' \in [Blocks -> BlockType],
           \A b \in Blocks : /\ ShapeOf(Cache', block'[b])
                             /\ block'[b].previous = block[b].previous
                             /\ block'[b].transaction \in {NoId, i},
           \/ Open(i)' /\ transaction'[i].num =
                              Cardinality({b \in Blocks : block'[b].transaction = i})
           \/ transaction'[i].state = "gone" /\ transaction'[i].num = 0
    PROVE  CacheOK(Cache, nextId)'
<1>1. /\ CacheOK(Cache, nextId) /\ nextId \in Nat /\ IsOpen(Cache, i)
      /\ Cache.block = block /\ Cache.transaction = transaction /\ Cache.events = events
  BY InvParts
<1> DEFINE d == Cache'
<1>2. /\ d.block = block' /\ d.transaction = transaction' /\ d.events = events'
      /\ d = [block |-> d.block, transaction |-> d.transaction, events |-> d.events]
  BY DEF Cache
<1> HIDE DEF d
<1>3. Shape(d)
  BY <1>2 DEF Shape, d
<1>4. {b \in Blocks : block'[b].transaction = i} = InTransaction(d, i)
  BY <1>2 DEF InTransaction
<1>5. \/ IsOpen(d, i) /\ d.transaction[i].num = Cardinality(InTransaction(d, i))
      \/ d.transaction[i].state = "gone" /\ d.transaction[i].num = 0
  BY <1>2, <1>4 DEF IsOpen, Open
<1>6. CacheOK(d, nextId)
  BY <1>1, <1>2, <1>3, <1>5, OneTransactionOK
<1>7. QED
  BY <1>6 DEF d

\* What cache_start_sub_transaction() makes of the blocks.
LEMMA StartSubBlocks ==
    ASSUME Inv1, NEW i \in Ids, StartSubTransaction(i)
    PROVE  \A b \in Blocks : block'[b] = IF block[b].transaction = i
                                         THEN StartedSub(block[b]) ELSE block[b]
<1> SUFFICES ASSUME NEW b \in Blocks
             PROVE  block'[b] = IF block[b].transaction = i
                                THEN StartedSub(block[b]) ELSE block[b]
  OBVIOUS
<1>1. /\ b \in Discarded(Cache, i) <=> block[b].transaction = i /\ block[b].discard
      /\ b \in InTransaction(Cache, i) <=> block[b].transaction = i
  BY InvParts DEF Discarded, InTransaction
<1>2. block'[b] =
          CASE b \in Discarded(Cache, i) ->
                  [block[b] EXCEPT !.parent = NoData, !.original = NoData,
                      !.current = IF block[b].original # NoData
                                  THEN block[b].original ELSE block[b].current]
            [] b \in InTransaction(Cache, i) \ Discarded(Cache, i) ->
                  [block[b] EXCEPT !.parent = Current]
            [] OTHER -> block[b]
  BY DEF StartSubTransaction
<1>3. QED
  BY <1>1, <1>2 DEF StartedSub, Undo

\* cache_start_sub_transaction() keeps the first invariant.
LEMMA StartSubInv1 ==
    ASSUME Inv1, NEW i \in Ids, StartSubTransaction(i)
    PROVE  Inv1'
<1>1. /\ Idle /\ BusyWriting = {} /\ Open(i)
      /\ UNCHANGED <<nextId, events, notifying, toWrite, written, call, disk>>
  BY DEF StartSubTransaction, TransactionLock
<1>2. Types'
  BY <1>1 DEF Inv1, Types, OtherTypes
<1>3. \A b \in Blocks : block'[b] = IF block[b].transaction = i
                                    THEN StartedSub(block[b]) ELSE block[b]
  BY <1>1, StartSubBlocks
<1>4. /\ transaction' \in [Ids -> TransactionType]
      /\ transaction'[i].state = transaction[i].state
      /\ transaction'[i].num = transaction[i].num /\ transaction'[i].hasSub
      /\ \A j \in Ids : j # i => transaction'[j] = transaction[j]
  BY <1>1, StartSubUpdates
<1>5. ASSUME NEW b \in Blocks
      PROVE  /\ block'[b] \in BlockType /\ ShapeOf(Cache', block'[b])
             /\ block'[b].previous = block[b].previous
             /\ block'[b].transaction = block[b].transaction
  <2>1. /\ block[b] \in BlockType /\ ShapeOf(Cache, block[b])
        /\ block[b].transaction \in {NoId, i} /\ block[b].previous # i
    BY <1>1, InvParts, OnlyOpen
  <2>2. /\ (Cache').transaction = transaction' /\ Cache.transaction = transaction
    BY DEF Cache
  <2>3. block[b].previous # NoId => transaction'[block[b].previous].state = "closed"
    BY <1>4, <2>1, <2>2 DEF ShapeOf, BlockType
  <2>4. CASE block[b].transaction = i
    <3>1. block'[b] = StartedSub(block[b]) /\ block[b].transaction # NoId
      BY <1>3, <2>4
    <3>2. IsOpen(Cache', i) /\ (Cache').transaction[i].hasSub
      BY <1>1, <1>4, <2>2 DEF IsOpen, Open
    <3>3. QED
      BY <2>1, <2>2, <2>3, <2>4, <3>1, <3>2, StartedSubIs
  <2>5. CASE block[b].transaction = NoId
    <3>1. block'[b] = block[b]
      BY <1>3, <2>5
    <3>2. ShapeOf(Cache', block[b])
      BY <2>1, <2>2, <2>3, <2>5, ShapeFrame
    <3>3. QED
      BY <2>1, <3>1, <3>2
  <2>6. QED
    BY <2>1, <2>4, <2>5
<1>6. block' \in [Blocks -> BlockType]
  <2>1. block' = [b \in Blocks |-> block'[b]]
    BY <1>1 DEF StartSubTransaction
  <2>2. QED
    BY <1>5, <2>1
<1>7. Open(i)' /\ transaction'[i].num = Cardinality({b \in Blocks : block'[b].transaction = i})
  <2>1. {b \in Blocks : block'[b].transaction = i} = InTransaction(Cache, i)
    BY <1>5, InvParts DEF InTransaction
  <2>2. transaction[i].num = Cardinality(InTransaction(Cache, i))
    BY <1>1, InvParts, CacheParts DEF Counts
  <2>3. QED
    BY <1>1, <1>4, <2>1, <2>2 DEF Open
<1>8. CacheOK(Cache, nextId)'
  <2>1. \A b \in Blocks : block'[b].transaction \in {NoId, i}
    BY <1>1, <1>5, InvParts, OnlyOpen
  <2>2. QED
    BY <1>1, <1>4, <1>5, <1>6, <1>7, <2>1, OpenStepOK
<1>9. /\ nextId <= nextId'
      /\ \A j \in Ids : transaction[j].state = "gone" => transaction'[j].state = "gone"
  BY <1>1, <1>4, InvParts DEF Open
<1>10. QED
  BY <1>1, <1>2, <1>8, <1>9, ClientFrame

\* What cache_abort_transaction() makes of the blocks.
LEMMA AbortBlocks ==
    ASSUME Inv1, NEW i \in Ids, AbortTransaction(i)
    PROVE  \A b \in Blocks : block'[b] = IF block[b].transaction = i
                                         THEN AbortedBlock(block[b]) ELSE block[b]
<1> SUFFICES ASSUME NEW b \in Blocks
             PROVE  block'[b] = IF block[b].transaction = i
                                THEN AbortedBlock(block[b]) ELSE block[b]
  OBVIOUS
<1>1. b \in InTransaction(Cache, i) <=> block[b].transaction = i
  BY InvParts DEF InTransaction
<1>2. block'[b] =
          IF b \in InTransaction(Cache, i)
          THEN [block[b] EXCEPT
                  !.current = IF block[b].original # NoData
                              THEN block[b].original ELSE block[b].current,
                  !.original = NoData, !.parent = NoData, !.transaction = NoId,
                  !.discard = FALSE,
                  !.dirty = block[b].dirty /\ block[b].previous # NoId]
          ELSE block[b]
  BY DEF AbortTransaction
<1>3. QED
  BY <1>1, <1>2 DEF AbortedBlock, Undo

\* cache_abort_transaction() keeps the first invariant.
LEMMA AbortInv1 ==
    ASSUME Inv1, NEW i \in Ids, AbortTransaction(i)
    PROVE  Inv1'
<1>1. /\ Idle /\ BusyWriting = {} /\ Open(i)
      /\ transaction' = [transaction EXCEPT ![i] = Gone]
      /\ UNCHANGED <<nextId, events, notifying, toWrite, written, call, disk>>
  BY DEF AbortTransaction, TransactionLock
<1>2. Types'
  BY <1>1 DEF Inv1, Types, OtherTypes
<1>3. \A b \in Blocks : block'[b] = IF block[b].transaction = i
                                    THEN AbortedBlock(block[b]) ELSE block[b]
  BY <1>1, AbortBlocks
<1>4. /\ transaction' \in [Ids -> TransactionType]
      /\ transaction'[i].state = "gone" /\ transaction'[i].num = 0
      /\ \A j \in Ids : j # i => transaction'[j] = transaction[j]
  BY <1>1, InvParts, GoneIs
<1>5. ASSUME NEW b \in Blocks
      PROVE  /\ block'[b] \in BlockType /\ ShapeOf(Cache', block'[b])
             /\ block'[b].previous = block[b].previous
             /\ block'[b].transaction = NoId
  <2>1. /\ block[b] \in BlockType /\ ShapeOf(Cache, block[b])
        /\ block[b].transaction \in {NoId, i} /\ block[b].previous # i
    BY <1>1, InvParts, OnlyOpen
  <2>2. /\ (Cache').transaction = transaction' /\ Cache.transaction = transaction
    BY DEF Cache
  <2>3. block[b].previous # NoId => transaction'[block[b].previous].state = "closed"
    BY <1>4, <2>1, <2>2 DEF ShapeOf, BlockType
  <2>4. CASE block[b].transaction = i
    <3>1. block'[b] = AbortedBlock(block[b]) /\ block[b].transaction # NoId
      BY <1>3, <2>4
    <3>2. QED
      BY <2>1, <2>2, <2>3, <2>4, <3>1, AbortedIs
  <2>5. CASE block[b].transaction = NoId
    <3>1. block'[b] = block[b]
      BY <1>3, <2>5
    <3>2. ShapeOf(Cache', block[b])
      BY <2>1, <2>2, <2>3, <2>5, ShapeFrame
    <3>3. QED
      BY <2>1, <2>5, <3>1, <3>2
  <2>6. QED
    BY <2>1, <2>4, <2>5
<1>6. block' \in [Blocks -> BlockType]
  <2>1. block' = [b \in Blocks |-> block'[b]]
    BY <1>1 DEF AbortTransaction
  <2>2. QED
    BY <1>5, <2>1
<1>7. CacheOK(Cache, nextId)'
  BY <1>1, <1>4, <1>5, <1>6, OpenStepOK
<1>8. /\ nextId <= nextId'
      /\ \A j \in Ids : transaction[j].state = "gone" => transaction'[j].state = "gone"
  BY <1>1, <1>4, InvParts
<1>9. QED
  BY <1>1, <1>2, <1>7, <1>8, ClientFrame

\* What cache_abort_sub_transaction() makes of the blocks.
LEMMA AbortSubBlocks ==
    ASSUME Inv1, NEW i \in Ids, AbortSubTransaction(i)
    PROVE  \A b \in Blocks : block'[b] = IF block[b].transaction # i THEN block[b]
                                         ELSE IF block[b].parent = NoData
                                         THEN LeftBlock(block[b]) ELSE RestoredBlock(block[b])
<1> DEFINE leaving == {b \in InTransaction(Cache, i) : block[b].parent = NoData}
<1> SUFFICES ASSUME NEW b \in Blocks
             PROVE  block'[b] = IF block[b].transaction # i THEN block[b]
                                ELSE IF block[b].parent = NoData
                                THEN LeftBlock(block[b]) ELSE RestoredBlock(block[b])
  OBVIOUS
<1>1. /\ b \in InTransaction(Cache, i) <=> block[b].transaction = i
      /\ b \in leaving <=> block[b].transaction = i /\ block[b].parent = NoData
  BY InvParts DEF InTransaction
<1>2. block'[b] =
          CASE b \in leaving ->
              [block[b] EXCEPT
                  !.current = IF block[b].original # NoData
                              THEN block[b].original ELSE block[b].current,
                  !.transaction = NoId, !.discard = FALSE,
                  !.original = IF block[b].previous = NoId THEN NoData
                               ELSE block[b].original,
                  !.dirty = block[b].dirty /\ block[b].previous # NoId,
                  !.unused = block[b].unused \/ block[b].previous = NoId]
            [] b \in InTransaction(Cache, i) \ leaving ->
              [block[b] EXCEPT
                  !.current = IF block[b].parent # Current THEN block[b].parent
                              ELSE block[b].current,
                  !.parent = NoData, !.discard = FALSE]
            [] OTHER -> block[b]
  BY DEF AbortSubTransaction
<1> HIDE DEF leaving
<1>3. QED
  BY <1>1, <1>2 DEF LeftBlock, RestoredBlock, Undo

\* cache_abort_sub_transaction() keeps the first invariant.
LEMMA AbortSubInv1 ==
    ASSUME Inv1, NEW i \in Ids, AbortSubTransaction(i)
    PROVE  Inv1'
<1>1. /\ Idle /\ BusyWriting = {} /\ Open(i)
      /\ UNCHANGED <<nextId, events, notifying, toWrite, written, call, disk>>
  BY DEF AbortSubTransaction, TransactionLock
<1>2. Types'
  BY <1>1 DEF Inv1, Types, OtherTypes
<1> DEFINE leaving == {b \in InTransaction(Cache, i) : block[b].parent = NoData}
<1>3. \A b \in Blocks : block'[b] = IF block[b].transaction # i THEN block[b]
                                    ELSE IF block[b].parent = NoData
                                    THEN LeftBlock(block[b]) ELSE RestoredBlock(block[b])
  BY <1>1, AbortSubBlocks
<1>4. /\ transaction' \in [Ids -> TransactionType]
      /\ transaction'[i].state = transaction[i].state
      /\ transaction'[i].num = transaction[i].num - Cardinality(leaving)
      /\ \A j \in Ids : j # i => transaction'[j] = transaction[j]
  BY <1>1, AbortSubUpdates
<1>5. ASSUME NEW b \in Blocks
      PROVE  /\ block'[b] \in BlockType /\ ShapeOf(Cache', block'[b])
             /\ block'[b].previous = block[b].previous
             /\ block'[b].transaction =
                    IF block[b].transaction = i /\ block[b].parent # NoData THEN i ELSE NoId
  <2>1. /\ block[b] \in BlockType /\ ShapeOf(Cache, block[b])
        /\ block[b].transaction \in {NoId, i} /\ block[b].previous # i
    <3>1. CacheOK(Cache, nextId) /\ IsOpen(Cache, i) /\ Cache.block = block
      BY <1>1, InvParts
    <3>2. block[b].transaction \in {NoId, i} /\ block[b].previous # i
      BY <3>1, OnlyOpen
    <3>3. QED
      BY <3>2, InvParts
  <2>2. /\ (Cache').transaction = transaction' /\ Cache.transaction = transaction
    BY DEF Cache
  <2>3. block[b].previous # NoId => transaction'[block[b].previous].state = "closed"
    BY <1>4, <2>1, <2>2 DEF ShapeOf, BlockType
  <2>4. CASE block[b].transaction = i /\ block[b].parent = NoData
    <3>1. block'[b] = LeftBlock(block[b]) /\ block[b].transaction # NoId
      BY <1>3, <2>4
    <3>2. QED
      BY <2>1, <2>2, <2>3, <2>4, <3>1, LeftIs
  <2>5. CASE block[b].transaction = i /\ block[b].parent # NoData
    <3>1. block'[b] = RestoredBlock(block[b]) /\ block[b].transaction # NoId
      BY <1>3, <2>5
    <3>2. IsOpen(Cache', i)
      BY <1>1, <1>4, <2>2 DEF IsOpen, Open
    <3>3. QED
      BY <2>1, <2>2, <2>3, <2>5, <3>1, <3>2, RestoredIs
  <2>6. CASE block[b].transaction = NoId
    <3>1. block'[b] = block[b]
      BY <1>3, <2>6
    <3>2. ShapeOf(Cache', block[b])
      BY <2>1, <2>2, <2>3, <2>6, ShapeFrame
    <3>3. QED
      BY <2>1, <2>6, <3>1, <3>2
  <2>7. QED
    BY <2>1, <2>4, <2>5, <2>6
<1>6. block' \in [Blocks -> BlockType]
  <2>1. block' = [b \in Blocks |-> block'[b]]
    BY <1>1 DEF AbortSubTransaction
  <2>2. QED
    BY <1>5, <2>1
<1>7. Open(i)' /\ transaction'[i].num = Cardinality({b \in Blocks : block'[b].transaction = i})
  <2> DEFINE T == InTransaction(Cache, i)
  <2>1. {b \in Blocks : block'[b].transaction = i} = T \ leaving
    BY <1>5, InvParts DEF InTransaction
  <2>2. transaction[i].num = Cardinality(T)
    BY <1>1, InvParts, CacheParts DEF Counts
  <2>3. T \in SUBSET Blocks /\ T \cap leaving = leaving
    BY DEF InTransaction
  <2> HIDE DEF T, leaving
  <2>4. Cardinality(T \ leaving) = Cardinality(T) - Cardinality(leaving)
    BY <2>3, FiniteBlocks, FS_Difference
  <2>5. QED
    BY <1>1, <1>4, <2>1, <2>2, <2>4 DEF Open
<1>8. CacheOK(Cache, nextId)'
  <2>1. \A b \in Blocks : block'[b].transaction \in {NoId, i}
    BY <1>5
  <2>2. QED
    BY <1>1, <1>4, <1>5, <1>6, <1>7, <2>1, OpenStepOK
<1>9. /\ nextId <= nextId'
      /\ \A j \in Ids : transaction[j].state = "gone" => transaction'[j].state = "gone"
  BY <1>1, <1>4, InvParts DEF Open
<1>10. QED
  BY <1>1, <1>2, <1>8, <1>9, ClientFrame


\* get_writable_cached_block() keeps the first invariant.
LEMMA WriteInv1 ==
    ASSUME Inv1, NEW i \in Ids, NEW b \in Blocks, NEW cleared \in BOOLEAN, NEW data \in Values,
           GetWritable(b, i, cleared, data)
    PROVE  Inv1'
<1> DEFINE r == Found(b, cleared)
           isNew == cleared /\ ~block[b].cached
           s == WrittenBlock(r, isNew, i, data)
<1>1. /\ Idle /\ Open(i) /\ b \notin BusyWriting /\ r.transaction \in {NoId, i}
      /\ block' = [block EXCEPT ![b] = s]
      /\ UNCHANGED <<nextId, events, notifying, toWrite, written, call, disk>>
  BY DEF GetWritable, WrittenBlock
<1>2. Types'
  BY <1>1 DEF Inv1, Types, OtherTypes
<1>3. /\ block[b] \in BlockType /\ ShapeOf(Cache, block[b])
      /\ block[b].transaction \in {NoId, i} /\ block[b].previous # i /\ disk[b] \in Values
  BY <1>1, InvParts, OnlyOpen DEF Inv1, Types, OtherTypes
<1>4. /\ r \in BlockType /\ r.cached /\ r.transaction = block[b].transaction
      /\ r.previous = block[b].previous /\ r.original = block[b].original
      /\ r.parent = block[b].parent
      /\ ~isNew => r.current # NoData
      /\ isNew => r.previous = NoId
  BY <1>3, FoundIs, AbsentIs DEF ShapeOf, Values
<1> HIDE DEF r
<1>5. isNew \in BOOLEAN
  OBVIOUS
<1> HIDE DEF isNew
<1>6. /\ s \in BlockType /\ s.transaction = i /\ s.previous = r.previous
      /\ s.cached /\ ~s.discard /\ ~s.unused /\ s.dirty /\ s.current = data
      /\ s.original = IF r.original = NoData /\ ~isNew THEN r.current ELSE r.original
      /\ s.parent = IF r.parent = Current THEN r.current ELSE r.parent
  BY <1>3, <1>4, <1>5, WrittenIs
<1> HIDE DEF s
<1>7. /\ transaction' \in [Ids -> TransactionType]
      /\ transaction'[i].state = transaction[i].state
      /\ transaction'[i].num = IF r.transaction = NoId THEN transaction[i].num + 1
                                                       ELSE transaction[i].num
      /\ transaction'[i].hasSub = transaction[i].hasSub
      /\ \A j \in Ids : j # i => transaction'[j] = transaction[j]
  BY <1>1, WriteUpdates DEF r
<1>8. /\ block' \in [Blocks -> BlockType]
      /\ \A x \in Blocks : block'[x] = IF x = b THEN s ELSE block[x]
  BY <1>1, <1>6, InvParts
<1>9. ASSUME NEW x \in Blocks
      PROVE  /\ ShapeOf(Cache', block'[x])
             /\ block'[x].previous = block[x].previous
             /\ block'[x].transaction \in {NoId, i}
  <2>1. /\ block[x] \in BlockType /\ ShapeOf(Cache, block[x])
        /\ block[x].transaction \in {NoId, i} /\ block[x].previous # i
    BY <1>1, InvParts, OnlyOpen
  <2>2. /\ (Cache').transaction = transaction' /\ Cache.transaction = transaction
    BY DEF Cache
  <2>3. block[x].previous # NoId => transaction'[block[x].previous].state = "closed"
    BY <1>7, <2>1, <2>2 DEF ShapeOf, BlockType
  <2>4. IsOpen(Cache', i) /\ (Cache').transaction[i].hasSub = transaction[i].hasSub
    BY <1>1, <1>7, <2>2 DEF IsOpen, Open
  <2>5. CASE x = b
    <3>1. block'[x] = s
      BY <1>8, <2>5
    <3>2. s.parent # NoData => transaction[i].hasSub
      BY <1>3, <1>4, <1>6, <2>2 DEF ShapeOf
    <3>3. s.current # NoData
      BY <1>3, <1>6 DEF Values
    <3>4. s.previous # NoId => s.original # NoData
      BY <1>3, <1>4, <1>6
    <3>5. ShapeOf(Cache', s)
      BY <1>4, <1>6, <2>2, <2>3, <2>4, <2>5, <3>2, <3>3, <3>4 DEF ShapeOf
    <3>6. QED
      BY <1>4, <1>6, <2>5, <3>1, <3>5
  <2>6. CASE x # b
    <3>1. block'[x] = block[x]
      BY <1>8, <2>6
    <3>2. block[x].parent # NoData => transaction[block[x].transaction].hasSub
      BY <2>1, <2>2 DEF ShapeOf
    <3>3. ShapeOf(Cache', block[x])
      BY <2>1, <2>2, <2>3, <2>4, <3>2, ShapeFrame
    <3>4. QED
      BY <2>1, <3>1, <3>3
  <2>7. QED
    BY <2>5, <2>6
<1>10. Open(i)' /\ transaction'[i].num = Cardinality({x \in Blocks : block'[x].transaction = i})
  <2> DEFINE T == InTransaction(Cache, i)
  <2>1. {x \in Blocks : block'[x].transaction = i} = T \cup {b}
    BY <1>6, <1>8, InvParts DEF InTransaction
  <2>2. transaction[i].num = Cardinality(T)
    BY <1>1, InvParts, CacheParts DEF Counts
  <2>3. T \in SUBSET Blocks /\ (b \in T <=> r.transaction # NoId)
    BY <1>3, <1>4, InvParts DEF InTransaction
  <2> HIDE DEF T
  <2>4. Cardinality(T \cup {b}) = IF b \in T THEN Cardinality(T) ELSE Cardinality(T) + 1
    BY <2>3, FiniteBlocks, FS_AddElement
  <2>5. QED
    BY <1>1, <1>7, <2>1, <2>2, <2>3, <2>4 DEF Open
<1>11. CacheOK(Cache, nextId)'
  BY <1>1, <1>7, <1>8, <1>9, <1>10, OpenStepOK
<1>12. /\ nextId <= nextId'
       /\ \A j \in Ids : transaction[j].state = "gone" => transaction'[j].state = "gone"
  BY <1>1, <1>7, InvParts DEF Open
<1>13. \A x \in BusyWriting :
            MayBeWritten(block[x])' /\ (Loose(block[x]) => Loose(block[x])')
  <2> SUFFICES ASSUME NEW x \in BusyWriting
               PROVE  MayBeWritten(block'[x]) /\ (Loose(block[x]) => Loose(block'[x]))
    OBVIOUS
  <2>1. x \in Blocks /\ x # b
    BY <1>1 DEF BusyWriting, Busy, Inv1, Types, OtherTypes, Writers
  <2>2. MayBeWritten(block[x])
    BY DEF Inv1, WritersOK
  <2>3. QED
    BY <1>8, <2>1, <2>2
<1>14. QED
  BY <1>1, <1>2, <1>11, <1>12, <1>13, ClientFrame

-----------------------------------------------------------------------------
(* The client's calls that may let go of the lock *)

\* A call may finish: no block it is about waits for an earlier transaction.
CanFinish(c, next, op, arg) ==
    /\ op \in {"end", "detach", "discard", "sync"}
    /\ Committing(op) => Closing(c, next, op, arg, {})
    /\ op = "discard" => arg \in Blocks /\ c.block[arg].previous = NoId

NoSync(c) == \A k \in 1..Len(c.events) : c.events[k] # Sync

\* The blocks a finishing call leaves alone.
Apart(c, op, arg, b) == /\ Committing(op) => c.block[b].transaction = NoId
                        /\ op = "discard" => b # arg

\* Among them are the ones that the other writers have marked.
LeavesWriters(c, op, arg) ==
    /\ Busy("background") \cap Busy("memory") = {}
    /\ \A b \in Busy("background") \cup Busy("memory") :
            b \in Blocks /\ MayBeWritten(c.block[b]) /\ Apart(c, op, arg, b)
    /\ \A b \in Busy("memory") : Loose(c.block[b])

\* The cache and the call after a call has finished.
Finished(c) ==
    /\ CacheOK(Cache, nextId)' /\ nextId' \in Nat /\ nextId <= nextId'
    /\ call' \in CallType /\ SyncOK'
    /\ call'.op \in {"none", "wait"}
    /\ \A i \in Ids : i < nextId /\ c.transaction[i].state = "gone" =>
                          transaction'[i].state = "gone"

\* A finishing call keeps the cache consistent and leaves the blocks alone it is not about.
LEMMA FinishOK ==
    ASSUME NEW c, CacheOK(c, nextId), nextId \in Nat, NEW op, NEW arg \in Nat,
           NEW hook \in BOOLEAN, CanFinish(c, nextId, op, arg), NoSync(c),
           Finish(c, op, arg, hook)
    PROVE  /\ Finished(c)
           /\ \A b \in Blocks : Apart(c, op, arg, b) => block'[b] = c.block[b]
<1> USE DEF CanFinish
<1>2. NoCall \in CallType /\ NoCall.op = "none"
  BY DEF NoCall, CallType, Ops
<1>3. ASSUME NEW d, Cache' = d, call' = NoCall, d.events = c.events
      PROVE  /\ events' = c.events /\ call' \in CallType /\ SyncOK'
             /\ call'.op \in {"none", "wait"}
  <2>1. events' = c.events
    BY <1>3 DEF Cache
  <2>2. QED
    BY <1>2, <1>3, <2>1 DEF SyncOK, NoSync
<1>4. CASE op = "end"
  <2> DEFINE d == Ended(c, arg, hook)
  <2>1. Becomes(d) /\ call' = NoCall /\ nextId' = nextId
    BY <1>4 DEF Finish
  <2>2. arg \in Ids /\ IsOpen(c, arg) /\ \A b \in InTransaction(c, arg) : c.block[b].previous = NoId
    BY <1>4 DEF Closing, Committing
  <2> HIDE DEF d
  <2>3. CacheOK(d, nextId)
    BY <2>2, EndedOK DEF d
  <2>4. /\ d.events = c.events
        /\ \A b \in Blocks : d.block[b] = IF c.block[b].transaction = arg
                                          THEN EndedBlock(c.block[b], arg) ELSE c.block[b]
        /\ \A j \in Ids : j # arg => d.transaction[j] = c.transaction[j]
    BY <2>2, EndedParts DEF d
  <2>5. d = [block |-> d.block, transaction |-> d.transaction, events |-> d.events]
    BY <2>3 DEF CacheOK, CacheType
  <2>6. Cache' = d /\ block' = d.block /\ transaction' = d.transaction
    BY <2>1, <2>5 DEF Becomes, Cache
  <2>7. /\ call' \in CallType /\ SyncOK' /\ call'.op \in {"none", "wait"}
    BY <1>3, <2>1, <2>4, <2>6
  <2>8. \A i \in Ids : c.transaction[i].state = "gone" => transaction'[i].state = "gone"
    BY <2>2, <2>4, <2>6 DEF IsOpen
  <2>9. \A b \in Blocks : Apart(c, op, arg, b) => block'[b] = c.block[b]
    BY <1>4, <2>2, <2>4, <2>6 DEF Apart, Committing
  <2>10. CacheOK(Cache, nextId)'
    BY <2>1, <2>3, <2>6
  <2>11. QED
    BY <2>1, <2>7, <2>8, <2>9, <2>10 DEF Finished
<1>5. CASE op = "detach"
  <2> DEFINE d == DetachedSub(c, arg, nextId, hook)
  <2>1. Becomes(d) /\ call' = NoCall /\ nextId' = nextId + 1
    BY <1>5 DEF Finish
  <2>2. /\ arg \in Ids /\ IsOpen(c, arg) /\ nextId \in Ids /\ Divided(c, arg)
        /\ \A b \in InTransaction(c, arg) : c.block[b].previous = NoId
    BY <1>5 DEF Closing, Committing
  <2> HIDE DEF d
  <2>3. CacheOK(d, nextId + 1)
    BY <2>2, DetachedOK DEF d
  <2>4. /\ d = [block |-> d.block, transaction |-> d.transaction, events |-> c.events]
        /\ d.block = [b \in Blocks |-> IF c.block[b].transaction = arg
                                       THEN Detached(c.block[b], arg, nextId) ELSE c.block[b]]
        /\ Renewed(c, d, arg, nextId)
    BY <2>2, DetachedParts DEF d
  <2>5. d.events = c.events
    BY <2>4
  <2>6. Cache' = d /\ block' = d.block /\ transaction' = d.transaction
    BY <2>1, <2>4, <2>5 DEF Becomes, Cache
  <2>7. /\ call' \in CallType /\ SyncOK' /\ call'.op \in {"none", "wait"}
    BY <1>3, <2>1, <2>5, <2>6
  <2>8. ASSUME NEW i \in Ids, i < nextId, c.transaction[i].state = "gone"
        PROVE  transaction'[i].state = "gone"
    <3>4. i \in Nat /\ i # arg
      BY <2>2, <2>8 DEF IsOpen
    <3>1. i \in Nat /\ i # nextId /\ i # arg
      BY <2>8, <3>4
    <3>2. d.transaction[i] = c.transaction[i]
      BY <2>4, <3>1 DEF Renewed
    <3>3. QED
      BY <2>6, <2>8, <3>2
  <2>9. ASSUME NEW b \in Blocks, Apart(c, op, arg, b) PROVE block'[b] = c.block[b]
    <3>1. c.block[b].transaction # arg
      BY <1>5, <2>2, <2>9 DEF Apart, Committing
    <3>2. QED
      BY <2>4, <2>6, <3>1
  <2>10. CacheOK(Cache, nextId)'
    BY <2>1, <2>3, <2>6
  <2>11. QED
    BY <2>1, <2>7, <2>8, <2>9, <2>10 DEF Finished
<1>6. CASE op = "discard"
  <2> DEFINE d == Discard(c, arg)
  <2>1. Becomes(d) /\ call' = NoCall /\ nextId' = nextId
    BY <1>6 DEF Finish
  <2>2. arg \in Blocks /\ c.block[arg].previous = NoId
    BY <1>6
  <2>3. CacheOK(d, nextId)
    <3> HIDE DEF d
    <3>1. QED
      BY <2>2, DiscardOK DEF d
  <2>4. d.events = c.events /\ d.transaction = c.transaction
        /\ \A b \in Blocks : b # arg => d.block[b] = c.block[b]
    <3>1. /\ c.block \in [Blocks -> BlockType] /\ c \in CacheType
      BY CacheParts DEF CacheOK
    <3>2. PICK s : d = [c EXCEPT !.block = [@ EXCEPT ![arg] = s]]
      BY DEF Discard
    <3> HIDE DEF d
    <3>3. QED
      BY <3>1, <3>2 DEF CacheType
  <2> HIDE DEF d
  <2>5. d = [block |-> d.block, transaction |-> d.transaction, events |-> d.events]
    BY <2>3 DEF CacheOK, CacheType
  <2>6. Cache' = d /\ block' = d.block /\ transaction' = d.transaction
    BY <2>1, <2>5 DEF Becomes, Cache
  <2>7. /\ call' \in CallType /\ SyncOK' /\ call'.op \in {"none", "wait"}
    BY <1>3, <2>1, <2>4, <2>6
  <2>8. \A i \in Ids : c.transaction[i].state = "gone" => transaction'[i].state = "gone"
    BY <2>4, <2>6
  <2>9. \A b \in Blocks : Apart(c, op, arg, b) => block'[b] = c.block[b]
    BY <1>6, <2>4, <2>6 DEF Apart
  <2>10. CacheOK(Cache, nextId)'
    BY <2>1, <2>3, <2>6
  <2>11. QED
    BY <2>1, <2>7, <2>8, <2>9, <2>10 DEF Finished
<1>7. CASE op = "sync"
  <2> DEFINE e == Append(c.events, Sync)
  <2>1. Becomes([c EXCEPT !.events = Append(@, Sync)]) /\ nextId' = nextId
        /\ call' = [NoCall EXCEPT !.op = "wait"]
    BY <1>7 DEF Finish
  <2>2. /\ c \in CacheType /\ c.events \in Seq(Ids \cup {Sync})
        /\ Transactions(c, nextId) /\ Counts(c) /\ Shape(c)
    BY CacheParts DEF CacheOK
  <2>3. block' = c.block /\ transaction' = c.transaction /\ events' = e
    BY <2>1, <2>2 DEF Becomes, CacheType
  <2>4. /\ e \in Seq(Ids \cup {Sync}) /\ Len(e) = Len(c.events) + 1
        /\ e[Len(e)] = Sync /\ \A k \in 1..Len(c.events) : e[k] = c.events[k]
    BY <2>2
  <2>5. /\ (Cache').block = c.block /\ (Cache').transaction = c.transaction
        /\ (Cache').events = e
        /\ Cache' = [block |-> c.block, transaction |-> c.transaction, events |-> e]
    BY <2>3 DEF Cache
  <2> HIDE DEF e
  <2>6. CacheOK(Cache', nextId)
    <3>1. Cache' \in CacheType
      BY <2>2, <2>4, <2>5 DEF CacheType
    <3>2. Shape(Cache')
      <4> SUFFICES ASSUME NEW b \in Blocks PROVE ShapeOf(Cache', c.block[b])
        BY <2>5 DEF Shape
      <4>1. ShapeOf(c, c.block[b])
        BY <2>2 DEF Shape
      <4>2. QED
        BY <2>5, <4>1 DEF ShapeOf, IsOpen
    <3>3. Counts(Cache')
      <4>1. \A i \in Ids : /\ InTransaction(Cache', i) = InTransaction(c, i)
                           /\ InPrevious(Cache', i) = InPrevious(c, i)
        BY <2>5 DEF InTransaction, InPrevious
      <4>2. QED
        BY <2>2, <2>5, <4>1 DEF Counts, IsOpen
    <3>4. ASSUME NEW k \in 1..Len(e), e[k] # Sync
          PROVE  e[k] < nextId /\ c.transaction[e[k]].state = "gone"
      <4>1. k \in 1..Len(c.events) /\ e[k] = c.events[k]
        BY <2>2, <2>4, <3>4
      <4>2. QED
        BY <2>2, <3>4, <4>1 DEF Transactions
    <3>5. Transactions(Cache', nextId)
      BY <2>2, <2>5, <3>4 DEF Transactions, IsOpen
    <3>6. QED
      BY <3>1, <3>2, <3>3, <3>5 DEF CacheOK
  <2>7. call' \in CallType /\ call'.op = "wait"
    BY <1>2, <2>1 DEF CallType, Ops
  <2>8. SyncOK'
    <3>1. \A k \in 1..Len(e) : e[k] = Sync => k = Len(e)
      BY <2>2, <2>4, SMTT(20) DEF NoSync
    <3>2. QED
      BY <2>3, <2>7, <3>1 DEF SyncOK
  <2>9. QED
    BY <2>1, <2>3, <2>6, <2>7, <2>8 DEF Finished
<1>8. QED
  BY <1>4, <1>5, <1>6, <1>7

\* A finishing call re-establishes the invariant.
LEMMA FinishInv1 ==
    ASSUME NEW c, CacheOK(c, nextId), nextId \in Nat, NEW op, NEW arg \in Nat,
           NEW hook \in BOOLEAN, CanFinish(c, nextId, op, arg), NoSync(c),
           Finish(c, op, arg, hook), OtherTypes', Busy("client")' = {},
           Busy("background")' = Busy("background"), Busy("memory")' = Busy("memory"),
           LeavesWriters(c, op, arg),
           notifying' = notifying, notifying \in Ids \cup {NoId},
           notifying # NoId => notifying < nextId /\ c.transaction[notifying].state = "gone"
    PROVE  Inv1'
<1>1. Finished(c) /\ \A b \in Blocks : Apart(c, op, arg, b) => block'[b] = c.block[b]
  BY FinishOK
<1>2. Types' /\ CacheOK(Cache, nextId)' /\ SyncOK'
  BY <1>1 DEF Finished, Types
<1>3. WritersOK'
  <2>1. BusyWriting' = Busy("background") \cup Busy("memory")
    BY DEF BusyWriting
  <2>2. \A b \in Busy("background") \cup Busy("memory") :
            block'[b] = c.block[b] /\ MayBeWritten(block'[b])
    BY <1>1 DEF LeavesWriters
  <2>3. Disjoint'
    BY DEF Disjoint, LeavesWriters
  <2>4. \A b \in Busy("memory") : Loose(block'[b])
    BY <2>2 DEF LeavesWriters
  <2>5. QED
    BY <2>1, <2>2, <2>3, <2>4 DEF WritersOK
<1>4. CallOK'
  BY <1>1 DEF Finished, CallOK, Committing
<1>5. Notified'
  <2>1. nextId' \in Nat /\ nextId <= nextId'
    BY <1>1 DEF Finished
  <2>2. ASSUME notifying # NoId
        PROVE  notifying < nextId' /\ transaction'[notifying].state = "gone"
    <3>1. notifying \in Ids /\ notifying < nextId /\ c.transaction[notifying].state = "gone"
      BY <2>2
    <3>2. notifying \in Nat
      BY <3>1
    <3>3. QED
      BY <1>1, <2>1, <3>1, <3>2 DEF Finished
  <2>3. QED
    BY <2>2 DEF Notified
<1>6. QED
  BY <1>2, <1>3, <1>4, <1>5 DEF Inv1

\* The start of a call: it finishes at once, or marks blocks and lets go of the lock.
LEMMA CallInv1 ==
    ASSUME Inv1, Idle, NEW op \in {"end", "detach", "discard", "sync"}, NEW arg \in Nat,
           NEW hook \in BOOLEAN, NEW S \in SUBSET Blocks, Call(op, arg, hook, S),
           \A b \in S : MayBeWritten(block[b]) /\ b \notin BusyWriting,
           op # "sync" => BusyWriting = {},
           Committing(op) => Closing(Cache, nextId, op, arg, S),
           op = "discard" => arg \in Blocks /\ (block[arg].previous # NoId => arg \in S),
           op = "discard" => S \subseteq {arg},
           OtherTypes'
    PROVE  Inv1'
<1>0. /\ CacheOK(Cache, nextId) /\ nextId \in Nat /\ Types
      /\ Cache.block = block /\ Cache.transaction = transaction /\ Cache.events = events
  BY InvParts
<1>1. notifying' = notifying /\ disk' = disk /\ notifying \in Ids \cup {NoId}
  BY <1>0 DEF Call, Types, OtherTypes
<1>2. /\ call.op = "none" /\ Busy("client") = {}
      /\ \A k \in 1..Len(events) : events[k] # Sync
  <2>1. call.op = "none"
    BY DEF Idle, NoCall
  <2>2. QED
    BY <2>1 DEF Inv1, CallOK, SyncOK
<1>3. CASE S = {}
  <2>1. Finish(Cache, op, arg, hook) /\ UNCHANGED <<toWrite, written>>
    BY <1>3 DEF Call
  <2>2. /\ Busy("client")' = {} /\ Busy("background")' = Busy("background")
        /\ Busy("memory")' = Busy("memory")
    BY <1>2, <2>1 DEF Busy
  <2>3. CanFinish(Cache, nextId, op, arg) /\ NoSync(Cache)
    BY <1>0, <1>2, <1>3 DEF CanFinish, NoSync
  <2>4. LeavesWriters(Cache, op, arg)
    <3>0. /\ Busy("background") \cap Busy("memory") = {}
          /\ \A b \in Busy("memory") : Loose(block[b])
      BY DEF Inv1, WritersOK, Disjoint
    <3> SUFFICES ASSUME NEW b \in Busy("background") \cup Busy("memory")
                 PROVE  b \in Blocks /\ MayBeWritten(block[b]) /\ Apart(Cache, op, arg, b)
      BY <1>0, <3>0 DEF LeavesWriters
    <3>1. b \in BusyWriting
      BY DEF BusyWriting
    <3>2. b \in Blocks
      BY <1>0 DEF Busy, Types, OtherTypes, Writers
    <3>3. MayBeWritten(block[b])
      BY <3>1 DEF Inv1, WritersOK
    <3>4. op = "sync"
      BY <3>1
    <3>5. QED
      BY <3>2, <3>3, <3>4 DEF Apart, Committing
  <2>5. notifying # NoId => notifying < nextId /\ Cache.transaction[notifying].state = "gone"
    BY <1>0 DEF Inv1, Notified
  <2>6. QED
    BY <1>0, <1>1, <2>1, <2>2, <2>3, <2>4, <2>5, FinishInv1
<1>4. CASE S # {}
  <2>1. /\ toWrite' = [toWrite EXCEPT !["client"] = S]
        /\ call' = [op |-> op, arg |-> arg, hook |-> hook]
        /\ UNCHANGED <<block, transaction, nextId, events, written>>
    BY <1>4 DEF Call
  <2>2. /\ call' \in CallType /\ call'.op = op /\ call'.arg = arg
    BY <2>1 DEF CallType, Ops
  <2>3. toWrite \in [Writers -> SUBSET Blocks] /\ written["client"] = {}
    BY <1>0, <1>2 DEF Types, OtherTypes, Busy
  <2>4. /\ Busy("client")' = S /\ Busy("background")' = Busy("background")
        /\ Busy("memory")' = Busy("memory")
    BY <2>1, <2>3 DEF Busy, Writers
  <2>5. Cache' = Cache
    BY <2>1 DEF Cache
  <2>6. Types' /\ CacheOK(Cache, nextId)'
    BY <1>0, <2>1, <2>2, <2>5 DEF Types
  <2>7. SyncOK'
    BY <1>2, <2>1 DEF SyncOK
  <2>8. WritersOK'
    <3>1. \A b \in Busy("background") \cup Busy("memory") :
                b \in BusyWriting /\ MayBeWritten(block[b])
      BY DEF BusyWriting, Inv1, WritersOK
    <3>2. \A b \in Busy("memory") : Loose(block[b])
      BY DEF Inv1, WritersOK
    <3>3. Disjoint'
      BY <2>4, <3>1 DEF Inv1, WritersOK, Disjoint
    <3>4. \A b \in BusyWriting' : MayBeWritten(block[b])
      BY <2>4, <3>1 DEF BusyWriting
    <3>5. QED
      BY <2>1, <2>4, <3>2, <3>3, <3>4 DEF WritersOK
  <2>9. CallOK'
    <3>1. op = "discard" => arg \in S
      BY <1>4
    <3>2. Committing(op) => Closing(Cache', nextId', op, arg, S)
      BY <2>1, <2>5
    <3>3. QED
      BY <1>4, <2>2, <2>4, <3>1, <3>2 DEF CallOK
  <2>10. Notified'
    BY <1>1, <2>1 DEF Inv1, Notified
  <2>11. QED
    BY <2>6, <2>7, <2>8, <2>9, <2>10 DEF Inv1
<1>5. QED
  BY <1>3, <1>4

\* cache_end_transaction() keeps the first invariant.
LEMMA EndInv1 ==
    ASSUME Inv1, NEW i \in Ids, NEW hook \in BOOLEAN, EndTransaction(i, hook)
    PROVE  Inv1'
<1>1. /\ Idle /\ BusyWriting = {} /\ Open(i) /\ Call("end", i, hook, InBoth(i))
  BY DEF EndTransaction, TransactionLock
<1>2. /\ CacheOK(Cache, nextId) /\ IsOpen(Cache, i) /\ Cache.block = block /\ Types
      /\ \A b \in Blocks : block[b] \in BlockType
  BY <1>1, InvParts
<1>3. InBoth(i) \in SUBSET Blocks /\ \A b \in InBoth(i) : MayBeWritten(block[b])
  BY <1>2 DEF InBoth, InTransaction, MayBeWritten
<1>4. Closing(Cache, nextId, "end", i, InBoth(i))
  BY <1>2 DEF Closing, InBoth
<1>5. OtherTypes'
  <2>1. toWrite' \in [Writers -> SUBSET Blocks] /\ written' = written
    <3>1. toWrite \in [Writers -> SUBSET Blocks]
      BY <1>2 DEF Types, OtherTypes
    <3>2. toWrite' \in {toWrite, [toWrite EXCEPT !["client"] = InBoth(i)]} /\ written' = written
      BY <1>1 DEF Call
    <3>3. QED
      BY <1>3, <3>1, <3>2
  <2>2. disk' = disk /\ notifying' = notifying
    BY <1>1 DEF Call
  <2>3. QED
    BY <1>1, <1>2, <2>1, <2>2 DEF Types, OtherTypes
<1>6. i \in Nat
  OBVIOUS
<1>7. QED
  BY <1>1, <1>3, <1>4, <1>5, <1>6, CallInv1 DEF Committing

\* cache_detach_sub_transaction() keeps the first invariant.
LEMMA DetachInv1 ==
    ASSUME Inv1, NEW i \in Ids, NEW hook \in BOOLEAN, Divided(Cache, i),
           DetachSubTransaction(i, hook)
    PROVE  Inv1'
<1>1. /\ Idle /\ BusyWriting = {} /\ Open(i) /\ Call("detach", i, hook, InBoth(i))
      /\ transaction[i].hasSub /\ nextId \in Ids
  BY DEF DetachSubTransaction, TransactionLock
<1>2. /\ CacheOK(Cache, nextId) /\ IsOpen(Cache, i) /\ Cache.block = block /\ Types
      /\ Cache.transaction = transaction
      /\ \A b \in Blocks : block[b] \in BlockType
  BY <1>1, InvParts
<1>3. InBoth(i) \in SUBSET Blocks /\ \A b \in InBoth(i) : MayBeWritten(block[b])
  BY <1>2 DEF InBoth, InTransaction, MayBeWritten
<1>4. Closing(Cache, nextId, "detach", i, InBoth(i))
  <2>1. \A b \in InTransaction(Cache, i) : Cache.block[b].previous # NoId => b \in InBoth(i)
    BY <1>2 DEF InBoth
  <2>2. QED
    BY <1>1, <1>2, <2>1 DEF Closing
<1>5. OtherTypes'
  <2>1. toWrite' \in [Writers -> SUBSET Blocks] /\ written' = written
    <3>1. toWrite \in [Writers -> SUBSET Blocks]
      BY <1>2 DEF Types, OtherTypes
    <3>2. toWrite' \in {toWrite, [toWrite EXCEPT !["client"] = InBoth(i)]} /\ written' = written
      BY <1>1 DEF Call
    <3>3. QED
      BY <1>3, <3>1, <3>2
  <2>2. disk' = disk /\ notifying' = notifying
    BY <1>1 DEF Call
  <2>3. QED
    BY <1>1, <1>2, <2>1, <2>2 DEF Types, OtherTypes
<1>6. i \in Nat
  OBVIOUS
<1>7. QED
  BY <1>1, <1>3, <1>4, <1>5, <1>6, CallInv1 DEF Committing

\* block_cache_discard() keeps the first invariant.
LEMMA FreeInv1 ==
    ASSUME Inv1, NEW b \in Blocks, CacheDiscard(b)
    PROVE  Inv1'
<1> DEFINE S == {x \in {b} : block[x].previous # NoId}
<1>1. /\ Idle /\ BusyWriting = {} /\ Call("discard", b, FALSE, S)
  BY DEF CacheDiscard, TransactionLock
<1>2. Types
  BY InvParts
<1>3. S \in SUBSET Blocks /\ S \subseteq {b} /\ (\A x \in S : MayBeWritten(block[x]))
      /\ (block[b].previous # NoId => b \in S)
  BY DEF MayBeWritten
<1> HIDE DEF S
<1>4. OtherTypes'
  <2>1. toWrite' \in [Writers -> SUBSET Blocks] /\ written' = written
    <3>1. toWrite \in [Writers -> SUBSET Blocks]
      BY <1>2 DEF Types, OtherTypes
    <3>2. toWrite' \in {toWrite, [toWrite EXCEPT !["client"] = S]} /\ written' = written
      BY <1>1 DEF Call
    <3>3. QED
      BY <1>3, <3>1, <3>2
  <2>2. disk' = disk /\ notifying' = notifying
    BY <1>1 DEF Call
  <2>3. QED
    BY <1>1, <1>2, <2>1, <2>2 DEF Types, OtherTypes
<1>5. b \in Nat
  BY BlockCacheAssumption
<1>6. QED
  BY <1>1, <1>3, <1>4, <1>5, CallInv1 DEF Committing

\* block_cache_sync() and cache_sync_transaction()
LEMMA SyncInv1 ==
    ASSUME Inv1, NEW arg \in Nat, NEW S \in SUBSET Blocks, Idle,
           Call("sync", arg, FALSE, S),
           \A b \in S : MayBeWritten(block[b]) /\ b \notin BusyWriting
    PROVE  Inv1'
<1>1. Types
  BY InvParts
<1>2. OtherTypes'
  <2>1. toWrite' \in [Writers -> SUBSET Blocks] /\ written' = written
    <3>1. toWrite \in [Writers -> SUBSET Blocks]
      BY <1>1 DEF Types, OtherTypes
    <3>2. toWrite' \in {toWrite, [toWrite EXCEPT !["client"] = S]} /\ written' = written
      BY DEF Call
    <3>3. QED
      BY <3>1, <3>2
  <2>2. disk' = disk /\ notifying' = notifying
    BY DEF Call
  <2>3. QED
    BY <1>1, <2>1, <2>2 DEF Types, OtherTypes
<1>3. QED
  BY <1>2, CallInv1 DEF Committing

\* cache_sync_transaction() keeps the first invariant.
LEMMA SyncTransactionInv1 ==
    ASSUME Inv1, NEW i \in Ids, SyncTransaction(i)
    PROVE  Inv1'
<1> DEFINE J == {k \in 1..i : transaction[k].state = "closed"}
           S == UNION {InPrevious(Cache, j) : j \in J}
<1>1. Idle /\ BusyWriting = {} /\ Call("sync", i, FALSE, S)
  BY DEF SyncTransaction, TransactionLock
<1>2. \A b \in S : b \in Blocks /\ block[b].previous \in 1..i
  BY InvParts DEF InPrevious
<1>3. S \in SUBSET Blocks /\ \A b \in S : MayBeWritten(block[b]) /\ b \notin BusyWriting
  <2> HIDE DEF S
  <2>1. S \in SUBSET Blocks
    BY <1>2
  <2>2. QED
    BY <1>1, <1>2, <2>1 DEF MayBeWritten
<1> HIDE DEF S
<1>4. i \in Nat
  OBVIOUS
<1>5. QED
  BY <1>1, <1>3, <1>4, SyncInv1

\* block_cache_sync() keeps the first invariant.
LEMMA SyncAllInv1 ==
    ASSUME Inv1, SyncAll
    PROVE  Inv1'
<1> DEFINE S == {b \in Blocks : CanBeWritten(b)}
<1>1. Idle /\ Call("sync", NoId, FALSE, S)
  BY DEF SyncAll
<1>2. S \in SUBSET Blocks /\ \A b \in S : MayBeWritten(block[b]) /\ b \notin BusyWriting
  BY DEF CanBeWritten, MayBeWritten
<1> HIDE DEF S
<1>3. QED
  BY <1>1, <1>2, SyncInv1

-----------------------------------------------------------------------------
(* The writers, the notifications, and readers *)

\* A call in progress still finds its transaction if what happens meanwhile leaves that
\* transaction and the copies of its blocks alone.
LEMMA ClosingFrame ==
    ASSUME NEW c, NEW d, NEW next, NEW op, NEW i, NEW B, NEW C, Closing(c, next, op, i, B),
           IsOpen(d, i), d.transaction[i].hasSub = c.transaction[i].hasSub,
           d.transaction[i].main = c.transaction[i].main,
           d.transaction[i].sub = c.transaction[i].sub,
           \A b \in Blocks :
                /\ d.block[b].transaction = c.block[b].transaction
                /\ c.block[b].transaction = i =>
                        /\ d.block[b].parent = c.block[b].parent
                        /\ d.block[b].original = c.block[b].original
                        /\ d.block[b].discard = c.block[b].discard
                        /\ d.block[b].previous # NoId => b \in C
    PROVE  Closing(d, next, op, i, C)
<1>1. InTransaction(d, i) = InTransaction(c, i)
  BY DEF InTransaction
<1>2. \A b \in InTransaction(c, i) : b \in Blocks /\ c.block[b].transaction = i
  BY DEF InTransaction
<1>3. /\ SubPart(d, i) = SubPart(c, i) /\ MainPart(d, i) = MainPart(c, i)
      /\ Discarded(d, i) = Discarded(c, i)
  BY <1>1, <1>2 DEF SubPart, MainPart, Discarded
<1>4. ASSUME Divided(c, i) PROVE Divided(d, i)
  <2>1. \A b \in InTransaction(d, i) : DividedBlock(d.block[b])
    BY <1>1, <1>2, <1>4 DEF Divided, DividedBlock
  <2>2. QED
    BY <1>3, <1>4, <2>1 DEF Divided
<1>5. QED
  BY <1>1, <1>2, <1>4 DEF Closing

\* The same for blocks that are done: the ones in S do not wait any longer.
LEMMA ClosingDone ==
    ASSUME NEW c, NEW next \in Nat, CacheOK(c, next), NEW S \in SUBSET Blocks,
           NEW d, d = BlocksDone(c, S), NEW op, NEW i, NEW B, Closing(c, next, op, i, B)
    PROVE  Closing(d, next, op, i, B \ S)
<1>1. i \in Ids /\ IsOpen(c, i)
  BY DEF Closing
<1>2. \A b \in Blocks : d.block[b] = IF b \in S THEN Done(c.block[b]) ELSE c.block[b]
  BY BlocksDoneParts
<1>3. SameButNum(d.transaction[i], c.transaction[i])
  <2>1. TransactionDone(c, d, S, i)
    BY <1>1, BlocksDoneParts
  <2>2. QED
    BY <1>1, <2>1 DEF TransactionDone, IsOpen
<1>4. ASSUME NEW b \in Blocks
      PROVE  /\ d.block[b].transaction = c.block[b].transaction
             /\ c.block[b].transaction = i =>
                        /\ d.block[b].parent = c.block[b].parent
                        /\ d.block[b].original = c.block[b].original
                        /\ d.block[b].discard = c.block[b].discard
                        /\ d.block[b].previous # NoId => b \in B \ S
  <2>1. c.block[b] \in BlockType
    BY CacheParts
  <2>2. CASE b \in S
    <3>1. d.block[b] = Done(c.block[b])
      BY <1>2, <2>2
    <3>2. QED
      BY <1>1, <2>1, <3>1, DoneType
  <2>3. CASE b \notin S
    <3>1. d.block[b] = c.block[b]
      BY <1>2, <2>3
    <3>2. c.block[b].transaction = i /\ c.block[b].previous # NoId => b \in B
      BY DEF Closing, InTransaction
    <3>3. QED
      BY <2>3, <3>1, <3>2
  <2>4. QED
    BY <2>2, <2>3
<1>5. /\ IsOpen(d, i) /\ d.transaction[i].hasSub = c.transaction[i].hasSub
      /\ d.transaction[i].main = c.transaction[i].main
      /\ d.transaction[i].sub = c.transaction[i].sub
  BY <1>1, <1>3 DEF SameButNum, IsOpen
<1>6. QED
  BY <1>4, <1>5, ClosingFrame

\* A step that is not the client's: what has to be shown.
LEMMA OthersFrame ==
    ASSUME Inv1, OtherTypes', CacheOK(Cache, nextId)', UNCHANGED <<nextId, call>>,
           SyncOK', WritersOK', Notified', Busy("client")' = Busy("client"),
           Committing(call.op) => Closing(Cache', nextId, call.op, call.arg, Busy("client"))
    PROVE  Inv1'
<1>1. Types'
  BY DEF Inv1, Types
<1>2. CallOK'
  BY DEF Inv1, CallOK
<1>3. QED
  BY <1>1, <1>2 DEF Inv1

\* One block is written (BlockWriter::_WriteBlock()).
LEMMA WriteBlockInv1 ==
    ASSUME Inv1, NEW w \in Writers, WriteBlock(w)
    PROVE  Inv1'
<1> DEFINE b == Min(toWrite[w])
<1>1. /\ toWrite[w] # {} /\ disk' = [disk EXCEPT ![b] = Data(block[b])]
      /\ toWrite' = [toWrite EXCEPT ![w] = @ \ {b}]
      /\ written' = [written EXCEPT ![w] = @ \cup {b}]
      /\ UNCHANGED <<block, transaction, nextId, events, notifying, call>>
  BY DEF WriteBlock
<1>2. Types /\ toWrite[w] \in SUBSET Blocks
      /\ toWrite \in [Writers -> SUBSET Blocks] /\ written \in [Writers -> SUBSET Blocks]
      /\ \A x \in Blocks : block[x] \in BlockType /\ ShapeOf(Cache, block[x])
  BY InvParts DEF Types, OtherTypes
<1>3. b \in toWrite[w] /\ b \in Blocks
  <2>1. toWrite[w] \in SUBSET Nat
    BY <1>2, BlockCacheAssumption
  <2>2. QED
    BY <1>1, <1>2, <2>1, MinIn
<1> HIDE DEF b
<1>4. /\ Busy("client")' = Busy("client") /\ Busy("background")' = Busy("background")
      /\ Busy("memory")' = Busy("memory")
  BY <1>1, <1>2, <1>3 DEF Busy, Writers
<1>5. Data(block[b]) \in Values
  <2>1. b \in BusyWriting
    BY <1>3 DEF BusyWriting, Busy, Writers
  <2>2. MayBeWritten(block[b])
    BY <2>1 DEF Inv1, WritersOK
  <2>3. block[b] \in BlockType /\ ShapeOf(Cache, block[b])
    BY <1>2, <1>3
  <2>4. block[b].cached
    BY <2>2, <2>3, AbsentIs DEF ShapeOf, MayBeWritten
  <2>5. block[b].current \in Values
    BY <2>3, <2>4 DEF ShapeOf, BlockType
  <2>6. block[b].original \in Values \cup {NoData}
    BY <2>3 DEF BlockType
  <2>7. QED
    BY <2>5, <2>6 DEF Data, WritesOriginal
<1>6. OtherTypes'
  <2>1. disk' \in [Blocks -> Values]
    BY <1>1, <1>2, <1>5 DEF Types, OtherTypes
  <2>2. toWrite' \in [Writers -> SUBSET Blocks] /\ written' \in [Writers -> SUBSET Blocks]
    BY <1>1, <1>2, <1>3
  <2>3. QED
    BY <1>1, <1>2, <2>1, <2>2 DEF Types, OtherTypes
<1>7. Cache' = Cache
  BY <1>1 DEF Cache
<1>8. BusyWriting' = BusyWriting
  BY <1>4 DEF BusyWriting
<1>9. WritersOK' /\ SyncOK' /\ Notified'
  BY <1>1, <1>4, <1>8 DEF Inv1, WritersOK, Disjoint, SyncOK, Notified
<1>10. CacheOK(Cache, nextId)'
  BY <1>1, <1>7 DEF Inv1
<1>11. Committing(call.op) => Closing(Cache', nextId, call.op, call.arg, Busy("client"))
  BY <1>7 DEF Inv1, CallOK
<1>12. QED
  BY <1>1, <1>4, <1>6, <1>9, <1>10, <1>11, OthersFrame

\* A writer that has no blocks marks some.
LEMMA MarksInv1 ==
    ASSUME Inv1, NEW w \in {"background", "memory"}, Busy(w) = {},
           NEW S \in SUBSET Blocks, toWrite' = [toWrite EXCEPT ![w] = S],
           \A b \in S : b \notin BusyWriting /\ MayBeWritten(block[b]),
           w = "memory" => \A b \in S : Loose(block[b]),
           UNCHANGED <<block, transaction, nextId, events, notifying, written, call, disk>>
    PROVE  Inv1'
<1>1. Types /\ toWrite \in [Writers -> SUBSET Blocks]
  BY InvParts DEF Types, OtherTypes
<1>2. /\ Busy(w)' = S
      /\ \A x \in Writers : x # w => Busy(x)' = Busy(x)
  BY <1>1 DEF Busy, Writers
<1>3. OtherTypes'
  <2>1. toWrite' \in [Writers -> SUBSET Blocks]
    BY <1>1
  <2>2. QED
    BY <1>1, <2>1 DEF Types, OtherTypes
<1>4. WritersOK'
  <2>1. /\ \A b \in BusyWriting : MayBeWritten(block[b])
        /\ \A b \in Busy("memory") : Loose(block[b])
        /\ Disjoint
    BY DEF Inv1, WritersOK
  <2>2. /\ Busy("client")' = Busy("client")
        /\ Busy("background")' = IF w = "background" THEN S ELSE Busy("background")
        /\ Busy("memory")' = IF w = "memory" THEN S ELSE Busy("memory")
    BY <1>2 DEF Writers
  <2>3. \A b \in BusyWriting' : b \in S \/ b \in BusyWriting
    BY <2>2 DEF BusyWriting
  <2>4. \A b \in S : b \notin Busy("client") /\ b \notin Busy("background") /\ b \notin Busy("memory")
    BY DEF BusyWriting
  <2>5. Disjoint'
    BY <2>1, <2>2, <2>4 DEF Disjoint
  <2>6. \A b \in BusyWriting' : MayBeWritten(block[b])
    BY <2>1, <2>3
  <2>7. \A b \in Busy("memory")' : Loose(block[b])
    BY <2>1, <2>2
  <2>8. QED
    BY <2>5, <2>6, <2>7 DEF WritersOK
<1>5. Cache' = Cache /\ Busy("client")' = Busy("client")
  BY <1>2 DEF Cache, Writers
<1>6. SyncOK' /\ Notified' /\ CacheOK(Cache, nextId)'
  BY <1>5 DEF Inv1, SyncOK, Notified
<1>7. Committing(call.op) => Closing(Cache', nextId, call.op, call.arg, Busy("client"))
  BY <1>5 DEF Inv1, CallOK
<1>8. QED
  BY <1>3, <1>4, <1>5, <1>6, <1>7, OthersFrame

\* The background writer marks blocks.
LEMMA BackgroundTakesInv1 ==
    ASSUME Inv1, BackgroundTakes
    PROVE  Inv1'
<1>1. PICK S \in SUBSET {b \in Blocks : CanBeWritten(b)} :
            toWrite' = [toWrite EXCEPT !["background"] = S]
  BY DEF BackgroundTakes
<1>2. /\ Busy("background") = {}
      /\ UNCHANGED <<block, transaction, nextId, events, notifying, written, call, disk>>
  BY DEF BackgroundTakes
<1>3. S \in SUBSET Blocks /\ \A b \in S : b \notin BusyWriting /\ MayBeWritten(block[b])
  BY DEF CanBeWritten, MayBeWritten
<1>4. PICK w \in {"background", "memory"} : w = "background"
  OBVIOUS
<1>5. QED
  BY <1>1, <1>2, <1>3, <1>4, MarksInv1

\* What the writers rely on once a write has ended: the blocks of the other writers are
\* left alone, nobody asks for a notification, and deleted transactions stay deleted.
LEMMA WriteEndsParts ==
    ASSUME Inv1, NEW S \in SUBSET BusyWriting, NEW d, d = BlocksDone(Cache, S)
    PROVE  /\ CacheOK(d, nextId)
           /\ \A b \in BusyWriting \ S :
                b \in Blocks /\ d.block[b] = block[b] /\ MayBeWritten(d.block[b])
           /\ \A k \in 1..Len(d.events) :
                \/ k \in 1..Len(events) /\ d.events[k] = events[k]
                \/ d.events[k] # Sync
           /\ \A i \in Ids : transaction[i].state = "gone" => d.transaction[i].state = "gone"
<1>1. /\ CacheOK(Cache, nextId) /\ nextId \in Nat /\ Types
      /\ Cache.block = block /\ Cache.transaction = transaction /\ Cache.events = events
  BY InvParts
<1>2. \A b \in BusyWriting : b \in Blocks /\ MayBeWritten(block[b])
  BY <1>1 DEF Types, OtherTypes, BusyWriting, Busy, Writers, Inv1, WritersOK
<1>3. S \in SUBSET Blocks /\ \A b \in S : MayBeWritten(block[b])
  BY <1>2
<1>4. CacheOK(d, nextId)
  BY <1>1, <1>3, BlocksDoneOK
<1>5. \A b \in Blocks : d.block[b] = IF b \in S THEN Done(block[b]) ELSE block[b]
  BY <1>1, <1>3, BlocksDoneParts
<1>6. \A b \in BusyWriting \ S :
            b \in Blocks /\ d.block[b] = block[b] /\ MayBeWritten(d.block[b])
  BY <1>2, <1>5
<1>7. \A k \in 1..Len(d.events) :
                \/ k \in 1..Len(events) /\ d.events[k] = events[k]
                \/ d.events[k] # Sync
  <2>1. \A k \in 1..Len(d.events) :
            (k \in 1..Len(events) /\ d.events[k] = events[k]) \/ d.events[k] \in Ids
    BY <1>1, <1>3, BlocksDoneParts
  <2>2. QED
    BY <2>1
<1>8. ASSUME NEW i \in Ids, transaction[i].state = "gone" PROVE d.transaction[i].state = "gone"
  <2>1. TransactionDone(Cache, d, S, i)
    BY <1>1, <1>3, BlocksDoneParts
  <2>2. QED
    BY <1>1, <1>8, <2>1 DEF TransactionDone, SameButNum, IsGone
<1>9. QED
  BY <1>4, <1>6, <1>7, <1>8

\* The cache after a write: what was written is done, and some of it dropped.
DoneOrDropped(d, e, S) ==
    /\ e.transaction = d.transaction /\ e.events = d.events
    /\ \A b \in Blocks \ S : e.block[b] = d.block[b]
    /\ \A b \in S : e.block[b] = d.block[b] \/ (Loose(d.block[b]) /\ e.block[b] = Absent)

\* The background writer, or the one that drops blocks, is done.
LEMMA WriterDoneInv1 ==
    ASSUME Inv1, NEW w \in {"background", "memory"}, WriteEnds(w), UNCHANGED <<nextId, call>>,
           NEW d, d = BlocksDone(Cache, written[w]), NEW e, DoneOrDropped(d, e, written[w]),
           CacheOK(e, nextId), Cache' = e
    PROVE  Inv1'
<1> DEFINE S == written[w]
<1>1. /\ toWrite[w] = {} /\ written' = [written EXCEPT ![w] = {}]
      /\ UNCHANGED <<nextId, call, notifying, toWrite, disk>>
  BY DEF WriteEnds
<1>2. /\ CacheOK(Cache, nextId) /\ nextId \in Nat /\ Types
      /\ Cache.block = block /\ Cache.transaction = transaction /\ Cache.events = events
      /\ toWrite \in [Writers -> SUBSET Blocks] /\ written \in [Writers -> SUBSET Blocks]
  BY InvParts DEF Types, OtherTypes
<1>3. /\ Busy(w) = S /\ Busy(w)' = {}
      /\ \A x \in Writers : x # w => Busy(x)' = Busy(x)
      /\ Busy("client")' = Busy("client")
  BY <1>1, <1>2 DEF Busy, Writers
<1>4. S \in SUBSET BusyWriting /\ S \in SUBSET Blocks /\ Busy("client") \cap S = {}
  BY <1>2, <1>3 DEF BusyWriting, Writers, Inv1, WritersOK, Disjoint
<1>5. /\ \A b \in BusyWriting \ S :
            b \in Blocks /\ d.block[b] = block[b] /\ MayBeWritten(d.block[b])
      /\ \A k \in 1..Len(d.events) :
                \/ k \in 1..Len(events) /\ d.events[k] = events[k]
                \/ d.events[k] # Sync
      /\ \A i \in Ids : transaction[i].state = "gone" => d.transaction[i].state = "gone"
  BY <1>4, WriteEndsParts
<1>6. block' = e.block /\ transaction' = d.transaction /\ events' = d.events
  BY DEF Cache, DoneOrDropped
<1>7. Committing(call.op) => Closing(e, nextId, call.op, call.arg, Busy("client"))
  <2> SUFFICES ASSUME Committing(call.op)
               PROVE  Closing(e, nextId, call.op, call.arg, Busy("client"))
    OBVIOUS
  <2>1. Closing(Cache, nextId, call.op, call.arg, Busy("client"))
    BY DEF Inv1, CallOK
  <2>2. Closing(d, nextId, call.op, call.arg, Busy("client") \ S)
    BY <1>2, <1>4, <2>1, ClosingDone
  <2>3. Busy("client") \ S = Busy("client")
    BY <1>4
  <2>4. Closing(d, nextId, call.op, call.arg, Busy("client"))
    BY <2>2, <2>3
  <2>5. call.arg \in Ids /\ IsOpen(d, call.arg) /\ call.arg # NoId
    BY <2>4, IdsAre DEF Closing
  <2> HIDE DEF S
  <2>6. ASSUME NEW b \in Blocks
        PROVE  /\ e.block[b].transaction = d.block[b].transaction
               /\ d.block[b].transaction = call.arg =>
                        /\ e.block[b].parent = d.block[b].parent
                        /\ e.block[b].original = d.block[b].original
                        /\ e.block[b].discard = d.block[b].discard
                        /\ e.block[b].previous # NoId => b \in Busy("client")
    <3>1. e.block[b] = d.block[b] \/ (Loose(d.block[b]) /\ e.block[b] = Absent)
      BY DEF DoneOrDropped
    <3>2. d.block[b].transaction = call.arg /\ d.block[b].previous # NoId => b \in Busy("client")
      BY <2>4 DEF Closing, InTransaction
    <3>3. CASE e.block[b] = d.block[b]
      BY <3>2, <3>3
    <3>4. CASE Loose(d.block[b]) /\ e.block[b] = Absent
      BY <2>5, <3>4, AbsentIs DEF Loose
    <3>5. QED
      BY <3>1, <3>3, <3>4
  <2>7. e.transaction = d.transaction
    BY DEF DoneOrDropped
  <2>8. IsOpen(e, call.arg)
    BY <2>5, <2>7 DEF IsOpen
  <2>9. QED
    BY <2>4, <2>6, <2>7, <2>8, ClosingFrame
<1> HIDE DEF S
<1>8. SyncOK'
  <2>1. /\ events' = d.events /\ call' = call
        /\ \A k \in 1..Len(events) : events[k] = Sync => call.op = "wait"
        /\ \A k, l \in 1..Len(events) : events[k] = Sync /\ events[l] = Sync => k = l
    BY <1>1, <1>6 DEF Inv1, SyncOK
  <2>2. \A k \in 1..Len(d.events) :
            d.events[k] = Sync => k \in 1..Len(events) /\ events[k] = Sync
    BY <1>5
  <2>3. QED
    BY <2>1, <2>2 DEF SyncOK
<1>9. WritersOK'
  <2>1. /\ Busy("client")' = Busy("client")
        /\ Busy("background")' = IF w = "background" THEN {} ELSE Busy("background")
        /\ Busy("memory")' = IF w = "memory" THEN {} ELSE Busy("memory")
    BY <1>3 DEF Writers
  <2>2. Disjoint /\ \A b \in Busy("memory") : Loose(block[b])
    BY DEF Inv1, WritersOK
  <2>3. Disjoint'
    BY <2>1, <2>2 DEF Disjoint
  <2>4. \A b \in BusyWriting' : b \in BusyWriting /\ b \notin S
    BY <1>3, <2>1, <2>2 DEF BusyWriting, Disjoint
  <2>5. \A b \in BusyWriting' : block'[b] = block[b] /\ MayBeWritten(block'[b])
    BY <1>5, <1>6, <2>4 DEF DoneOrDropped, S
  <2>6. \A b \in Busy("memory")' : b \in BusyWriting' /\ b \in Busy("memory")
    BY <2>1 DEF BusyWriting
  <2>7. QED
    BY <2>2, <2>3, <2>5, <2>6 DEF WritersOK
<1>10. Notified'
  <2>1. notifying \in Ids \cup {NoId} /\ notifying' = notifying
    BY <1>1, <1>2 DEF Types, OtherTypes
  <2>2. QED
    BY <1>1, <1>5, <1>6, <2>1 DEF Inv1, Notified
<1>11. OtherTypes'
  <2>1. written' \in [Writers -> SUBSET Blocks]
    BY <1>1, <1>2
  <2>2. QED
    BY <1>1, <1>2, <2>1 DEF Types, OtherTypes
<1>12. CacheOK(Cache, nextId)'
  BY <1>1
<1>13. QED
  BY <1>1, <1>3, <1>7, <1>8, <1>9, <1>10, <1>11, <1>12, OthersFrame

\* What was written is consistent.
LEMMA WriterBlocksDone ==
    ASSUME Inv1, NEW w \in Writers, NEW d, d = BlocksDone(Cache, written[w])
    PROVE  /\ CacheOK(d, nextId) /\ written[w] \in SUBSET Blocks
           /\ d = [block |-> d.block, transaction |-> d.transaction, events |-> d.events]
           /\ \A b \in written[w] : d.block[b] = Done(block[b]) /\ block[b] \in BlockType
<1>1. written[w] \in SUBSET BusyWriting /\ written[w] \in SUBSET Blocks
  BY InvParts DEF Types, OtherTypes, BusyWriting, Busy, Writers
<1>2. CacheOK(d, nextId)
  BY <1>1, WriteEndsParts
<1>3. \A b \in Blocks : d.block[b] = IF b \in written[w] THEN Done(block[b]) ELSE block[b]
  BY <1>1, InvParts, BlocksDoneParts
<1>4. d = [block |-> d.block, transaction |-> d.transaction, events |-> d.events]
  BY DEF BlocksDone
<1>5. QED
  BY <1>1, <1>2, <1>3, <1>4, InvParts

\* The background writer marks its blocks clean.
LEMMA BackgroundWrittenInv1 ==
    ASSUME Inv1, BackgroundWritten
    PROVE  Inv1'
<1>1. PICK w \in {"background", "memory"} : w = "background"
  OBVIOUS
<1> DEFINE d == BlocksDone(Cache, written[w])
<1>2. WriteEnds(w) /\ Becomes(d) /\ UNCHANGED <<nextId, call>>
  BY <1>1 DEF BackgroundWritten
<1>3. /\ CacheOK(d, nextId)
      /\ d = [block |-> d.block, transaction |-> d.transaction, events |-> d.events]
  BY WriterBlocksDone DEF Writers
<1> HIDE DEF d
<1>4. Cache' = d
  BY <1>2, <1>3 DEF Cache, Becomes
<1>5. DoneOrDropped(d, d, written[w])
  BY DEF DoneOrDropped
<1>6. QED
  BY <1>2, <1>3, <1>4, <1>5, WriterDoneInv1 DEF d

\* Blocks that belong to no transaction may be dropped.
LEMMA DroppedOK ==
    ASSUME NEW c, NEW next \in Nat, CacheOK(c, next), NEW S \in SUBSET Blocks,
           \A b \in S : Loose(c.block[b]),
           NEW d, d = [c EXCEPT !.block = [b \in Blocks |-> IF b \in S THEN Absent
                                                             ELSE c.block[b]]]
    PROVE  CacheOK(d, next)
<1>1. /\ c.block \in [Blocks -> BlockType] /\ c.transaction \in [Ids -> TransactionType]
      /\ c.events \in Seq(Ids \cup {Sync}) /\ c \in CacheType
  BY CacheParts DEF CacheOK
<1>2. /\ d.block = [b \in Blocks |-> IF b \in S THEN Absent ELSE c.block[b]]
      /\ d.transaction = c.transaction /\ d.events = c.events
      /\ d = [block |-> d.block, transaction |-> d.transaction, events |-> d.events]
  BY <1>1 DEF CacheType
<1>3. \A x \in Blocks : d.block[x] = IF x \in S THEN Absent ELSE c.block[x]
  BY <1>2
<1>4. d \in CacheType
  <2>1. d.block \in [Blocks -> BlockType]
    BY <1>1, <1>2, AbsentIs
  <2>2. QED
    BY <1>1, <1>2, <2>1 DEF CacheType
<1>5. Shape(d)
  <2> SUFFICES ASSUME NEW x \in Blocks PROVE ShapeOf(d, d.block[x])
    BY DEF Shape
  <2>1. ShapeOf(c, d.block[x])
    BY <1>3, CacheParts, AbsentIs
  <2>2. QED
    BY <1>2, <2>1 DEF ShapeOf, IsOpen
<1>6. \A x \in Blocks : /\ d.block[x].transaction = c.block[x].transaction
                        /\ d.block[x].previous = c.block[x].previous
  BY <1>3, AbsentIs DEF Loose
<1>7. \A i \in Ids : InTransaction(d, i) = InTransaction(c, i) /\ InPrevious(d, i) = InPrevious(c, i)
  BY <1>6 DEF InTransaction, InPrevious
<1>8. Transactions(d, next) /\ Counts(d)
  <2>1. Transactions(c, next) /\ Counts(c)
    BY CacheParts
  <2>2. QED
    BY <1>2, <1>7, <2>1 DEF Transactions, Counts, IsOpen
<1>9. QED
  BY <1>4, <1>5, <1>8 DEF CacheOK

\* The blocks that were written to be dropped are dropped.
LEMMA WrittenRemovedInv1 ==
    ASSUME Inv1, WrittenRemoved
    PROVE  Inv1'
<1>1. PICK w \in {"background", "memory"} : w = "memory"
  OBVIOUS
<1> DEFINE d == BlocksDone(Cache, written[w])
           B == [b \in Blocks |-> IF b \in written[w] THEN Absent ELSE d.block[b]]
           e == [d EXCEPT !.block = B]
<1>2. WriteEnds(w) /\ Becomes(e) /\ UNCHANGED <<nextId, call>>
  BY <1>1 DEF WrittenRemoved
<1>3. /\ CacheOK(d, nextId) /\ written[w] \in SUBSET Blocks
      /\ d = [block |-> d.block, transaction |-> d.transaction, events |-> d.events]
      /\ \A b \in written[w] : d.block[b] = Done(block[b]) /\ block[b] \in BlockType
  BY WriterBlocksDone DEF Writers
<1> HIDE DEF d
<1>4. /\ e.block = B /\ e.transaction = d.transaction /\ e.events = d.events
      /\ e = [block |-> e.block, transaction |-> e.transaction, events |-> e.events]
  BY <1>3
<1>5. \A b \in written[w] : Loose(block[b])
  BY <1>1 DEF Inv1, WritersOK, Busy
<1>6. \A b \in written[w] : Loose(d.block[b])
  BY <1>3, <1>5, DoneType DEF Loose
<1>7. CacheOK(e, nextId)
  BY <1>3, <1>6, InvParts, DroppedOK
<1>8. DoneOrDropped(d, e, written[w])
  <2>1. \A b \in Blocks : e.block[b] = IF b \in written[w] THEN Absent ELSE d.block[b]
    BY <1>4
  <2>2. QED
    BY <1>3, <1>4, <1>6, <2>1 DEF DoneOrDropped
<1> HIDE DEF e
<1>9. Cache' = e
  BY <1>2, <1>4 DEF Cache, Becomes
<1>10. QED
  BY <1>2, <1>7, <1>8, <1>9, WriterDoneInv1 DEF d

\* A call whose blocks S are done may finish, and finishing it leaves the blocks of the
\* other writers alone.
CallMayFinish(d, S) ==
    /\ CacheOK(d, nextId)
    /\ call.op \in {"end", "detach", "discard", "sync"} /\ call.arg \in Nat
    /\ call.hook \in BOOLEAN /\ Finish(d, call.op, call.arg, call.hook)
    /\ CanFinish(d, nextId, call.op, call.arg) /\ NoSync(d)
    /\ S \in SUBSET BusyWriting /\ S \in SUBSET Blocks
    /\ Busy("client")' = {} /\ Busy("background")' = Busy("background")
    /\ Busy("memory")' = Busy("memory")
    /\ \A b \in Blocks : d.block[b] = IF b \in S THEN Done(block[b]) ELSE block[b]
    /\ \A b \in Busy("background") \cup Busy("memory") : b \notin S
    /\ LeavesWriters(d, call.op, call.arg)
    /\ \A i \in Ids : transaction[i].state = "gone" => d.transaction[i].state = "gone"

\* When the client's writer is done its call may finish.
LEMMA ClientWrittenParts ==
    ASSUME Inv1, ClientWritten, NEW S, S = written["client"], NEW d, d = BlocksDone(Cache, S)
    PROVE  CallMayFinish(d, S)
<1>1. /\ toWrite["client"] = {} /\ S # {} /\ written' = [written EXCEPT !["client"] = {}]
      /\ Finish(d, call.op, call.arg, call.hook) /\ UNCHANGED <<notifying, toWrite, disk>>
  BY DEF ClientWritten, WriteEnds
<1>2. /\ CacheOK(Cache, nextId) /\ nextId \in Nat /\ Types
      /\ Cache.block = block /\ Cache.transaction = transaction /\ Cache.events = events
  BY InvParts
<1>3. /\ Busy("client") = S /\ Busy("client")' = {}
      /\ Busy("background")' = Busy("background") /\ Busy("background") \cap S = {}
      /\ Busy("memory")' = Busy("memory") /\ Busy("memory") \cap S = {}
  BY <1>1, <1>2 DEF Busy, Types, OtherTypes, Writers, Inv1, WritersOK, Disjoint
<1>4. S \in SUBSET BusyWriting /\ S \in SUBSET Blocks
  BY <1>2, <1>3 DEF BusyWriting, Types, OtherTypes, Writers
<1>5. /\ CacheOK(d, nextId)
      /\ \A b \in BusyWriting \ S :
            b \in Blocks /\ d.block[b] = block[b] /\ MayBeWritten(d.block[b])
      /\ \A k \in 1..Len(d.events) :
                \/ k \in 1..Len(events) /\ d.events[k] = events[k]
                \/ d.events[k] # Sync
      /\ \A i \in Ids : transaction[i].state = "gone" => d.transaction[i].state = "gone"
  BY <1>4, WriteEndsParts
<1>6. call.op \in {"end", "detach", "discard", "sync"} /\ call.arg \in Nat /\ call.hook \in BOOLEAN
  BY <1>1, <1>2, <1>3 DEF Inv1, CallOK, Types, CallType
<1>7. ASSUME Committing(call.op)
      PROVE  /\ Closing(Cache, nextId, call.op, call.arg, S)
             /\ Closing(d, nextId, call.op, call.arg, {})
  <2>1. Closing(Cache, nextId, call.op, call.arg, S)
    BY <1>3, <1>7 DEF Inv1, CallOK
  <2>2. Closing(d, nextId, call.op, call.arg, S \ S)
    BY <1>2, <1>4, <2>1, ClosingDone
  <2>3. S \ S = {}
    OBVIOUS
  <2>4. QED
    BY <2>1, <2>2, <2>3
<1>8. \A b \in Blocks : d.block[b] = IF b \in S THEN Done(block[b]) ELSE block[b]
  BY <1>2, <1>4, BlocksDoneParts
<1>9. CanFinish(d, nextId, call.op, call.arg)
  <2>1. ASSUME call.op = "discard"
        PROVE  call.arg \in Blocks /\ d.block[call.arg].previous = NoId
    <3>1. call.arg \in S /\ call.arg \in Blocks
      BY <1>3, <1>4, <2>1 DEF Inv1, CallOK
    <3>2. d.block[call.arg] = Done(block[call.arg]) /\ block[call.arg] \in BlockType
      BY <1>8, <3>1, InvParts
    <3>3. QED
      BY <3>1, <3>2, DoneType
  <2>2. QED
    BY <1>6, <1>7, <2>1 DEF CanFinish
<1>10. NoSync(d)
  BY <1>5, <1>6 DEF NoSync, Inv1, SyncOK
<1>11. ASSUME NEW b \in Busy("background") \cup Busy("memory")
       PROVE  /\ b \in Blocks /\ b \notin S /\ MayBeWritten(d.block[b])
              /\ d.block[b] = block[b] /\ Apart(d, call.op, call.arg, b)
  <2>1. b \notin S /\ b \in BusyWriting
    BY <1>3 DEF BusyWriting
  <2>2. b \in Blocks /\ MayBeWritten(d.block[b]) /\ d.block[b] = block[b]
    BY <1>5, <1>8, <2>1
  <2>3. ASSUME Committing(call.op) PROVE block[b].transaction = NoId
    <3>1. call.arg \in Ids /\ IsOpen(Cache, call.arg)
      BY <1>7, <2>3 DEF Closing
    <3>2. block[b].transaction \in {NoId, call.arg}
      BY <1>2, <2>2, <3>1, OnlyOpen
    <3>3. block[b].transaction = call.arg => block[b].previous = NoId
      BY <1>2, <1>7, <2>1, <2>2, <2>3 DEF Closing, InTransaction
    <3>4. QED
      BY <2>2, <3>1, <3>2, <3>3 DEF MayBeWritten
  <2>4. call.op = "discard" => b # call.arg
    BY <1>3, <2>1 DEF Inv1, CallOK
  <2>5. QED
    BY <2>1, <2>2, <2>3, <2>4 DEF Apart
<1>12. LeavesWriters(d, call.op, call.arg)
  <2>1. /\ Busy("background") \cap Busy("memory") = {}
        /\ \A b \in Busy("memory") : Loose(block[b])
    BY DEF Inv1, WritersOK, Disjoint
  <2>2. \A b \in Busy("memory") : Loose(d.block[b])
    BY <1>11, <2>1
  <2>3. QED
    BY <1>11, <2>1, <2>2 DEF LeavesWriters
<1>13. QED
  BY <1>1, <1>3, <1>4, <1>5, <1>6, <1>8, <1>9, <1>10, <1>11, <1>12 DEF CallMayFinish

\* The client's writer marks its blocks clean, and the call goes on.
LEMMA ClientWrittenInv1 ==
    ASSUME Inv1, ClientWritten
    PROVE  Inv1'
<1> DEFINE S == written["client"]
           d == BlocksDone(Cache, S)
<1>1. CallMayFinish(d, S)
  BY ClientWrittenParts
<1> HIDE DEF d, S
<1>2. /\ written' = [written EXCEPT !["client"] = {}]
      /\ UNCHANGED <<notifying, toWrite, disk>>
  BY DEF ClientWritten, WriteEnds
<1>3. Types /\ nextId \in Nat
  BY InvParts
<1>4. OtherTypes'
  <2>1. written' \in [Writers -> SUBSET Blocks]
    BY <1>2, <1>3 DEF Types, OtherTypes
  <2>2. QED
    BY <1>2, <1>3, <2>1 DEF Types, OtherTypes
<1>5. /\ notifying' = notifying /\ notifying \in Ids \cup {NoId}
      /\ notifying # NoId => notifying < nextId /\ d.transaction[notifying].state = "gone"
  <2>1. notifying \in Ids \cup {NoId} /\ notifying' = notifying
    BY <1>2, <1>3 DEF Types, OtherTypes
  <2>2. QED
    BY <1>1, <2>1 DEF Inv1, Notified, CallMayFinish
<1>6. QED
  BY <1>1, <1>3, <1>4, <1>5, FinishInv1 DEF CallMayFinish

\* The next notification is taken.
LEMMA TakeEventInv1 ==
    ASSUME Inv1, TakeEvent
    PROVE  Inv1'
<1>1. /\ events # <<>> /\ events' = Tail(events)
      /\ UNCHANGED <<block, transaction, nextId, toWrite, written, disk>>
      /\ Head(events) = Sync => call' = NoCall /\ notifying' = notifying
      /\ Head(events) # Sync => notifying' = Head(events) /\ call' = call
  BY DEF TakeEvent
<1>2. /\ CacheOK(Cache, nextId) /\ nextId \in Nat /\ Types
      /\ Cache.block = block /\ Cache.transaction = transaction /\ Cache.events = events
      /\ events \in Seq(Ids \cup {Sync})
      /\ \A k \in 1..Len(events) : events[k] # Sync =>
            events[k] < nextId /\ transaction[events[k]].state = "gone"
  BY InvParts, CacheParts DEF Transactions
<1>3. /\ events' \in Seq(Ids \cup {Sync}) /\ 1 \in 1..Len(events) /\ Head(events) = events[1]
      /\ \A k \in 1..Len(events') : k + 1 \in 1..Len(events) /\ events'[k] = events[k + 1]
      /\ Head(events) \in Ids \cup {Sync}
  BY <1>1, <1>2
<1>4. CacheOK(Cache, nextId)'
  <2>1. Cache' = [block |-> Cache.block, transaction |-> Cache.transaction, events |-> events']
    BY <1>1, <1>2 DEF Cache
  <2>2. Cache \in CacheType /\ Shape(Cache) /\ Transactions(Cache, nextId) /\ Counts(Cache)
    BY <1>2 DEF CacheOK
  <2>3. Cache' \in CacheType
    BY <1>3, <2>1, <2>2 DEF CacheType
  <2>4. Shape(Cache') /\ Counts(Cache')
    BY <2>1, <2>2, ZenonT(30) DEF Shape, ShapeOf, Counts, IsOpen, InTransaction, InPrevious
  <2>5. Cache'.events = events' /\ Cache'.transaction = Cache.transaction
    BY <2>1
  <2>6. \A k \in 1..Len(events') : events'[k] # Sync =>
            events'[k] < nextId /\ transaction[events'[k]].state = "gone"
    BY <1>2, <1>3
  <2>7. Transactions(Cache', nextId)
    BY <1>2, <2>2, <2>5, <2>6 DEF Transactions, IsOpen
  <2>8. QED
    BY <1>1, <2>3, <2>4, <2>7 DEF CacheOK
<1>5. /\ Busy("client")' = Busy("client") /\ Busy("background")' = Busy("background")
      /\ Busy("memory")' = Busy("memory") /\ BusyWriting' = BusyWriting
  BY <1>1 DEF Busy, BusyWriting
<1>6. WritersOK'
  BY <1>1, <1>5 DEF Inv1, WritersOK, Disjoint
<1>7. CASE Head(events) = Sync
  <2>1. call.op = "wait" /\ \A k \in 1..Len(events) : events[k] = Sync => k = 1
    BY <1>3, <1>7 DEF Inv1, SyncOK
  <2>2. \A k \in 1..Len(events') : events'[k] # Sync
    BY <1>3, <2>1
  <2>3. call' \in CallType /\ call'.op = "none"
    <3>1. NoCall \in CallType /\ NoCall.op = "none"
      BY DEF NoCall, CallType, Ops
    <3>2. QED
      BY <1>1, <1>7, <3>1
  <2>4. SyncOK'
    BY <2>2 DEF SyncOK
  <2>5. CallOK'
    BY <1>5, <2>1, <2>3 DEF Inv1, CallOK, Committing
  <2>6. Notified'
    BY <1>1, <1>7 DEF Inv1, Notified
  <2>7. Types'
    BY <1>1, <1>2, <1>7, <2>3 DEF Types, OtherTypes
  <2>8. QED
    BY <1>4, <1>6, <2>4, <2>5, <2>6, <2>7 DEF Inv1
<1>8. CASE Head(events) # Sync
  <2>1. SyncOK'
    <3>1. \A k \in 1..Len(events') : events'[k] = Sync => call'.op = "wait"
      BY <1>1, <1>3, <1>8 DEF Inv1, SyncOK
    <3>2. ASSUME NEW k \in 1..Len(events'), NEW l \in 1..Len(events'),
                 events'[k] = Sync, events'[l] = Sync
          PROVE  k = l
      <4>1. k + 1 = l + 1
        BY <1>3, <3>2 DEF Inv1, SyncOK
      <4>2. QED
        BY <4>1
    <3>3. QED
      BY <3>1, <3>2 DEF SyncOK
  <2>2. Notified'
    BY <1>1, <1>2, <1>3, <1>8 DEF Notified
  <2>3. Cache'.block = Cache.block /\ Cache'.transaction = Cache.transaction
    BY <1>1 DEF Cache
  <2>4. Committing(call.op) => Closing(Cache', nextId, call.op, call.arg, Busy("client"))
    <3> SUFFICES ASSUME Committing(call.op)
                 PROVE  Closing(Cache', nextId, call.op, call.arg, Busy("client"))
      OBVIOUS
    <3>1. Closing(Cache, nextId, call.op, call.arg, Busy("client"))
      BY DEF Inv1, CallOK
    <3>2. IsOpen(Cache', call.arg)
      BY <2>3, <3>1 DEF Closing, IsOpen
    <3>3. \A b \in Blocks : Cache.block[b].transaction = call.arg =>
                                (Cache.block[b].previous # NoId => b \in Busy("client"))
      BY <3>1 DEF Closing, InTransaction
    <3>4. QED
      BY <2>3, <3>1, <3>2, <3>3, ClosingFrame
  <2>5. OtherTypes'
    BY <1>1, <1>2, <1>3, <1>8 DEF Types, OtherTypes
  <2>6. QED
    BY <1>1, <1>4, <1>5, <1>6, <1>8, <2>1, <2>2, <2>4, <2>5, OthersFrame
<1>9. QED
  BY <1>7, <1>8

\* A hook returns.
LEMMA HookReturnsInv1 ==
    ASSUME Inv1, HookReturns
    PROVE  Inv1'
<1>1. /\ notifying # NoId /\ notifying' = NoId
      /\ UNCHANGED <<block, transaction, nextId, events, toWrite, written, call, disk>>
  BY DEF HookReturns
<1>2. Cache' = Cache /\ BusyWriting' = BusyWriting
      /\ Busy("client")' = Busy("client") /\ Busy("background")' = Busy("background")
      /\ Busy("memory")' = Busy("memory")
  BY <1>1 DEF Cache, Busy, BusyWriting
<1>3. OtherTypes'
  BY <1>1 DEF Inv1, Types, OtherTypes
<1>4. SyncOK' /\ WritersOK' /\ Notified' /\ CacheOK(Cache, nextId)'
  BY <1>1, <1>2 DEF Inv1, SyncOK, WritersOK, Disjoint, Notified
<1>5. Committing(call.op) => Closing(Cache', nextId, call.op, call.arg, Busy("client"))
  BY <1>2 DEF Inv1, CallOK
<1>6. QED
  BY <1>1, <1>2, <1>3, <1>4, <1>5, OthersFrame

\* A change of one block by neither writer nor client.
LEMMA OneBlockInv1 ==
    ASSUME Inv1, NEW b \in Blocks, NEW s \in BlockType, block' = [block EXCEPT ![b] = s],
           ShapeOf(Cache, s), s.previous = block[b].previous,
           s.transaction = block[b].transaction, s.dirty = block[b].dirty \/ b \notin BusyWriting,
           block[b].transaction # NoId => /\ s.parent = block[b].parent
                                          /\ s.original = block[b].original
                                          /\ s.discard = block[b].discard,
           UNCHANGED <<transaction, nextId, events, notifying, toWrite, written, call, disk>>
    PROVE  Inv1'
<1>1. /\ CacheOK(Cache, nextId) /\ nextId \in Nat /\ Types /\ block \in [Blocks -> BlockType]
      /\ Cache.block = block /\ Cache.transaction = transaction /\ Cache.events = events
  BY InvParts
<1>2. Cache' = [block |-> [Cache.block EXCEPT ![b] = s], transaction |-> Cache.transaction,
                events |-> Cache.events]
  BY <1>1 DEF Cache
<1>3. CacheOK(Cache, nextId)'
  BY <1>1, <1>2, OneBlockOK
<1>4. \A x \in Blocks : block'[x] = IF x = b THEN s ELSE block[x]
  BY <1>1
<1>5. OtherTypes'
  BY <1>1 DEF Types, OtherTypes
<1>6. /\ Busy("client")' = Busy("client") /\ Busy("background")' = Busy("background")
      /\ Busy("memory")' = Busy("memory") /\ BusyWriting' = BusyWriting
  BY DEF Busy, BusyWriting
<1>7. WritersOK'
  <2>1. \A x \in BusyWriting : x \in Blocks /\ MayBeWritten(block[x])
    BY <1>1 DEF Types, OtherTypes, BusyWriting, Busy, Writers, Inv1, WritersOK
  <2>2. \A x \in BusyWriting : MayBeWritten(block'[x])
    BY <1>4, <2>1 DEF MayBeWritten
  <2>3. Disjoint' /\ \A x \in Busy("memory") : x \in Blocks /\ Loose(block[x])
    BY <1>1, <1>6 DEF Inv1, WritersOK, Disjoint, Types, OtherTypes, Busy, Writers
  <2>4. \A x \in Busy("memory") : Loose(block'[x])
    BY <1>4, <2>3 DEF Loose
  <2>5. QED
    BY <1>6, <2>2, <2>3, <2>4 DEF WritersOK
<1>8. SyncOK' /\ Notified'
  BY DEF Inv1, SyncOK, Notified
<1>9. Committing(call.op) => Closing(Cache', nextId, call.op, call.arg, Busy("client"))
  <2> SUFFICES ASSUME Committing(call.op)
               PROVE  Closing(Cache', nextId, call.op, call.arg, Busy("client"))
    OBVIOUS
  <2>1. Closing(Cache, nextId, call.op, call.arg, Busy("client"))
    BY DEF Inv1, CallOK
  <2>2. Cache'.block = block' /\ Cache'.transaction = transaction
    BY DEF Cache
  <2>3. IsOpen(Cache', call.arg) /\ call.arg # NoId
    BY <1>1, <2>1, <2>2 DEF Closing, IsOpen
  <2>4. \A x \in Blocks : block[x].transaction = call.arg =>
                                (block[x].previous # NoId => x \in Busy("client"))
    BY <1>1, <2>1 DEF Closing, InTransaction
  <2>5. \A x \in Blocks :
                /\ block'[x].transaction = block[x].transaction
                /\ block[x].transaction = call.arg =>
                        /\ block'[x].parent = block[x].parent
                        /\ block'[x].original = block[x].original
                        /\ block'[x].discard = block[x].discard
                        /\ block'[x].previous # NoId => x \in Busy("client")
    BY <1>4, <2>3, <2>4
  <2> DEFINE d == Cache'
  <2>6. \A x \in Blocks :
                /\ d.block[x].transaction = Cache.block[x].transaction
                /\ Cache.block[x].transaction = call.arg =>
                        /\ d.block[x].parent = Cache.block[x].parent
                        /\ d.block[x].original = Cache.block[x].original
                        /\ d.block[x].discard = Cache.block[x].discard
                        /\ d.block[x].previous # NoId => x \in Busy("client")
    BY <1>1, <2>2, <2>5
  <2>7. d.transaction = Cache.transaction /\ IsOpen(d, call.arg)
    BY <1>1, <2>2, <2>3
  <2> HIDE DEF d
  <2>8. Closing(d, nextId, call.op, call.arg, Busy("client"))
    BY <2>1, <2>6, <2>7, ClosingFrame
  <2>9. QED
    BY <2>8 DEF d
<1>10. QED
  BY <1>3, <1>5, <1>6, <1>7, <1>8, <1>9, OthersFrame

\* A block is read; a reader that puts a discarded block removes it.
LEMMA ReadInv1 ==
    ASSUME Inv1, NEW b \in Blocks, Read(b)
    PROVE  Inv1'
<1> DEFINE r == Found(b, FALSE)
           put == r.transaction = NoId /\ r.previous = NoId
           s == IF put /\ r.discard THEN Absent ELSE [r EXCEPT !.unused = put]
<1>1. /\ block' = [block EXCEPT ![b] = s]
      /\ UNCHANGED <<transaction, nextId, events, notifying, toWrite, written, call, disk>>
  BY DEF Read
<1>2. block[b] \in BlockType /\ ShapeOf(Cache, block[b]) /\ disk[b] \in Values
  BY InvParts DEF Types, OtherTypes
<1>3. /\ r \in BlockType /\ r.cached
      /\ block[b].cached => r = block[b]
      /\ ~block[b].cached =>
            /\ block[b] = Absent /\ r.current = disk[b]
            /\ r.original = NoData /\ r.parent = NoData /\ r.transaction = NoId
            /\ r.previous = NoId /\ ~r.dirty /\ ~r.discard /\ ~r.unused
  <2>0. PICK read \in BOOLEAN : read = FALSE
    OBVIOUS
  <2>1. r = Found(b, read)
    BY <2>0
  <2> HIDE DEF r
  <2>2. /\ r \in BlockType /\ r.cached
        /\ block[b].cached => r = block[b]
        /\ ~block[b].cached =>
            /\ block[b] = Absent /\ r.current = IF read THEN NoData ELSE disk[b]
            /\ r.original = NoData /\ r.parent = NoData /\ r.transaction = NoId
            /\ r.previous = NoId /\ ~r.dirty /\ ~r.discard /\ ~r.unused
    BY <1>2, <2>1, FoundIs
  <2>3. QED
    BY <2>0, <2>2
<1> HIDE DEF r
<1>4. put \in BOOLEAN
  OBVIOUS
<1>5. /\ r.transaction = block[b].transaction /\ r.previous = block[b].previous
      /\ r.parent = block[b].parent /\ r.original = block[b].original
      /\ r.discard = block[b].discard /\ r.dirty = block[b].dirty
      /\ r.current # NoData
  <2>1. CASE block[b].cached
    <3>1. r = block[b] /\ r.current # NoData
      BY <1>2, <1>3, <2>1 DEF ShapeOf
    <3>2. QED
      BY <3>1
  <2>2. CASE ~block[b].cached
    <3>1. r.current # NoData
      BY <1>2, <1>3, <2>2, BlockCacheAssumption DEF Values
    <3>2. QED
      BY <1>2, <1>3, <2>2, <3>1, AbsentIs DEF BlockType
  <2>3. QED
    BY <2>1, <2>2
<1>6. put => r.original = NoData /\ r.parent = NoData
  BY <1>2, <1>5 DEF ShapeOf
<1>7. CASE put /\ r.discard
  <2>1. s = Absent
    BY <1>7
  <2>2. b \notin BusyWriting
    <3>1. ~MayBeWritten(block[b])
      BY <1>2, <1>5, <1>7 DEF MayBeWritten, ShapeOf
    <3>2. QED
      BY <3>1 DEF Inv1, WritersOK
  <2>3. block[b].transaction = NoId /\ block[b].previous = NoId
    BY <1>5, <1>7
  <2> HIDE DEF s
  <2>4. QED
    BY <1>1, <2>1, <2>2, <2>3, AbsentIs, OneBlockInv1
<1>8. CASE ~(put /\ r.discard)
  <2>1. s = [r EXCEPT !.unused = put]
    BY <1>8
  <2> HIDE DEF s, put
  <2>2. /\ s \in BlockType /\ s.transaction = r.transaction /\ s.previous = r.previous
        /\ s.parent = r.parent /\ s.original = r.original /\ s.discard = r.discard
        /\ s.dirty = r.dirty /\ s.current = r.current /\ s.cached = r.cached /\ s.unused = put
    BY <1>3, <1>4, <2>1 DEF BlockType
  <2>3. ShapeOf(Cache, s)
    BY <1>2, <1>3, <1>5, <1>6, <1>8, <2>2, ZenonT(30) DEF ShapeOf, put
  <2>4. QED
    BY <1>1, <1>5, <2>2, <2>3, OneBlockInv1
<1>9. QED
  BY <1>7, <1>8

\* An unused block is dropped from the cache, or marked to be written before that.
LEMMA RemoveUnusedInv1 ==
    ASSUME Inv1, NEW b \in Blocks, RemoveUnused(b)
    PROVE  Inv1'
<1>1. /\ block[b].unused /\ b \notin BusyWriting
      /\ UNCHANGED <<transaction, nextId, events, notifying, written, call, disk>>
  BY DEF RemoveUnused
<1>2. Loose(block[b])
  BY <1>1, InvParts DEF ShapeOf, Loose
<1>3. CASE block[b].dirty /\ ~block[b].discard
  <2>1. /\ Busy("memory") = {} /\ block' = block
        /\ toWrite' = [toWrite EXCEPT !["memory"] = {b}]
    BY <1>3 DEF RemoveUnused
  <2>2. MayBeWritten(block[b])
    BY <1>2, <1>3 DEF Loose, MayBeWritten
  <2>3. PICK w \in {"background", "memory"} : w = "memory"
    OBVIOUS
  <2>4. PICK S \in SUBSET Blocks : S = {b}
    OBVIOUS
  <2>5. QED
    BY <1>1, <1>2, <2>1, <2>2, <2>3, <2>4, MarksInv1
<1>4. CASE ~(block[b].dirty /\ ~block[b].discard)
  <2>1. block' = [block EXCEPT ![b] = Absent] /\ toWrite' = toWrite
    BY <1>4 DEF RemoveUnused
  <2>2. QED
    BY <1>1, <1>2, <2>1, AbsentIs, OneBlockInv1 DEF Loose
<1>5. QED
  BY <1>3, <1>4

-----------------------------------------------------------------------------
(* What a call leaves *)

\* A block after block_cache_discard().
DiscardedBlock(r) == CASE ~r.cached -> r
                       [] r.unused  -> Absent
                       [] OTHER     -> [r EXCEPT !.discard = TRUE]

\* What a finishing call makes of blocks and transactions.
FinishedCall(c, op, arg) ==
    /\ op = "end" =>
        /\ call' = NoCall /\ (\A i \in Ids : ~Open(i)') /\ transaction'[arg].state = "closed"
        /\ \A b \in Blocks : block'[b] = IF c.block[b].transaction = arg
                                         THEN EndedBlock(c.block[b], arg) ELSE c.block[b]
    /\ op = "detach" =>
        /\ call' = NoCall /\ \A i \in Ids : Open(i)' => i = nextId
        /\ transaction'[arg].state = "closed"
        /\ transaction'[nextId].state = "open" /\ ~transaction'[nextId].hasSub
        /\ \A b \in Blocks : block'[b] = IF c.block[b].transaction = arg
                                         THEN Detached(c.block[b], arg, nextId)
                                         ELSE c.block[b]
    /\ op = "discard" =>
        /\ call' = NoCall /\ transaction' = c.transaction
        /\ \A b \in Blocks : block'[b] = IF b = arg THEN DiscardedBlock(c.block[b])
                                         ELSE c.block[b]
    /\ op = "sync" =>
        call'.op = "wait" /\ transaction' = c.transaction /\ block' = c.block

\* A finishing call does this.
LEMMA FinishIs ==
    ASSUME NEW c, CacheOK(c, nextId), nextId \in Nat,
           NEW op \in {"end", "detach", "discard", "sync"}, NEW arg,
           NEW hook \in BOOLEAN, Finish(c, op, arg, hook),
           Committing(op) => arg \in Ids /\ IsOpen(c, arg),
           op = "detach" => nextId \in Ids
    PROVE  FinishedCall(c, op, arg)
<1>0. /\ c \in CacheType /\ c.block \in [Blocks -> BlockType]
      /\ c.transaction \in [Ids -> TransactionType] /\ Transactions(c, nextId)
  BY CacheParts DEF CacheOK
<1>1. CASE op = "end"
  <2> DEFINE d == Ended(c, arg, hook)
  <2>1. Becomes(d) /\ call' = NoCall
    BY <1>1 DEF Finish
  <2>2. arg \in Ids /\ IsOpen(c, arg)
    BY <1>1 DEF Committing
  <2> HIDE DEF d
  <2>3. /\ \A b \in Blocks : d.block[b] = IF c.block[b].transaction = arg
                                          THEN EndedBlock(c.block[b], arg) ELSE c.block[b]
        /\ d.transaction[arg].state = "closed"
        /\ \A j \in Ids : j # arg => d.transaction[j] = c.transaction[j]
    BY <2>2, EndedParts DEF d
  <2>4. block' = d.block /\ transaction' = d.transaction
    BY <2>1 DEF Becomes
  <2>5. ASSUME NEW i \in Ids PROVE ~Open(i)'
    <3>1. i # arg => ~IsOpen(c, i)
      BY <1>0, <2>2 DEF Transactions
    <3>2. QED
      BY <2>3, <2>4, <3>1 DEF Open, IsOpen
  <2>6. QED
    BY <1>1, <2>1, <2>3, <2>4, <2>5 DEF FinishedCall
<1>2. CASE op = "detach"
  <2> DEFINE d == DetachedSub(c, arg, nextId, hook)
  <2>1. Becomes(d) /\ call' = NoCall
    BY <1>2 DEF Finish
  <2>2. arg \in Ids /\ IsOpen(c, arg) /\ nextId \in Ids
    BY <1>2 DEF Committing
  <2> HIDE DEF d
  <2>3. /\ d.block = [b \in Blocks |-> IF c.block[b].transaction = arg
                                       THEN Detached(c.block[b], arg, nextId) ELSE c.block[b]]
        /\ Renewed(c, d, arg, nextId)
    BY <2>2, DetachedParts DEF d
  <2>4. block' = d.block /\ transaction' = d.transaction
    BY <2>1 DEF Becomes
  <2>5. ASSUME NEW i \in Ids, Open(i)' PROVE i = nextId
    <3>1. i # arg
      BY <2>3, <2>4, <2>5 DEF Renewed, Open
    <3>2. ~IsOpen(c, i)
      BY <1>0, <2>2, <3>1 DEF Transactions
    <3>3. QED
      BY <2>3, <2>4, <2>5, <3>1, <3>2 DEF Renewed, Open, IsOpen
  <2>6. /\ transaction'[arg].state = "closed"
        /\ transaction'[nextId].state = "open" /\ ~transaction'[nextId].hasSub
    BY <2>3, <2>4 DEF Renewed, IsOpen
  <2>7. QED
    BY <1>2, <2>1, <2>3, <2>4, <2>5, <2>6 DEF FinishedCall
<1>3. CASE op = "discard"
  <2>1. Becomes(Discard(c, arg)) /\ call' = NoCall
    BY <1>3 DEF Finish
  <2>2. Discard(c, arg) = [c EXCEPT !.block = [@ EXCEPT ![arg] = DiscardedBlock(c.block[arg])]]
    BY DEF Discard, DiscardedBlock
  <2> DEFINE s == DiscardedBlock(c.block[arg])
  <2>3. Discard(c, arg) = [c EXCEPT !.block = [c.block EXCEPT ![arg] = s]]
    BY <1>0, <2>2 DEF CacheType
  <2> HIDE DEF s
  <2>4. block' = [c.block EXCEPT ![arg] = s] /\ transaction' = c.transaction
    BY <1>0, <2>1, <2>3 DEF Becomes, CacheType
  <2>5. \A b \in Blocks : block'[b] = IF b = arg THEN s ELSE c.block[b]
    BY <1>0, <2>4
  <2>6. \A b \in Blocks : block'[b] = IF b = arg THEN DiscardedBlock(c.block[b])
                                      ELSE c.block[b]
    BY <2>5 DEF s
  <2>7. QED
    BY <1>3, <2>1, <2>4, <2>6 DEF FinishedCall
<1>4. CASE op = "sync"
  <2>1. Becomes([c EXCEPT !.events = Append(@, Sync)]) /\ call' = [NoCall EXCEPT !.op = "wait"]
    BY <1>4 DEF Finish
  <2>2. block' = c.block /\ transaction' = c.transaction
    BY <1>0, <2>1 DEF Becomes, CacheType
  <2>3. call'.op = "wait"
    BY <2>1 DEF NoCall
  <2>4. QED
    BY <1>4, <2>2, <2>3 DEF FinishedCall
<1>5. QED
  BY <1>1, <1>2, <1>3, <1>4

\* BlocksDone() opens no transaction.
LEMMA DoneOpen ==
    ASSUME Inv1, NEW S \in SUBSET Blocks, NEW d, d = BlocksDone(Cache, S), NEW i \in Ids
    PROVE  IsOpen(d, i) => Open(i) /\ d.transaction[i].hasSub = transaction[i].hasSub
<1>1. TransactionDone(Cache, d, S, i)
  BY InvParts, BlocksDoneParts
<1>2. QED
  BY <1>1, InvParts DEF TransactionDone, SameButNum, IsGone, IsOpen, Open

\* A call with blocks to write first only marks them.
LEMMA CallMarks ==
    ASSUME NEW op, NEW arg, NEW hook, NEW S, Call(op, arg, hook, S), S # {}
    PROVE  /\ call'.op = op /\ call'.arg = arg
           /\ UNCHANGED <<block, transaction, nextId, events, written, notifying, disk>>
<1>1. call' = [op |-> op, arg |-> arg, hook |-> hook]
  BY DEF Call
<1>2. QED
  BY <1>1 DEF Call

-----------------------------------------------------------------------------
(* The initial states and stuttering *)

\* An empty cache satisfies the invariant, whatever the disk holds.
EmptyCache ==
    /\ block = [b \in Blocks |-> Absent] /\ transaction = [i \in Ids |-> Gone]
    /\ nextId = 1 /\ events = <<>> /\ notifying = NoId
    /\ toWrite = [w \in Writers |-> {}] /\ written = [w \in Writers |-> {}]
    /\ call = NoCall /\ disk \in [Blocks -> Values]

\* It does.
LEMMA EmptyInv1 == EmptyCache => Inv1
<1> SUFFICES ASSUME EmptyCache PROVE Inv1
  OBVIOUS
<1> USE DEF EmptyCache
<1>1. /\ Cache.block = block /\ Cache.transaction = transaction /\ Cache.events = events
      /\ Cache = [block |-> block, transaction |-> transaction, events |-> events]
  BY DEF Cache
<1>2. Types
  <2>1. NoCall \in CallType
    BY DEF NoCall, CallType, Ops
  <2>2. QED
    BY <2>1 DEF Types, OtherTypes
<1>3. \A b \in Blocks : block[b] = Absent
  OBVIOUS
<1>4. \A i \in Ids : transaction[i] = Gone
  OBVIOUS
<1>5. CacheOK(Cache, nextId)
  <2>1. Cache \in CacheType
    <3>1. block \in [Blocks -> BlockType]
      BY AbsentIs
    <3>2. transaction \in [Ids -> TransactionType]
      BY GoneIs
    <3>3. QED
      BY <1>1, <3>1, <3>2 DEF CacheType
  <2>2. Shape(Cache)
    BY <1>1, <1>3, AbsentIs DEF Shape
  <2>3. Transactions(Cache, nextId) /\ Counts(Cache)
    BY <1>1, <1>4, GoneIs DEF Transactions, Counts, IsOpen
  <2>4. QED
    BY <2>1, <2>2, <2>3 DEF CacheOK
<1>6. /\ Busy("client") = {} /\ Busy("background") = {} /\ Busy("memory") = {}
      /\ BusyWriting = {}
  BY DEF Busy, BusyWriting, Writers
<1>7. SyncOK /\ WritersOK /\ Notified
  BY <1>6 DEF SyncOK, WritersOK, Disjoint, Notified
<1>8. CallOK
  BY <1>6 DEF CallOK, NoCall, Committing
<1>9. QED
  BY <1>2, <1>5, <1>7, <1>8 DEF Inv1

\* A new cache satisfies the invariant.
LEMMA CacheInitInv1 ==
    ASSUME CacheInit
    PROVE  Inv1
<1>1. /\ block = [b \in Blocks |-> Absent] /\ transaction = [i \in Ids |-> Gone]
      /\ nextId = 1 /\ events = <<>> /\ notifying = NoId
      /\ toWrite = [w \in Writers |-> {}] /\ written = [w \in Writers |-> {}]
      /\ call = NoCall /\ disk = [b \in Blocks |-> 0]
  BY DEF CacheInit
<1>2. disk \in [Blocks -> Values]
  BY <1>1, BlockCacheAssumption DEF Values
<1>3. QED
  BY <1>1, <1>2, EmptyInv1 DEF EmptyCache

\* A cache that the client does not call and that writes nothing stays as it is.
LEMMA StutterInv1 ==
    ASSUME Inv1, UNCHANGED cacheVars
    PROVE  Inv1'
BY DEF cacheVars, Inv1, Types, OtherTypes, Cache, SyncOK, WritersOK, CallOK, Notified,
       Disjoint, BusyWriting, Busy
=============================================================================
