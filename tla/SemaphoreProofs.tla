-------------------------- MODULE SemaphoreProofs --------------------------
(***************************************************************************)
(* What TLAPS proves about Semaphore, for any numbers of threads and       *)
(* slots, any counts and bounds and any switches.                          *)
(***************************************************************************)
EXTENDS Semaphore, FiniteSetTheorems, TLAPS

-----------------------------------------------------------------------------
(* Sets of numbers, and queues *)

\* A set of natural numbers has a smallest element.
LEMMA SmallestExists ==
    ASSUME NEW S \in SUBSET Nat, S # {}
    PROVE  \E x \in S : \A y \in S : x <= y
<1> DEFINE R == {p \in Nat \X Nat : p[1] < p[2]}
<1>1. IsWellFoundedOn(R, Nat)
  <2>1. OpToRel(<, Nat) = R
    BY DEF OpToRel
  <2>2. QED
    BY <2>1, NatLessThanWellFounded
<1>2. PICK x \in S : \A y \in S : ~(<<y, x>> \in R)
  <2> HIDE DEF R
  <2>1. QED
    BY <1>1, WFMin
<1>3. \A y \in S : ~(y < x)
  BY <1>2
<1>4. QED
  BY <1>3

\* What Max() returns is the largest element of a bounded set.
LEMMA MaxIsLargest ==
    ASSUME NEW S \in SUBSET Nat, NEW n \in Nat, S # {}, \A x \in S : x <= n
    PROVE  Max(S) \in S /\ \A y \in S : y <= Max(S)
<1> DEFINE T == {n - x : x \in S}
<1>1. T \in SUBSET Nat /\ T # {}
  <2>1. \A x \in S : n - x \in Nat
    OBVIOUS
  <2>2. T # {}
    OBVIOUS
  <2>3. QED
    BY <2>1, <2>2
<1>2. PICK z \in T : \A y \in T : z <= y
  <2> HIDE DEF T
  <2>1. QED
    BY <1>1, SmallestExists
<1>3. PICK x \in S : z = n - x
  BY <1>2
<1>4. \A y \in S : n - y \in T
  OBVIOUS
<1>5. \A y \in S : x >= y
  BY <1>2, <1>3, <1>4
<1>6. QED
  BY <1>5 DEF Max

\* Removing the i-th entry of a sequence gives a sequence one shorter.
LEMMA WithoutType ==
    ASSUME NEW S, NEW q \in Seq(S), NEW i \in 1..Len(q)
    PROVE  /\ Without(q, i) \in Seq(S)
           /\ Len(Without(q, i)) = Len(q) - 1
           /\ \A j \in 1..(Len(q) - 1) :
                 Without(q, i)[j] = IF j < i THEN q[j] ELSE q[j + 1]
<1>1. Len(q) \in Nat /\ Len(q) - 1 \in Nat
  OBVIOUS
<1>2. \A j \in 1..(Len(q) - 1) : (IF j < i THEN q[j] ELSE q[j + 1]) \in S
  BY <1>1
<1>3. Without(q, i) \in [1..(Len(q) - 1) -> S]
  BY <1>2 DEF Without
<1>4. Without(q, i) \in Seq(S)
  BY <1>1, <1>3
<1>5. Len(Without(q, i)) = Len(q) - 1
  BY <1>1, <1>3, <1>4
<1>6. QED
  BY <1>4, <1>5 DEF Without

\* The entries of a sequence without its head.
LEMMA TailEntries ==
    ASSUME NEW S, NEW q \in Seq(S), q # <<>>
    PROVE  /\ Len(q) \in Nat \ {0}
           /\ Tail(q) \in Seq(S)
           /\ Len(Tail(q)) = Len(q) - 1
           /\ \A i \in 1..(Len(q) - 1) : Tail(q)[i] = q[i + 1]
           /\ Head(q) = q[1] /\ Head(q) \in S
OBVIOUS

\* A queue without duplicates stays so when a new thread joins it.
LEMMA DistinctAppend ==
    ASSUME NEW S, NEW q \in Seq(S), NEW x \in S, Distinct(q),
           \A i \in 1..Len(q) : q[i] # x
    PROVE  Distinct(Append(q, x))
BY DEF Distinct

\* A queue without duplicates stays so when its first thread leaves it, which is then in it no more.
LEMMA DistinctTail ==
    ASSUME NEW S, NEW q \in Seq(S), q # <<>>, Distinct(q)
    PROVE  /\ Distinct(Tail(q))
           /\ \A i \in 1..Len(Tail(q)) : Tail(q)[i] # Head(q)
BY DEF Distinct

\* Who joins the end of a queue is in it then, along with those before.
LEMMA MembersAppend ==
    ASSUME NEW S, NEW q \in Seq(S), NEW x \in S
    PROVE  Members(Append(q, x)) = Members(q) \cup {x}
<1> DEFINE r == Append(q, x)
<1>1. /\ Len(q) \in Nat /\ Len(r) = Len(q) + 1 /\ r[Len(q) + 1] = x
      /\ \A i \in 1..Len(q) : r[i] = q[i]
  OBVIOUS
<1> HIDE DEF r
<1>2. ASSUME NEW y \in Members(r) PROVE y \in Members(q) \cup {x}
  <2>1. PICK i \in 1..Len(r) : y = r[i]
    BY DEF Members
  <2>2. CASE i = Len(q) + 1
    BY <1>1, <2>1, <2>2
  <2>3. CASE i # Len(q) + 1
    BY <1>1, <2>1, <2>3 DEF Members
  <2>4. QED
    BY <2>2, <2>3
<1>3. ASSUME NEW y \in Members(q) PROVE y \in Members(r)
  <2>1. PICK i \in 1..Len(q) : y = q[i]
    BY DEF Members
  <2>2. QED
    BY <1>1, <2>1 DEF Members
<1>4. x \in Members(r)
  BY <1>1 DEF Members
<1>5. QED
  BY <1>2, <1>3, <1>4 DEF r

\* The head of a queue without duplicates is not in its tail, and all others are.
LEMMA MembersTail ==
    ASSUME NEW S, NEW q \in Seq(S), q # <<>>, Distinct(q)
    PROVE  Head(q) \in Members(q) /\ Members(Tail(q)) = Members(q) \ {Head(q)}
<1> DEFINE r == Tail(q)
           h == Head(q)
<1>1. /\ Len(q) \in Nat \ {0} /\ Len(r) = Len(q) - 1 /\ h = q[1]
      /\ \A i \in 1..Len(r) : r[i] = q[i + 1]
  BY TailEntries
<1> HIDE DEF r, h
<1>2. h \in Members(q)
  BY <1>1 DEF Members
<1>3. ASSUME NEW y \in Members(r) PROVE y \in Members(q) \ {h}
  <2>1. PICK i \in 1..Len(r) : y = r[i]
    BY DEF Members
  <2>2. i + 1 \in 1..Len(q) /\ y = q[i + 1] /\ i + 1 # 1
    BY <1>1, <2>1
  <2>3. q[i + 1] # q[1]
    BY <1>1, <2>2 DEF Distinct
  <2>4. QED
    BY <1>1, <2>2, <2>3 DEF Members
<1>4. ASSUME NEW y \in Members(q) \ {h} PROVE y \in Members(r)
  <2>1. PICK i \in 1..Len(q) : y = q[i]
    BY DEF Members
  <2>2. i - 1 \in 1..Len(r) /\ r[i - 1] = y
    BY <1>1, <2>1
  <2>3. QED
    BY <2>2 DEF Members
<1>5. QED
  BY <1>2, <1>3, <1>4 DEF r, h

-----------------------------------------------------------------------------
(***************************************************************************)
(* The inductive invariant.  CountsAgree and UnitsConserved need that an   *)
(* entry in a queue, the queued flag, the wait word and the arguments of   *)
(* the thread's call say the same (QueueInv, WaitInv): a thread that was   *)
(* woken with units is in no queue, and one that is queued has none.  That *)
(* an id stays the id of its semaphore while a thread waits for it, and    *)
(* that a slot is freed only once, is SlotInv.                             *)
(***************************************************************************)
Steps == {"idle", "blocked", "switching", "interrupted", "freeing"}
Ids == [slot : Slots, generation : 0..MaxGeneration]
Entry == [thread : Threads, count : Nat]

TypeInv ==
    /\ WaitTypeOK
    /\ count \in [Slots -> Int] /\ net_count \in [Slots -> Int]
    /\ units \in [Slots -> Int]
    /\ queue \in [Slots -> Seq(Entry)]
    /\ used \in [Slots -> BOOLEAN] /\ generation \in [Slots -> 0..MaxGeneration]
    /\ free \in Seq(Slots)
    /\ queued \in [Threads -> BOOLEAN]
    /\ pc \in [Threads -> Steps]
    /\ amount \in [Threads -> Nat]

\* A call has the arguments it needs.
CallInv ==
    /\ sem \in [Threads -> Ids \cup {None}] /\ toRelease \in [Threads -> Ids \cup {None}]
    /\ \A t \in Threads :
          /\ pc[t] # "idle" => sem[t] \in Ids
          /\ pc[t] \in {"switching", "interrupted"} => toRelease[t] \in Ids

\* The threads of a queue, and that each of them has one entry.
Sleepers(q) == {q[i].thread : i \in 1..Len(q)}
OneEach(q) == \A i, j \in 1..Len(q) : q[i].thread = q[j].thread => i = j

QueueOf(s) == Sleepers(queue[s])

\* A queue belongs to a semaphore in use, and its entries say what their threads ask for.
QueueInv ==
    /\ \A s \in Slots : OneEach(queue[s])
    /\ \A s \in Slots : \A i \in 1..Len(queue[s]) :
          LET e == queue[s][i] IN
          /\ used[s] /\ queued[e.thread] /\ sem[e.thread] = IdOf(s)
          /\ amount[e.thread] = e.count

\* Who is queued waits or has failed to get units; who sleeps is queued.
WaitInv ==
    \A t \in Threads :
        /\ queued[t] => Waits(t) /\ wait[t] # B_OK /\ \E s \in Slots : t \in QueueOf(s)
        /\ wait[t] = Waiting => queued[t]

Freeing(t, s) == pc[t] = "freeing" /\ sem[t].slot = s

\* Each slot is in use, on the free list or about to be put there, and only one of these.
SlotInv ==
    /\ Distinct(free)
    /\ \A s \in Slots :
          /\ used[s] => s \notin Members(free) /\ \A t \in Threads : ~Freeing(t, s)
          /\ ~used[s] => s \in Members(free) \/ \E t \in Threads : Freeing(t, s)
          /\ \A t \in Threads : Freeing(t, s) => s \notin Members(free)
          /\ \A t, u \in Threads : Freeing(t, s) /\ Freeing(u, s) => t = u

GivenTo(s) == {t \in Threads : Waits(t) /\ sem[t] = IdOf(s) /\ wait[t] = B_OK}

\* The two counts, and the units that were given to threads that have not returned yet.
UnitsInv ==
    \A s \in Slots : used[s] =>
        /\ net_count[s] = count[s] + UnitsOf(amount, QueueOf(s))
        /\ units[s] = net_count[s] + UnitsOf(amount, GivenTo(s))

IInv == TypeInv /\ CallInv /\ QueueInv /\ WaitInv /\ SlotInv /\ UnitsInv

\* What holds in addition when units are acquired and released one at a time.
OnesInv ==
    /\ \A t \in Threads : Waits(t) => amount[t] = 1
    /\ \A s \in Slots : used[s] => net_count[s] >= 0
          /\ (net_count[s] > 0 => queue[s] = <<>>)

-----------------------------------------------------------------------------
(* Counting units *)

USE SemaphoreAssumption
USE DEF WaitTypeOK, Results, Waiting, B_OK, B_ERROR, B_TIMED_OUT, B_INTERRUPTED,
        thread_is_blocked

\* The pairs that UnitsOf() counts.
Pairs(f, S) == UNION {{x} \X (1..f[x]) : x \in S}

\* What is in them.
LEMMA PairsAre ==
    ASSUME NEW f, NEW S
    PROVE  \A p : p \in Pairs(f, S) <=>
                     \E x \in S : \E k \in 1..f[x] : p = <<x, k>>
BY DEF Pairs

\* They are finitely many.
LEMMA PairsFinite ==
    ASSUME NEW S, IsFiniteSet(S), NEW f, \A x \in S : f[x] \in Nat
    PROVE  IsFiniteSet(Pairs(f, S)) /\ UnitsOf(f, S) = Cardinality(Pairs(f, S))
           /\ UnitsOf(f, S) \in Nat
<1> DEFINE T == {{x} \X (1..f[x]) : x \in S}
           g == [x \in S |-> {x} \X (1..f[x])]
<1>1. g \in Surjection(S, T)
  <2>1. g \in [S -> T] /\ \A z \in T : \E x \in S : g[x] = z
    OBVIOUS
  <2>2. QED
    BY <2>1 DEF Surjection
<1>2. IsFiniteSet(T)
  <2> HIDE DEF g, T
  <2>1. QED
    BY <1>1, FS_Surjection
<1>3. ASSUME NEW z \in T PROVE IsFiniteSet(z)
  <2>1. PICK x \in S : z = {x} \X (1..f[x])
    OBVIOUS
  <2>2. f[x] \in Int /\ 1 \in Int
    OBVIOUS
  <2>3. IsFiniteSet(1..f[x]) /\ IsFiniteSet({x})
    BY <2>2, FS_Interval, FS_Singleton
  <2>4. QED
    BY <2>1, <2>3, FS_Product
<1>4. IsFiniteSet(UNION T)
  <2> HIDE DEF g, T
  <2>1. QED
    BY <1>2, <1>3, FS_UNION
<1>5. QED
  BY <1>4, FS_CardinalityType DEF Pairs, UnitsOf

\* The units of two groups that have nobody in common.
LEMMA UnitsOfBoth ==
    ASSUME NEW S, IsFiniteSet(S), NEW T, IsFiniteSet(T), S \cap T = {},
           NEW f, \A x \in S \cup T : f[x] \in Nat
    PROVE  /\ UnitsOf(f, S) \in Nat /\ UnitsOf(f, T) \in Nat
           /\ UnitsOf(f, S \cup T) = UnitsOf(f, S) + UnitsOf(f, T)
<1>1. /\ IsFiniteSet(Pairs(f, S)) /\ UnitsOf(f, S) = Cardinality(Pairs(f, S))
      /\ UnitsOf(f, S) \in Nat
  BY PairsFinite
<1>2. /\ IsFiniteSet(Pairs(f, T)) /\ UnitsOf(f, T) = Cardinality(Pairs(f, T))
      /\ UnitsOf(f, T) \in Nat
  BY PairsFinite
<1>3. UnitsOf(f, S \cup T) = Cardinality(Pairs(f, S \cup T))
  BY DEF UnitsOf, Pairs
<1>4. Pairs(f, S \cup T) = Pairs(f, S) \cup Pairs(f, T)
  BY DEF Pairs
<1>5. Pairs(f, S) \cap Pairs(f, T) = {}
  BY PairsAre
<1>6. Cardinality(Pairs(f, S) \cup Pairs(f, T)) =
         Cardinality(Pairs(f, S)) + Cardinality(Pairs(f, T))
         - Cardinality(Pairs(f, S) \cap Pairs(f, T))
  BY <1>1, <1>2, FS_Union
<1>7. Cardinality({}) = 0
  BY FS_EmptySet
<1> DEFINE a == UnitsOf(f, S)
           b == UnitsOf(f, T)
<1>8. UnitsOf(f, S \cup T) = a + b - 0
  BY <1>1, <1>2, <1>3, <1>4, <1>5, <1>6, <1>7
<1>9. a \in Nat /\ b \in Nat
  BY <1>1, <1>2
<1> HIDE DEF a, b
<1>10. UnitsOf(f, S \cup T) = a + b
  BY <1>8, <1>9
<1>11. QED
  BY <1>9, <1>10 DEF a, b

\* The units of one ...
LEMMA UnitsOfOne ==
    ASSUME NEW x, NEW f, f[x] \in Nat
    PROVE  UnitsOf(f, {x}) = f[x]
<1>1. Pairs(f, {x}) = {x} \X (1..f[x])
  BY DEF Pairs
<1>2. IsFiniteSet(1..f[x]) /\ Cardinality(1..f[x]) = f[x]
  <2>1. f[x] \in Int /\ 1 \in Int
    OBVIOUS
  <2>2. /\ IsFiniteSet(1..f[x])
        /\ Cardinality(1..f[x]) = IF 1 > f[x] THEN 0 ELSE f[x] - 1 + 1
    BY <2>1, FS_Interval
  <2>3. QED
    BY <2>2
<1>3. IsFiniteSet({x}) /\ Cardinality({x}) = 1
  BY FS_Singleton
<1>4. Cardinality({x} \X (1..f[x])) = Cardinality({x}) * Cardinality(1..f[x])
  BY <1>2, <1>3, FS_Product
<1>5. UnitsOf(f, {x}) = Cardinality({x} \X (1..f[x]))
  BY <1>1 DEF UnitsOf, Pairs
<1>6. Cardinality({x}) * Cardinality(1..f[x]) = f[x]
  BY <1>2, <1>3
<1>7. QED
  BY <1>4, <1>5, <1>6

\* ... and of nobody.
LEMMA UnitsOfNobody == \A f : UnitsOf(f, {}) = 0
<1>1. \A f : UNION {{x} \X (1..f[x]) : x \in {}} = {}
  OBVIOUS
<1>2. QED
  BY <1>1, FS_EmptySet DEF UnitsOf

\* Only what the members of the group have counts.
LEMMA UnitsOfSame ==
    ASSUME NEW S, NEW f, NEW g, \A x \in S : f[x] = g[x]
    PROVE  UnitsOf(f, S) = UnitsOf(g, S)
<1>1. UNION {{x} \X (1..f[x]) : x \in S} = UNION {{x} \X (1..g[x]) : x \in S}
  OBVIOUS
<1>2. QED
  BY <1>1 DEF UnitsOf

\* h gives the members of S the names T, and g is f under these names.
Renames(h, f, S, g, T) ==
    /\ IsFiniteSet(S)
    /\ \A x, y \in S : h[x] = h[y] => x = y
    /\ \A x \in S : f[x] \in Nat /\ g[h[x]] = f[x]
    /\ T = {h[x] : x \in S}

\* Naming the members otherwise changes nothing.
LEMMA UnitsRenamed ==
    ASSUME NEW S, NEW f, NEW g, NEW h, NEW T, Renames(h, f, S, g, T)
    PROVE  UnitsOf(f, S) = UnitsOf(g, T)
<1>0. /\ IsFiniteSet(S)
      /\ \A x, y \in S : h[x] = h[y] => x = y
      /\ \A x \in S : f[x] \in Nat /\ g[h[x]] = f[x]
      /\ T = {h[x] : x \in S}
  BY DEF Renames
<1> DEFINE A == Pairs(f, S)
           B == Pairs(g, T)
           b == [p \in A |-> <<h[p[1]], p[2]>>]
<1>1. \A p \in A : p[1] \in S /\ p[2] \in 1..f[p[1]] /\ p = <<p[1], p[2]>>
  BY PairsAre
<1>2. \A x \in S : \A k \in 1..f[x] : <<x, k>> \in A
  BY PairsAre
<1>3. \A q \in B : \E x \in S : \E k \in 1..f[x] : q = <<h[x], k>>
  BY <1>0, PairsAre
<1>4. \A x \in S : \A k \in 1..f[x] : <<h[x], k>> \in B
  BY <1>0, PairsAre
<1> HIDE DEF A, B
<1>5. b \in [A -> B]
  BY <1>1, <1>4
<1>6. \A p, q \in A : b[p] = b[q] => p = q
  <2>1. ASSUME NEW p \in A, NEW q \in A, b[p] = b[q] PROVE p = q
    <3>1. h[p[1]] = h[q[1]] /\ p[2] = q[2]
      BY <2>1
    <3>2. p[1] = q[1]
      BY <1>0, <1>1, <3>1
    <3>3. QED
      BY <1>1, <3>1, <3>2
  <2>2. QED
    BY <2>1
<1>7. \A q \in B : \E p \in A : b[p] = q
  <2>1. ASSUME NEW q \in B PROVE \E p \in A : b[p] = q
    <3>1. PICK x \in S : \E k \in 1..f[x] : q = <<h[x], k>>
      BY <1>3
    <3>2. PICK k \in 1..f[x] : q = <<h[x], k>>
      BY <3>1
    <3>3. <<x, k>> \in A /\ b[<<x, k>>] = q
      BY <1>2, <3>2
    <3>4. QED
      BY <3>3
  <2>2. QED
    BY <2>1
<1>8. ExistsBijection(A, B)
  <2> HIDE DEF b
  <2>1. b \in Bijection(A, B)
    BY <1>5, <1>6, <1>7 DEF Bijection, Injection, Surjection, IsInjective
  <2>2. QED
    BY <2>1 DEF ExistsBijection
<1>9. IsFiniteSet(A)
  BY <1>0, PairsFinite DEF A
<1>10. Cardinality(A) = Cardinality(B)
  BY <1>8, <1>9, FS_Bijection
<1>11. QED
  BY <1>10 DEF UnitsOf, Pairs, A, B

-----------------------------------------------------------------------------
(* Queues that lose entries *)

\* r is what is left of the queue q when the threads R are taken off.
Remainder(r, q, R) ==
    /\ r \in Seq(Entry) /\ OneEach(r)
    /\ Sleepers(r) = Sleepers(q) \ R
    /\ \A i \in 1..Len(r) : \E j \in 1..Len(q) : r[i] = q[j]

\* The entries after the n-th.
LEMMA RestOfQueue ==
    ASSUME NEW q \in Seq(Entry), OneEach(q), NEW n \in 0..Len(q)
    PROVE  /\ Remainder(SubSeq(q, n + 1, Len(q)), q, {q[i].thread : i \in 1..n})
           /\ Len(SubSeq(q, n + 1, Len(q))) = Len(q) - n
<1> DEFINE r == SubSeq(q, n + 1, Len(q))
           R == {q[i].thread : i \in 1..n}
<1>1. /\ Len(q) \in Nat /\ r \in Seq(Entry) /\ Len(r) = Len(q) - n
      /\ \A i \in 1..Len(r) : r[i] = q[i + n]
  OBVIOUS
<1> HIDE DEF r
<1>2. \A i \in 1..Len(r) : i + n \in 1..Len(q)
  BY <1>1
<1>3. OneEach(r)
  <2>1. ASSUME NEW i \in 1..Len(r), NEW j \in 1..Len(r), r[i].thread = r[j].thread
        PROVE  i = j
    <3>1. q[i + n].thread = q[j + n].thread
      BY <1>1, <2>1
    <3>2. i + n = j + n
      BY <1>2, <3>1 DEF OneEach
    <3>3. QED
      BY <1>1, <3>2
  <2>2. QED
    BY <2>1 DEF OneEach
<1>4. ASSUME NEW t \in Sleepers(r) PROVE t \in Sleepers(q) \ R
  <2>1. PICK i \in 1..Len(r) : t = r[i].thread
    BY DEF Sleepers
  <2>2. t = q[i + n].thread
    BY <1>1, <2>1
  <2>3. t \in Sleepers(q)
    BY <1>2, <2>2 DEF Sleepers
  <2>4. ASSUME t \in R PROVE FALSE
    <3>1. PICK j \in 1..n : t = q[j].thread
      BY <2>4
    <3>2. j \in 1..Len(q)
      BY <1>1
    <3>3. i + n = j
      BY <1>2, <2>2, <3>1, <3>2 DEF OneEach
    <3>4. QED
      BY <1>1, <3>3
  <2>5. QED
    BY <2>3, <2>4
<1>5. ASSUME NEW t \in Sleepers(q) \ R PROVE t \in Sleepers(r)
  <2>1. PICK j \in 1..Len(q) : t = q[j].thread
    BY DEF Sleepers
  <2>2. j \notin 1..n
    BY <2>1
  <2>3. j - n \in 1..Len(r) /\ r[j - n] = q[j]
    <3>1. j - n \in 1..Len(r) /\ (j - n) + n = j
      BY <1>1, <2>2
    <3>2. QED
      BY <1>1, <3>1
  <2>4. QED
    BY <2>1, <2>3 DEF Sleepers
<1>6. Sleepers(r) = Sleepers(q) \ R
  BY <1>4, <1>5
<1>7. \A i \in 1..Len(r) : \E j \in 1..Len(q) : r[i] = q[j]
  BY <1>1, <1>2
<1>8. Remainder(r, q, R)
  <2> HIDE DEF R
  <2>1. QED
    BY <1>1, <1>3, <1>6, <1>7 DEF Remainder
<1>9. QED
  BY <1>1, <1>8 DEF r

\* The entries but the k-th.
LEMMA QueueWithout ==
    ASSUME NEW q \in Seq(Entry), OneEach(q), NEW k \in 1..Len(q)
    PROVE  /\ Remainder(Without(q, k), q, {q[k].thread})
           /\ Len(Without(q, k)) = Len(q) - 1
<1> DEFINE r == Without(q, k)
<1>1. /\ Len(q) \in Nat /\ r \in Seq(Entry) /\ Len(r) = Len(q) - 1
      /\ \A i \in 1..Len(r) : r[i] = IF i < k THEN q[i] ELSE q[i + 1]
  BY WithoutType
<1> HIDE DEF r
<1>2. \A i \in 1..Len(r) : \E j \in 1..Len(q) : r[i] = q[j] /\ j # k /\ (j = i \/ j = i + 1)
  <2>1. ASSUME NEW i \in 1..Len(r)
        PROVE  \E j \in 1..Len(q) : r[i] = q[j] /\ j # k /\ (j = i \/ j = i + 1)
    <3>1. CASE i < k
      <4>1. i \in 1..Len(q) /\ r[i] = q[i] /\ i # k
        BY <1>1, <3>1
      <4>2. QED
        BY <4>1
    <3>2. CASE ~(i < k)
      <4>1. i + 1 \in 1..Len(q) /\ r[i] = q[i + 1] /\ i + 1 # k
        BY <1>1, <3>2
      <4>2. QED
        BY <4>1
    <3>3. QED
      BY <3>1, <3>2
  <2>2. QED
    BY <2>1
<1>3. OneEach(r)
  <2>1. ASSUME NEW i \in 1..Len(r), NEW j \in 1..Len(r), r[i].thread = r[j].thread
        PROVE  i = j
    <3>1. CASE i < k /\ j < k
      BY <1>1, <2>1, <3>1 DEF OneEach
    <3>2. CASE i < k /\ ~(j < k)
      <4>1. j + 1 \in 1..Len(q) /\ i \in 1..Len(q) /\ r[i] = q[i] /\ r[j] = q[j + 1]
        BY <1>1, <3>2
      <4>2. i = j + 1
        BY <2>1, <4>1 DEF OneEach
      <4>3. QED
        BY <1>1, <3>2, <4>2
    <3>3. CASE ~(i < k) /\ j < k
      <4>1. i + 1 \in 1..Len(q) /\ j \in 1..Len(q) /\ r[j] = q[j] /\ r[i] = q[i + 1]
        BY <1>1, <3>3
      <4>2. j = i + 1
        BY <2>1, <4>1 DEF OneEach
      <4>3. QED
        BY <1>1, <3>3, <4>2
    <3>4. CASE ~(i < k) /\ ~(j < k)
      <4>1. /\ i + 1 \in 1..Len(q) /\ j + 1 \in 1..Len(q)
            /\ r[j] = q[j + 1] /\ r[i] = q[i + 1]
        BY <1>1, <3>4
      <4>2. j + 1 = i + 1
        BY <2>1, <4>1 DEF OneEach
      <4>3. QED
        BY <1>1, <3>4, <4>2
    <3>5. QED
      BY <3>1, <3>2, <3>3, <3>4
  <2>2. QED
    BY <2>1 DEF OneEach
<1>4. ASSUME NEW t \in Sleepers(r) PROVE t \in Sleepers(q) \ {q[k].thread}
  <2>1. PICK i \in 1..Len(r) : t = r[i].thread
    BY DEF Sleepers
  <2>2. PICK j \in 1..Len(q) : r[i] = q[j] /\ j # k
    BY <1>2
  <2>3. q[j].thread # q[k].thread
    BY <2>2 DEF OneEach
  <2>4. QED
    BY <2>1, <2>2, <2>3 DEF Sleepers
<1>5. ASSUME NEW t \in Sleepers(q) \ {q[k].thread} PROVE t \in Sleepers(r)
  <2>1. PICK j \in 1..Len(q) : t = q[j].thread
    BY DEF Sleepers
  <2>2. j # k
    BY <2>1
  <2>3. CASE j < k
    <3>1. j \in 1..Len(r) /\ r[j] = q[j]
      BY <1>1, <2>3
    <3>2. QED
      BY <2>1, <3>1 DEF Sleepers
  <2>4. CASE j > k
    <3>1. j - 1 \in 1..Len(r) /\ r[j - 1] = q[j]
      BY <1>1, <2>4
    <3>2. QED
      BY <2>1, <3>1 DEF Sleepers
  <2>5. QED
    BY <1>1, <2>2, <2>3, <2>4
<1>6. Sleepers(r) = Sleepers(q) \ {q[k].thread}
  BY <1>4, <1>5
<1>7. \A i \in 1..Len(r) : \E j \in 1..Len(q) : r[i] = q[j]
  BY <1>2
<1>8. Remainder(r, q, {q[k].thread})
  BY <1>1, <1>3, <1>6, <1>7 DEF Remainder
<1>9. QED
  BY <1>1, <1>8 DEF r

\* Taking threads off a queue from which others have been taken off.
LEMMA RemainderOfRemainder ==
    ASSUME NEW q, NEW r, NEW p, NEW R, NEW S, Remainder(r, q, R), Remainder(p, r, S)
    PROVE  Remainder(p, q, R \cup S)
BY DEF Remainder

-----------------------------------------------------------------------------
(* The loops over a queue *)

\* The threads of q have asked for what its entries say.
Asked(q) == \A i \in 1..Len(q) : amount[q[i].thread] = q[i].count

\* What some entries ask for is what their threads have asked for.
LEMMA CountOfThreads ==
    ASSUME NEW q \in Seq(Entry), OneEach(q), Asked(q), NEW S \in SUBSET (1..Len(q))
    PROVE  /\ CountOf(q, S) = UnitsOf(amount, {q[i].thread : i \in S})
           /\ CountOf(q, S) \in Nat
<1> DEFINE f == [i \in S |-> q[i].count]
           h == [i \in S |-> q[i].thread]
<1>1. Len(q) \in Nat /\ \A i \in 1..Len(q) : q[i] \in Entry
  OBVIOUS
<1>2. IsFiniteSet(S)
  <2>1. IsFiniteSet(1..Len(q))
    BY <1>1, FS_Interval
  <2>2. QED
    BY <2>1, FS_Subset
<1>3. \A i \in S : f[i] \in Nat
  BY <1>1 DEF Entry
<1>4. \A i, j \in S : h[i] = h[j] => i = j
  BY DEF OneEach
<1>5. \A i \in S : amount[h[i]] = f[i]
  BY DEF Asked
<1>6. {h[i] : i \in S} = {q[i].thread : i \in S}
  OBVIOUS
<1>7. CountOf(q, S) = UnitsOf(f, S)
  BY DEF CountOf
<1> HIDE DEF f, h
<1>8. UnitsOf(f, S) = UnitsOf(amount, {q[i].thread : i \in S})
  <2> DEFINE T == {q[i].thread : i \in S}
  <2>1. T = {h[i] : i \in S}
    BY <1>6
  <2> HIDE DEF T
  <2>2. Renames(h, f, S, amount, T)
    BY <1>2, <1>3, <1>4, <1>5, <2>1 DEF Renames
  <2>3. UnitsOf(f, S) = UnitsOf(amount, T)
    BY <2>2, UnitsRenamed
  <2>4. QED
    BY <2>3 DEF T
<1>9. UnitsOf(f, S) \in Nat
  BY <1>2, <1>3, PairsFinite
<1>10. QED
  BY <1>7, <1>8, <1>9

\* The loop takes off some entries, but never more than there are ...
LEMMA TakenOffRange ==
    ASSUME NEW q \in Seq(Entry), NEW supply, NEW limit
    PROVE  /\ TakenOff(q, supply, limit) \in 0..Len(q)
           /\ \A i \in 1..TakenOff(q, supply, limit) :
                 LET given == CountOf(q, StillWaiting(q, i - 1)) IN
                 /\ given < limit
                 /\ wait[q[i].thread] = Waiting => q[i].count <= supply - given
           /\ LET n == TakenOff(q, supply, limit) + 1
                  given == CountOf(q, StillWaiting(q, TakenOff(q, supply, limit)))
              IN  n \in 1..Len(q) =>
                  ~ (given < limit
                     /\ (wait[q[n].thread] = Waiting => q[n].count <= supply - given))
<1> DEFINE Good(i) == LET given == CountOf(q, StillWaiting(q, i - 1)) IN
                      /\ given < limit
                      /\ wait[q[i].thread] = Waiting => q[i].count <= supply - given
           S == {n \in 0..Len(q) : \A i \in 1..n : Good(i)}
           m == TakenOff(q, supply, limit)
<1>1. Len(q) \in Nat
  OBVIOUS
<1>2. m = Max(S)
  BY DEF TakenOff
<1> HIDE DEF Good, m
<1>3. S \in SUBSET Nat /\ S # {} /\ \A n \in S : n <= Len(q)
  <2>1. 0 \in S
    BY <1>1
  <2>2. QED
    BY <1>1, <2>1
<1>4. m \in S /\ \A n \in S : n <= m
  <2> HIDE DEF S
  <2>1. QED
    BY <1>1, <1>2, <1>3, MaxIsLargest
<1>5. m \in 0..Len(q) /\ \A i \in 1..m : Good(i)
  BY <1>4
<1>6. m + 1 \in 1..Len(q) => ~Good(m + 1)
  <2>1. SUFFICES ASSUME m + 1 \in 1..Len(q), Good(m + 1) PROVE FALSE
    OBVIOUS
  <2>2. \A i \in 1..(m + 1) : i \in 1..m \/ i = m + 1
    BY <1>1, <1>5
  <2>3. m + 1 \in S
    BY <1>1, <1>5, <2>1, <2>2
  <2>4. QED
    BY <1>4, <1>5, <2>3
<1>7. (m + 1) - 1 = m
  BY <1>1, <1>5
<1>8. QED
  BY <1>5, <1>6, <1>7 DEF Good, m

\* Who is taken off: those that still wait and those whose wait has failed.
LEMMA TakenThreads ==
    ASSUME NEW q \in Seq(Entry), OneEach(q), Asked(q), NEW n \in 0..Len(q),
           NEW R, R = {q[i].thread : i \in 1..n}
    PROVE  /\ R \in SUBSET Threads /\ R \in SUBSET Sleepers(q)
           /\ {q[i].thread : i \in StillWaiting(q, n)} = {t \in R : wait[t] = Waiting}
           /\ CountOf(q, StillWaiting(q, n)) = UnitsOf(amount, {t \in R : wait[t] = Waiting})
           /\ CountOf(q, Failed(q, n)) = UnitsOf(amount, R \ {t \in R : wait[t] = Waiting})
           /\ CountOf(q, StillWaiting(q, n)) \in Nat /\ CountOf(q, Failed(q, n)) \in Nat
<1>1. Len(q) \in Nat /\ 1..n \in SUBSET (1..Len(q)) /\ \A i \in 1..Len(q) : q[i] \in Entry
  OBVIOUS
<1>2. R \in SUBSET Threads /\ R \in SUBSET Sleepers(q)
  BY <1>1 DEF Entry, Sleepers
<1>3. {q[i].thread : i \in StillWaiting(q, n)} = {t \in R : wait[t] = Waiting}
  BY DEF StillWaiting
<1>4. {q[i].thread : i \in Failed(q, n)} = R \ {t \in R : wait[t] = Waiting}
  BY DEF StillWaiting, Failed
<1>5. StillWaiting(q, n) \in SUBSET (1..Len(q)) /\ Failed(q, n) \in SUBSET (1..Len(q))
  BY <1>1 DEF StillWaiting, Failed
<1>6. /\ CountOf(q, StillWaiting(q, n))
         = UnitsOf(amount, {q[i].thread : i \in StillWaiting(q, n)})
      /\ CountOf(q, StillWaiting(q, n)) \in Nat
  BY <1>5, CountOfThreads
<1>7. /\ CountOf(q, Failed(q, n)) = UnitsOf(amount, {q[i].thread : i \in Failed(q, n)})
      /\ CountOf(q, Failed(q, n)) \in Nat
  BY <1>5, CountOfThreads
<1>8. QED
  BY <1>2, <1>3, <1>4, <1>6, <1>7

-----------------------------------------------------------------------------
(* Steps that take threads off a queue *)

\* The threads R are taken off the queue of s, and those that still wait are woken.
TakesOff(s, R) ==
    /\ R \in SUBSET QueueOf(s)
    /\ \E r : Remainder(r, queue[s], R) /\ queue' = [queue EXCEPT ![s] = r]
    /\ wait' = [t \in Threads |-> IF t \in R /\ wait[t] = Waiting THEN B_OK ELSE wait[t]]
    /\ queued' = [t \in Threads |-> queued[t] /\ t \notin R]

Woken(R) == {t \in R : wait[t] = Waiting}

\* n units come, and some of them go to the threads that are woken.
Gives(s, R, n) ==
    /\ net_count' = [net_count EXCEPT ![s] = net_count[s] + n - UnitsOf(amount, Woken(R))]
    /\ count' = [count EXCEPT ![s] = count[s] + n + UnitsOf(amount, R \ Woken(R))]
    /\ units' = [units EXCEPT ![s] = units[s] + n]

\* The calls of the threads but L go on.
GoOn(L) ==
    \A u \in Threads \ L :
        sem'[u] = sem[u] /\ amount'[u] = amount[u] /\ (Waits(u)' <=> Waits(u))

\* A thread in the queue of s is in no other queue.
LEMMA InOneQueue ==
    ASSUME TypeInv, QueueInv, NEW s \in Slots
    PROVE  /\ QueueOf(s) \in SUBSET Threads /\ IsFiniteSet(QueueOf(s))
           /\ \A t \in QueueOf(s) : used[s] /\ queued[t] /\ sem[t] = IdOf(s)
           /\ \A t \in QueueOf(s) : \A x \in Slots : t \in QueueOf(x) => x = s
<1>1. \A x \in Slots : \A t \in QueueOf(x) :
         t \in Threads /\ used[x] /\ queued[t] /\ sem[t] = IdOf(x)
  <2>1. ASSUME NEW x \in Slots, NEW t \in QueueOf(x)
        PROVE  t \in Threads /\ used[x] /\ queued[t] /\ sem[t] = IdOf(x)
    <3>1. PICK i \in 1..Len(queue[x]) : t = queue[x][i].thread
      BY DEF QueueOf, Sleepers
    <3>2. queue[x][i] \in Entry
      BY DEF TypeInv
    <3>3. QED
      BY <3>1, <3>2 DEF Entry, QueueInv
  <2>2. QED
    BY <2>1
<1>2. \A x \in Slots : IdOf(x) = IdOf(s) => x = s
  BY DEF IdOf
<1>3. IsFiniteSet(QueueOf(s))
  BY <1>1, FS_Subset
<1>4. QED
  BY <1>1, <1>2, <1>3

\* The queues after such a step.
LEMMA TakesOffQueues ==
    ASSUME TypeInv, QueueInv, NEW s \in Slots, NEW R, TakesOff(s, R), NEW x \in Slots
    PROVE  /\ queue' \in [Slots -> Seq(Entry)]
           /\ OneEach(queue'[x])
           /\ Sleepers(queue'[x]) = QueueOf(x) \ R
           /\ \A i \in 1..Len(queue'[x]) : \E j \in 1..Len(queue[x]) :
                 queue'[x][i] = queue[x][j]
<1>1. PICK r : Remainder(r, queue[s], R) /\ queue' = [queue EXCEPT ![s] = r]
  BY DEF TakesOff
<1>2. queue \in [Slots -> Seq(Entry)] /\ OneEach(queue[x])
  BY DEF TypeInv, QueueInv
<1>3. queue' \in [Slots -> Seq(Entry)]
  BY <1>1, <1>2 DEF Remainder
<1>4. CASE x = s
  <2>1. queue'[x] = r /\ queue[x] = queue[s]
    BY <1>1, <1>2, <1>4
  <2>2. QED
    BY <1>1, <1>3, <2>1 DEF Remainder, QueueOf
<1>5. CASE x # s
  <2>1. queue'[x] = queue[x]
    BY <1>1, <1>2, <1>5
  <2>2. QueueOf(x) \cap R = {}
    BY <1>5, InOneQueue DEF TakesOff
  <2>3. QED
    BY <1>2, <1>3, <2>1, <2>2 DEF QueueOf
<1>6. QED
  BY <1>4, <1>5

\* Who is queued after it still waits, and the other way round.
LEMMA TakesOffKeepsQueues ==
    ASSUME TypeInv, QueueInv, WaitInv, NEW s \in Slots, NEW R, TakesOff(s, R),
           NEW L, GoOn(L), \A u \in L : ~queued'[u], UNCHANGED <<used, generation>>
    PROVE  QueueInv' /\ WaitInv'
<1>1. \A x \in Slots : OneEach(queue'[x])
  BY TakesOffQueues
<1>2. ASSUME NEW x \in Slots, NEW i \in 1..Len(queue'[x])
      PROVE  LET e == queue'[x][i] IN
             /\ used'[x] /\ queued'[e.thread] /\ sem'[e.thread] = IdOf(x)'
             /\ amount'[e.thread] = e.count
  <2> DEFINE e == queue'[x][i]
  <2>1. PICK j \in 1..Len(queue[x]) : e = queue[x][j]
    BY TakesOffQueues
  <2>2. e.thread \in Sleepers(queue'[x])
    BY DEF Sleepers
  <2>3. e.thread \in QueueOf(x) /\ e.thread \notin R
    BY <2>2, TakesOffQueues
  <2>4. e.thread \in Threads
    BY <2>3, InOneQueue
  <2> HIDE DEF e
  <2>5. used[x] /\ queued[e.thread] /\ sem[e.thread] = IdOf(x) /\ amount[e.thread] = e.count
    BY <2>1 DEF QueueInv
  <2>6. queued'[e.thread]
    BY <2>3, <2>4, <2>5 DEF TakesOff
  <2>7. sem'[e.thread] = sem[e.thread] /\ amount'[e.thread] = amount[e.thread]
    BY <2>4, <2>6 DEF GoOn
  <2>8. used'[x] /\ IdOf(x)' = IdOf(x)
    BY <2>5 DEF IdOf
  <2>9. QED
    BY <2>5, <2>6, <2>7, <2>8 DEF e
<1>3. QueueInv'
  BY <1>1, <1>2 DEF QueueInv
<1>4. ASSUME NEW t \in Threads, queued'[t]
      PROVE  Waits(t)' /\ wait'[t] # B_OK /\ \E x \in Slots : t \in QueueOf(x)'
  <2>1. queued[t] /\ t \notin R /\ t \notin L
    BY <1>4 DEF TakesOff
  <2>2. wait'[t] = wait[t]
    BY <2>1 DEF TakesOff
  <2>3. Waits(t) /\ wait[t] # B_OK /\ \E x \in Slots : t \in QueueOf(x)
    BY <2>1 DEF WaitInv
  <2>4. PICK x \in Slots : t \in QueueOf(x)
    BY <2>3
  <2>5. t \in QueueOf(x)'
    BY <2>1, <2>4, TakesOffQueues DEF QueueOf
  <2>6. QED
    BY <2>1, <2>2, <2>3, <2>5 DEF GoOn
<1>5. ASSUME NEW t \in Threads, wait'[t] = Waiting
      PROVE  queued'[t]
  <2>1. wait[t] = Waiting /\ t \notin R
    BY <1>5 DEF TakesOff
  <2>2. QED
    BY <2>1 DEF WaitInv, TakesOff
<1>6. QED
  BY <1>3, <1>4, <1>5 DEF WaitInv

\* The units of threads, and of those among them that are taken away.
LEMMA UnitsWithout ==
    ASSUME amount \in [Threads -> Nat], NEW Q \in SUBSET Threads, NEW R \in SUBSET Q
    PROVE  /\ UnitsOf(amount, Q) \in Nat /\ UnitsOf(amount, R) \in Nat
           /\ UnitsOf(amount, Q \ R) \in Nat
           /\ UnitsOf(amount, Q) = UnitsOf(amount, Q \ R) + UnitsOf(amount, R)
<1>1. IsFiniteSet(Q \ R) /\ IsFiniteSet(R) /\ (Q \ R) \cap R = {} /\ Q = (Q \ R) \cup R
  BY FS_Subset
<1>2. \A x \in (Q \ R) \cup R : amount[x] \in Nat
  OBVIOUS
<1>3. /\ UnitsOf(amount, Q \ R) \in Nat /\ UnitsOf(amount, R) \in Nat
      /\ UnitsOf(amount, (Q \ R) \cup R) = UnitsOf(amount, Q \ R) + UnitsOf(amount, R)
  BY <1>1, <1>2, UnitsOfBoth
<1>4. UnitsOf(amount, Q) = UnitsOf(amount, Q \ R) + UnitsOf(amount, R)
  BY <1>1, <1>3
<1> DEFINE a == UnitsOf(amount, Q \ R)
           b == UnitsOf(amount, R)
<1>5. a \in Nat /\ b \in Nat
  BY <1>3
<1> HIDE DEF a, b
<1>6. a + b \in Nat
  BY <1>5
<1>7. QED
  BY <1>3, <1>4, <1>6 DEF a, b

\* What net_count and count say after such a step.
LEMMA TakesOffUnits ==
    ASSUME TypeInv, QueueInv, WaitInv, UnitsInv, NEW s \in Slots, used[s],
           NEW R, TakesOff(s, R), NEW n \in Int, Gives(s, R, n),
           NEW L, GoOn(L), \A u \in L : ~queued'[u] /\ ~(u \in R /\ wait[u] = Waiting),
           \A u \in L : ~Waits(u)', \A u \in L : \A x \in Slots : used[x] => u \notin GivenTo(x),
           UNCHANGED <<used, generation>>
    PROVE  UnitsInv'
<1> DEFINE W == Woken(R)
           Given(x) == IF x = s THEN GivenTo(s) \cup W ELSE GivenTo(x)
<1>1. R \in SUBSET QueueOf(s) /\ R \in SUBSET Threads /\ W \in SUBSET R
  BY InOneQueue DEF TakesOff, Woken
<1>2. \A x \in Slots : used[x] => GivenTo(x)' = Given(x)
  <2>1. ASSUME NEW x \in Slots, used[x], NEW t \in Threads
        PROVE  t \in GivenTo(x)' <=> t \in Given(x)
    <3>1. IdOf(x)' = IdOf(x) /\ (x = s <=> IdOf(x) = IdOf(s))
      BY DEF IdOf
    <3>2. CASE t \in L
      <4>1. t \notin GivenTo(x)' /\ t \notin GivenTo(x) /\ t \notin W
        BY <2>1, <3>2 DEF GivenTo, Woken
      <4>2. QED
        BY <4>1
    <3>3. CASE t \notin L /\ t \in W
      <4>1. t \in QueueOf(s)
        BY <1>1, <3>3
      <4>2. sem[t] = IdOf(s) /\ queued[t] /\ wait[t] = Waiting /\ wait'[t] = B_OK
        BY <3>3, <4>1, InOneQueue DEF Woken, TakesOff
      <4>3. Waits(t)
        BY <4>2 DEF WaitInv
      <4>4. Waits(t)' /\ sem'[t] = IdOf(s)
        BY <3>3, <4>2, <4>3 DEF GoOn
      <4>5. t \in GivenTo(x)' <=> x = s
        BY <3>1, <4>2, <4>4 DEF GivenTo
      <4>6. t \notin GivenTo(x)
        BY <4>2 DEF GivenTo
      <4>7. QED
        BY <3>3, <4>5, <4>6
    <3>4. CASE t \notin L /\ t \notin W
      <4>1. wait'[t] = wait[t]
        BY <3>4 DEF Woken, TakesOff
      <4>2. sem'[t] = sem[t] /\ (Waits(t)' <=> Waits(t))
        BY <3>4 DEF GoOn
      <4>3. t \in GivenTo(x)' <=> t \in GivenTo(x)
        BY <3>1, <4>1, <4>2 DEF GivenTo
      <4>4. QED
        BY <3>4, <4>3
    <3>5. QED
      BY <3>2, <3>3, <3>4
  <2>2. \A x \in Slots : GivenTo(x)' \in SUBSET Threads /\ Given(x) \in SUBSET Threads
    BY <1>1 DEF GivenTo
  <2> HIDE DEF Given
  <2>3. QED
    BY <2>1, <2>2
<1>3. \A x \in Slots : QueueOf(x)' = QueueOf(x) \ R
  BY TakesOffQueues DEF QueueOf
<1>4. ASSUME NEW x \in Slots, used[x]
      PROVE  /\ UnitsOf(amount', QueueOf(x)') = UnitsOf(amount, QueueOf(x)')
             /\ UnitsOf(amount', GivenTo(x)') = UnitsOf(amount, GivenTo(x)')
  <2>1. \A t \in QueueOf(x)' : t \in Threads /\ t \notin L
    <3>1. ASSUME NEW t \in QueueOf(x)' PROVE t \in Threads /\ t \notin L
      <4>1. t \in QueueOf(x) /\ t \notin R
        BY <1>3
      <4>2. t \in Threads /\ queued[t]
        BY <4>1, InOneQueue
      <4>3. queued'[t]
        BY <4>1, <4>2 DEF TakesOff
      <4>4. QED
        BY <4>2, <4>3
    <3>2. QED
      BY <3>1
  <2>2. \A t \in GivenTo(x)' : t \in Threads /\ t \notin L
    BY DEF GivenTo
  <2>3. \A t \in QueueOf(x)' : amount'[t] = amount[t]
    BY <2>1 DEF GoOn
  <2>4. \A t \in GivenTo(x)' : amount'[t] = amount[t]
    BY <2>2 DEF GoOn
  <2>5. QED
    BY <2>3, <2>4, UnitsOfSame
<1>5. ASSUME NEW x \in Slots, used[x], x # s
      PROVE  /\ net_count'[x] = count'[x] + UnitsOf(amount', QueueOf(x)')
             /\ units'[x] = net_count'[x] + UnitsOf(amount', GivenTo(x)')
  <2>1. net_count'[x] = net_count[x] /\ count'[x] = count[x] /\ units'[x] = units[x]
    BY <1>5 DEF Gives, TypeInv
  <2>2. QueueOf(x)' = QueueOf(x)
    <3>1. ASSUME NEW t \in QueueOf(x) PROVE t \notin R
      BY <1>1, <1>5, InOneQueue
    <3>2. QueueOf(x) \ R = QueueOf(x)
      BY <3>1
    <3>3. QED
      BY <1>3, <3>2
  <2>3. GivenTo(x)' = GivenTo(x)
    BY <1>2, <1>5
  <2>4. QED
    BY <1>4, <1>5, <2>1, <2>2, <2>3 DEF UnitsInv
<1>6. /\ net_count'[s] = count'[s] + UnitsOf(amount', QueueOf(s)')
      /\ units'[s] = net_count'[s] + UnitsOf(amount', GivenTo(s)')
  <2> DEFINE w == UnitsOf(amount, W)
             d == UnitsOf(amount, R \ W)
             k == UnitsOf(amount, QueueOf(s) \ R)
             g == UnitsOf(amount, GivenTo(s))
             r == UnitsOf(amount, R)
  <2>1. amount \in [Threads -> Nat] /\ QueueOf(s) \in SUBSET Threads
        /\ GivenTo(s) \in SUBSET Threads /\ W \in SUBSET Threads
    BY <1>1, InOneQueue DEF TypeInv, GivenTo
  <2>2. /\ UnitsOf(amount, QueueOf(s)) = k + r /\ k \in Nat /\ r \in Nat
    BY <1>1, <2>1, UnitsWithout
  <2>3. r = d + w /\ d \in Nat /\ w \in Nat
    BY <1>1, <2>1, UnitsWithout
  <2>4. GivenTo(s) \cap W = {}
    BY DEF GivenTo, Woken
  <2>5. UnitsOf(amount, GivenTo(s) \cup W) = g + w /\ g \in Nat
    <3>1. IsFiniteSet(GivenTo(s)) /\ IsFiniteSet(W)
      BY <2>1, FS_Subset
    <3>2. \A t \in GivenTo(s) \cup W : amount[t] \in Nat
      BY <2>1
    <3>3. QED
      BY <2>4, <3>1, <3>2, UnitsOfBoth
  <2>6. /\ net_count[s] = count[s] + UnitsOf(amount, QueueOf(s))
        /\ units[s] = net_count[s] + g
    BY DEF UnitsInv
  <2>7. /\ net_count'[s] = net_count[s] + n - w
        /\ count'[s] = count[s] + n + d
        /\ units'[s] = units[s] + n
    BY DEF Gives, TypeInv
  <2>8. /\ net_count[s] \in Int /\ count[s] \in Int /\ units[s] \in Int
    BY DEF TypeInv
  <2>9. UnitsOf(amount', QueueOf(s)') = k
    BY <1>3, <1>4
  <2>10. UnitsOf(amount', GivenTo(s)') = g + w
    BY <1>2, <1>4, <2>5
  <2> HIDE DEF w, d, k, g, r, W
  <2>11. net_count[s] = count[s] + (k + (d + w))
    BY <2>2, <2>3, <2>6
  <2>12. net_count'[s] = count'[s] + k
    BY <2>2, <2>3, <2>7, <2>8, <2>11
  <2>13. units'[s] = net_count'[s] + (g + w)
    BY <2>3, <2>5, <2>6, <2>7, <2>8
  <2>14. QED
    BY <2>9, <2>10, <2>12, <2>13
<1>7. QED
  BY <1>5, <1>6 DEF UnitsInv

\* The threads at the head of the queue q that the loop takes off.
Heads(q, supply, limit) == {q[i].thread : i \in 1..TakenOff(q, supply, limit)}

\* The queues are made of entries with what their threads have asked for.
LEMMA QueueType ==
    ASSUME TypeInv, QueueInv, NEW s \in Slots
    PROVE  queue[s] \in Seq(Entry) /\ OneEach(queue[s]) /\ Asked(queue[s])
BY DEF TypeInv, QueueInv, Asked

\* release_sem_etc() is such a step.
LEMMA ReleaseTakesOff ==
    ASSUME TypeInv, QueueInv, WaitInv, NEW s \in Slots, NEW n \in Int, NEW b \in BOOLEAN,
           ReleaseLocked(s, n, b), NEW R, R = Heads(queue[s], net_count[s] + n, n)
    PROVE  /\ TakesOff(s, R)
           /\ UnitsOf(amount, Woken(R)) \in Nat
           /\ \E m \in Int : /\ m = n \/ (m = UnitsOf(amount, Woken(R)) /\ m < n
                                         /\ queue'[s] = <<>>)
                             /\ Gives(s, R, m)
<1> DEFINE q == queue[s]
           taken == TakenOff(q, net_count[s] + n, n)
           given == CountOf(q, StillWaiting(q, taken))
           dropped == CountOf(q, Failed(q, taken))
           released == IF b /\ given < n /\ taken = Len(q) THEN given ELSE n
<1>1. q \in Seq(Entry) /\ OneEach(q) /\ Asked(q)
  BY QueueType
<1>2. taken \in 0..Len(q)
  BY <1>1, TakenOffRange
<1>3. R = {q[i].thread : i \in 1..taken}
  BY DEF Heads
<1>4. /\ Dequeue(s, q, taken)
      /\ net_count' = [net_count EXCEPT ![s] = @ + released - given]
      /\ count' = [count EXCEPT ![s] = @ + released + dropped]
      /\ units' = [units EXCEPT ![s] = @ + released]
  BY DEF ReleaseLocked
<1> HIDE DEF q, taken
<1>5. /\ R \in SUBSET Threads /\ R \in SUBSET Sleepers(q)
      /\ {q[i].thread : i \in StillWaiting(q, taken)} = Woken(R)
      /\ given = UnitsOf(amount, Woken(R)) /\ given \in Nat
      /\ dropped = UnitsOf(amount, R \ Woken(R)) /\ dropped \in Nat
  BY <1>1, <1>2, <1>3, TakenThreads DEF Woken
<1>6. Remainder(SubSeq(q, taken + 1, Len(q)), q, R)
      /\ Len(SubSeq(q, taken + 1, Len(q))) = Len(q) - taken
  BY <1>1, <1>2, <1>3, RestOfQueue
<1> HIDE DEF given, dropped
<1>7. queue' = [queue EXCEPT ![s] = SubSeq(q, taken + 1, Len(q))]
  BY <1>4 DEF Dequeue
<1>8. wait' = [t \in Threads |-> IF t \in R /\ wait[t] = Waiting THEN B_OK ELSE wait[t]]
  BY <1>4, <1>5 DEF Dequeue, UnblockAll, Woken
<1>9. queued' = [t \in Threads |-> queued[t] /\ t \notin R]
  BY <1>3, <1>4 DEF Dequeue
<1>10. TakesOff(s, R)
  BY <1>5, <1>6, <1>7, <1>8, <1>9 DEF TakesOff, QueueOf, q
<1>11. released \in Int
  BY <1>5
<1>12. Gives(s, R, released)
  <2> HIDE DEF released
  <2>1. QED
    BY <1>4, <1>5 DEF Gives
<1>13. released = n \/ (released = given /\ released < n /\ queue'[s] = <<>>)
  <2>1. ASSUME taken = Len(q) PROVE queue'[s] = <<>>
    <3>1. queue'[s] = SubSeq(q, taken + 1, Len(q))
      BY <1>7 DEF TypeInv
    <3>2. SubSeq(q, taken + 1, Len(q)) \in Seq(Entry)
          /\ Len(SubSeq(q, taken + 1, Len(q))) = 0
      BY <1>1, <1>6, <2>1 DEF Remainder
    <3>3. QED
      BY <3>1, <3>2
  <2>2. QED
    BY <2>1
<1>14. QED
  BY <1>5, <1>10, <1>11, <1>12, <1>13

\* remove_thread_from_sem() is one, too.
LEMMA RemoveTakesOff ==
    ASSUME TypeInv, QueueInv, WaitInv, NEW s \in Slots, NEW t \in QueueOf(s),
           wait[t] # Waiting, remove_thread_from_sem(t, s), UNCHANGED units
    PROVE  \E R, q :
              /\ Remainder(q, queue[s], {t}) /\ Asked(q)
              /\ R = {t} \cup Heads(q, net_count[s], CountOf(q, 1..Len(q)) + 1)
              /\ TakesOff(s, R) /\ Gives(s, R, 0)
              /\ t \notin Heads(q, net_count[s], CountOf(q, 1..Len(q)) + 1)
<1> DEFINE at == CHOOSE i \in 1..Len(queue[s]) : queue[s][i].thread = t
           q == Without(queue[s], at)
           limit == CountOf(q, 1..Len(q)) + 1
           taken == TakenOff(q, net_count[s], limit)
           H == Heads(q, net_count[s], limit)
           R == {t} \cup H
           given == CountOf(q, StillWaiting(q, taken))
           dropped == CountOf(q, Failed(q, taken))
<1>0. t \in Threads
  BY InOneQueue
<1>1. queue[s] \in Seq(Entry) /\ OneEach(queue[s]) /\ Asked(queue[s])
  BY QueueType
<1>2. at \in 1..Len(queue[s]) /\ queue[s][at].thread = t
  BY DEF QueueOf, Sleepers
<1>3. /\ wait' = UnblockAll(wait, {q[i].thread : i \in StillWaiting(q, taken)}, B_OK)
      /\ queue' = [queue EXCEPT ![s] = SubSeq(q, taken + 1, Len(q))]
      /\ queued' = [u \in Threads |-> queued[u] /\ u # t
                                      /\ ~\E i \in 1..taken : q[i].thread = u]
      /\ net_count' = [net_count EXCEPT ![s] = @ - given]
      /\ count' = [count EXCEPT ![s] = @ + amount[t] + dropped]
  BY DEF remove_thread_from_sem
<1> HIDE DEF at
<1>4. Remainder(q, queue[s], {t})
  BY <1>1, <1>2, QueueWithout
<1> HIDE DEF q
<1>5. q \in Seq(Entry) /\ OneEach(q)
  BY <1>4 DEF Remainder
<1>6. Asked(q)
  BY <1>1, <1>4 DEF Remainder, Asked
<1> HIDE DEF limit
<1>7. taken \in 0..Len(q)
  BY <1>5, TakenOffRange
<1>8. H = {q[i].thread : i \in 1..taken}
  BY DEF Heads
<1> HIDE DEF H, taken
<1>9. /\ H \in SUBSET Threads /\ H \in SUBSET Sleepers(q)
      /\ {q[i].thread : i \in StillWaiting(q, taken)} = Woken(H)
      /\ given = UnitsOf(amount, Woken(H)) /\ given \in Nat
      /\ dropped = UnitsOf(amount, H \ Woken(H)) /\ dropped \in Nat
  <2>1. \A S : S = {q[i].thread : i \in 1..taken} =>
           /\ S \in SUBSET Threads /\ S \in SUBSET Sleepers(q)
           /\ {q[i].thread : i \in StillWaiting(q, taken)} = Woken(S)
           /\ given = UnitsOf(amount, Woken(S)) /\ given \in Nat
           /\ dropped = UnitsOf(amount, S \ Woken(S)) /\ dropped \in Nat
    BY <1>5, <1>6, <1>7, TakenThreads DEF Woken
  <2>2. QED
    BY <1>8, <2>1
<1>10. Sleepers(q) = QueueOf(s) \ {t}
  BY <1>4 DEF Remainder, QueueOf
<1>11. t \notin H /\ R \in SUBSET QueueOf(s) /\ R \in SUBSET Threads
  BY <1>0, <1>9, <1>10
<1>12. Woken(R) = Woken(H) /\ R \ Woken(R) = {t} \cup (H \ Woken(H))
  BY <1>11 DEF Woken
<1>13. Remainder(SubSeq(q, taken + 1, Len(q)), q, H)
  BY <1>5, <1>7, <1>8, RestOfQueue
<1>14. Remainder(SubSeq(q, taken + 1, Len(q)), queue[s], R)
  BY <1>4, <1>13, RemainderOfRemainder
<1> HIDE DEF given, dropped
<1>15. wait' = [u \in Threads |-> IF u \in R /\ wait[u] = Waiting THEN B_OK ELSE wait[u]]
  BY <1>3, <1>9, <1>11 DEF UnblockAll, Woken
<1>16. queued' = [u \in Threads |-> queued[u] /\ u \notin R]
  BY <1>3, <1>8
<1>17. TakesOff(s, R)
  <2> HIDE DEF R
  <2>1. QED
    BY <1>3, <1>11, <1>14, <1>15, <1>16 DEF TakesOff
<1>18. UnitsOf(amount, R \ Woken(R)) = amount[t] + dropped
  <2>1. amount \in [Threads -> Nat] /\ amount[t] \in Nat
    BY <1>0 DEF TypeInv
  <2>2. UnitsOf(amount, {t}) = amount[t]
    BY <2>1, UnitsOfOne
  <2> DEFINE D == H \ Woken(H)
  <2>3. IsFiniteSet({t}) /\ IsFiniteSet(D) /\ {t} \cap D = {}
        /\ \A x \in {t} \cup D : amount[x] \in Nat
    BY <1>0, <1>9, <1>11, <2>1, FS_Subset, FS_Singleton
  <2> HIDE DEF D
  <2>4. UnitsOf(amount, {t} \cup D) = UnitsOf(amount, {t}) + UnitsOf(amount, D)
    BY <2>3, UnitsOfBoth
  <2>5. QED
    BY <1>9, <1>12, <2>2, <2>4 DEF D
<1>19. Gives(s, R, 0)
  <2>1. net_count[s] \in Int /\ count[s] \in Int /\ units \in [Slots -> Int]
        /\ amount[t] \in Nat
    BY <1>0 DEF TypeInv
  <2>2. net_count[s] - given = net_count[s] + 0 - given
    BY <1>9, <2>1
  <2>3. count[s] + amount[t] + dropped = count[s] + 0 + (amount[t] + dropped)
    BY <1>9, <2>1
  <2>4. units' = [units EXCEPT ![s] = units[s] + 0]
    BY <2>1
  <2> HIDE DEF R
  <2>5. QED
    BY <1>3, <1>9, <1>12, <1>18, <2>2, <2>3, <2>4 DEF Gives
<1>20. QED
  <2>1. /\ Remainder(q, queue[s], {t}) /\ Asked(q) /\ R = {t} \cup H
        /\ TakesOff(s, R) /\ Gives(s, R, 0) /\ t \notin H
    BY <1>4, <1>6, <1>11, <1>17, <1>19
  <2> HIDE DEF R
  <2>2. QED
    BY <2>1 DEF H, limit

\* The types of what such a step changes.
DataType ==
    /\ WaitTypeOK
    /\ count \in [Slots -> Int] /\ net_count \in [Slots -> Int] /\ units \in [Slots -> Int]
    /\ queue \in [Slots -> Seq(Entry)]
    /\ queued \in [Threads -> BOOLEAN]

\* They keep them.
LEMMA TakesOffType ==
    ASSUME TypeInv, QueueInv, NEW s \in Slots, NEW R, TakesOff(s, R),
           NEW n \in Int, Gives(s, R, n)
    PROVE  DataType'
<1>1. wait' \in [Threads -> Results \cup {Waiting}] /\ queued' \in [Threads -> BOOLEAN]
  BY DEF TakesOff, TypeInv
<1>2. queue' \in [Slots -> Seq(Entry)]
  BY TakesOffQueues
<1>3. UnitsOf(amount, Woken(R)) \in Nat /\ UnitsOf(amount, R \ Woken(R)) \in Nat
  <2>1. R \in SUBSET Threads /\ Woken(R) \in SUBSET R /\ amount \in [Threads -> Nat]
    BY InOneQueue DEF TakesOff, Woken, TypeInv
  <2>2. QED
    BY <2>1, UnitsWithout
<1> DEFINE a == UnitsOf(amount, Woken(R))
           b == UnitsOf(amount, R \ Woken(R))
<1>4. a \in Nat /\ b \in Nat
  BY <1>3
<1>5. /\ net_count' = [net_count EXCEPT ![s] = net_count[s] + n - a]
      /\ count' = [count EXCEPT ![s] = count[s] + n + b]
      /\ units' = [units EXCEPT ![s] = units[s] + n]
  BY DEF Gives
<1> HIDE DEF a, b
<1>6. count' \in [Slots -> Int] /\ net_count' \in [Slots -> Int] /\ units' \in [Slots -> Int]
  BY <1>4, <1>5, SMTT(20) DEF TypeInv
<1>7. QED
  BY <1>1, <1>2, <1>6 DEF DataType

\* A release keeps everything in order when it is a step of nobody or of threads that
\* do not wait.
LEMMA ReleaseKeeps ==
    ASSUME IInv, NEW s \in Slots, used[s], NEW n \in Int, NEW b \in BOOLEAN,
           ReleaseLocked(s, n, b), UNCHANGED slotVars,
           NEW L \in SUBSET Threads, GoOn(L), \A u \in L : ~Waits(u) /\ ~Waits(u)'
    PROVE  DataType' /\ QueueInv' /\ WaitInv' /\ UnitsInv'
<1>0. TypeInv /\ QueueInv /\ WaitInv /\ UnitsInv /\ UNCHANGED <<used, generation>>
  BY DEF IInv, slotVars
<1> DEFINE R == Heads(queue[s], net_count[s] + n, n)
<1>1. /\ TakesOff(s, R)
      /\ \E m \in Int : Gives(s, R, m)
  BY <1>0, ReleaseTakesOff
<1> HIDE DEF R
<1>2. PICK m \in Int : Gives(s, R, m)
  BY <1>1
<1>3. \A u \in L : ~queued[u] /\ wait[u] # Waiting
  BY <1>0 DEF WaitInv
<1>4. \A u \in L : ~queued'[u]
  BY <1>1, <1>3 DEF TakesOff
<1>5. \A u \in L : \A x \in Slots : u \notin GivenTo(x)
  BY DEF GivenTo
<1>6. DataType'
  BY <1>0, <1>1, <1>2, TakesOffType
<1>7. QueueInv' /\ WaitInv'
  BY <1>0, <1>1, <1>4, TakesOffKeepsQueues
<1>8. UnitsInv'
  BY <1>0, <1>1, <1>2, <1>3, <1>4, <1>5, TakesOffUnits
<1>9. QED
  BY <1>6, <1>7, <1>8

\* The slots are accounted for as long as nothing happens to them.
LEMMA SlotsKept ==
    ASSUME SlotInv, UNCHANGED <<free, used>>,
           \A t \in Threads : \A s \in Slots : Freeing(t, s)' <=> Freeing(t, s)
    PROVE  SlotInv'
BY DEF SlotInv

\* The invariant of the slots when t starts, continues or ends some other call.
LEMMA SlotsKeptBy ==
    ASSUME TypeInv, SlotInv, NEW t \in Threads, UNCHANGED <<free, used>>,
           NEW step, pc' = [pc EXCEPT ![t] = step],
           \A u \in Threads \ {t} : sem'[u] = sem[u],
           pc[t] # "freeing", step # "freeing"
    PROVE  SlotInv'
<1>1. pc \in [Threads -> Steps]
  BY DEF TypeInv
<1>2. ASSUME NEW u \in Threads, NEW s \in Slots
      PROVE  Freeing(u, s)' <=> Freeing(u, s)
  <2>1. CASE u = t
    BY <1>1, <2>1 DEF Freeing
  <2>2. CASE u # t
    BY <1>1, <2>2 DEF Freeing
  <2>3. QED
    BY <2>1, <2>2
<1>3. QED
  BY <1>2, SlotsKept

-----------------------------------------------------------------------------
(* The steps *)

\* Releases of nobody in particular.
LEMMA ReleaseStep ==
    ASSUME IInv, NEW s \in Slots, NEW n \in Int, NEW b \in BOOLEAN, used[s],
           ReleaseLocked(s, n, b), UNCHANGED <<slotVars, pc, callVars>>
    PROVE  IInv'
<1>1. GoOn({}) /\ {} \in SUBSET Threads
  BY DEF GoOn, Waits, callVars
<1>2. DataType' /\ QueueInv' /\ WaitInv' /\ UnitsInv'
  BY <1>1, ReleaseKeeps
<1>3. TypeInv'
  BY <1>2 DEF IInv, TypeInv, DataType, slotVars, callVars
<1>4. CallInv'
  BY DEF IInv, CallInv, callVars
<1>5. SlotInv'
  <2>1. UNCHANGED <<free, used>> /\ SlotInv
    BY DEF slotVars, IInv
  <2>2. \A t \in Threads : \A x \in Slots : Freeing(t, x)' <=> Freeing(t, x)
    BY DEF Freeing, callVars
  <2>3. QED
    BY <2>1, <2>2, SlotsKept
<1>6. QED
  BY <1>2, <1>3, <1>4, <1>5 DEF IInv

\* release_sem_etc() of a number of units keeps the invariant ...
LEMMA ReleaseInv ==
    ASSUME IInv, NEW s \in Slots, NEW n \in Counts, NEW b \in BOOLEAN,
           release_sem_etc(s, n, b)
    PROVE  IInv'
BY ReleaseStep DEF release_sem_etc

\* ... and with B_RELEASE_ALL.
LEMMA ReleaseAllInv ==
    ASSUME IInv, NEW s \in Slots, ReleaseAll(s)
    PROVE  IInv'
<1>1. net_count[s] - count[s] \in Int
  BY DEF IInv, TypeInv
<1>2. QED
  BY <1>1, ReleaseStep DEF ReleaseAll

\* Calls come and go while the queues stay as they are.
LEMMA QueuesSame ==
    ASSUME TypeInv, QueueInv, WaitInv, UNCHANGED <<wait, queue, queued, used, generation>>,
           NEW L, GoOn(L), \A u \in L : ~queued[u]
    PROVE  QueueInv' /\ WaitInv'
<1>1. ASSUME NEW x \in Slots, NEW i \in 1..Len(queue[x])
      PROVE  LET e == queue[x][i] IN
             /\ used[x] /\ queued[e.thread] /\ sem'[e.thread] = IdOf(x)
             /\ amount'[e.thread] = e.count
  <2> DEFINE e == queue[x][i]
  <2>1. e \in Entry
    BY DEF TypeInv
  <2>2. /\ used[x] /\ queued[e.thread] /\ sem[e.thread] = IdOf(x)
        /\ amount[e.thread] = e.count
    BY DEF QueueInv
  <2>3. e.thread \in Threads \ L
    BY <2>1, <2>2 DEF Entry
  <2> HIDE DEF e
  <2>4. sem'[e.thread] = sem[e.thread] /\ amount'[e.thread] = amount[e.thread]
    BY <2>3 DEF GoOn
  <2>5. QED
    BY <2>2, <2>4 DEF e
<1>2. \A x \in Slots : IdOf(x)' = IdOf(x)
  BY DEF IdOf
<1>3. QueueInv'
  BY <1>1, <1>2 DEF QueueInv
<1>4. \A t \in Threads : queued[t] => Waits(t)'
  BY DEF WaitInv, GoOn
<1>5. QED
  BY <1>3, <1>4 DEF WaitInv, QueueOf

\* The numbers agree when what is asked for and what is given stays the same.
LEMMA UnitsSame ==
    ASSUME TypeInv, UnitsInv,
           \A x \in Slots : used'[x] =>
              /\ used[x]
              /\ QueueOf(x)' = QueueOf(x) /\ GivenTo(x)' = GivenTo(x)
              /\ \A t \in QueueOf(x) \cup GivenTo(x) : amount'[t] = amount[t]
              /\ \E d \in Int : /\ count'[x] = count[x] - d
                                /\ net_count'[x] = net_count[x] - d
                                /\ units'[x] = units[x] - d,
           NEW s \in Slots, used'[s], QueueOf(s) \in SUBSET Threads
    PROVE  /\ net_count'[s] = count'[s] + UnitsOf(amount', QueueOf(s)')
           /\ units'[s] = net_count'[s] + UnitsOf(amount', GivenTo(s)')
<1> DEFINE Q == QueueOf(s)
           G == GivenTo(s)
           a == UnitsOf(amount, Q)
           g == UnitsOf(amount, G)
<1>1. /\ used[s] /\ QueueOf(s)' = Q /\ GivenTo(s)' = G
      /\ \A t \in Q \cup G : amount'[t] = amount[t]
  OBVIOUS
<1>2. PICK d \in Int : /\ count'[s] = count[s] - d
                       /\ net_count'[s] = net_count[s] - d
                       /\ units'[s] = units[s] - d
  OBVIOUS
<1>3. UnitsOf(amount', Q) = a /\ UnitsOf(amount', G) = g
  BY <1>1, UnitsOfSame
<1>4. a \in Nat /\ g \in Nat
  BY UnitsWithout DEF TypeInv, GivenTo
<1>5. net_count[s] = count[s] + a /\ units[s] = net_count[s] + g
  BY <1>1 DEF UnitsInv
<1>6. count[s] \in Int /\ net_count[s] \in Int /\ units[s] \in Int
  BY DEF TypeInv
<1> HIDE DEF a, g, Q, G
<1>7. net_count'[s] = count'[s] + a /\ units'[s] = net_count'[s] + g
  BY <1>2, <1>4, <1>5, <1>6
<1>8. QED
  BY <1>1, <1>3, <1>7

\* The same for all semaphores in use.
LEMMA UnitsSameInv ==
    ASSUME TypeInv, QueueInv, UnitsInv,
           \A x \in Slots : used'[x] =>
              /\ used[x]
              /\ QueueOf(x)' = QueueOf(x) /\ GivenTo(x)' = GivenTo(x)
              /\ \A t \in QueueOf(x) \cup GivenTo(x) : amount'[t] = amount[t]
              /\ \E d \in Int : /\ count'[x] = count[x] - d
                                /\ net_count'[x] = net_count[x] - d
                                /\ units'[x] = units[x] - d
    PROVE  UnitsInv'
<1>1. ASSUME NEW s \in Slots, used'[s]
      PROVE  /\ net_count'[s] = count'[s] + UnitsOf(amount', QueueOf(s)')
             /\ units'[s] = net_count'[s] + UnitsOf(amount', GivenTo(s)')
  <2>1. QueueOf(s) \in SUBSET Threads
    BY InOneQueue
  <2>2. QED
    BY <1>1, <2>1, UnitsSame
<1>2. QED
  BY <1>1 DEF UnitsInv

\* Calls of threads that do not wait come and go, and nothing else happens.
LEMMA CallsOnly ==
    ASSUME IInv, UNCHANGED <<wait, semVars, queued, units, used, generation>>,
           NEW L \in SUBSET Threads, GoOn(L), \A u \in L : ~Waits(u) /\ ~Waits(u)'
    PROVE  DataType' /\ QueueInv' /\ WaitInv' /\ UnitsInv'
<1>0. /\ TypeInv /\ QueueInv /\ WaitInv /\ UnitsInv
      /\ UNCHANGED <<wait, queue, queued, used, generation, count, net_count, units>>
  BY DEF IInv, semVars
<1>1. DataType'
  BY <1>0 DEF DataType, TypeInv
<1>2. \A u \in L : ~queued[u]
  BY <1>0 DEF WaitInv
<1>3. QueueInv' /\ WaitInv'
  BY <1>0, <1>2, QueuesSame
<1>4. ASSUME NEW x \in Slots, used'[x]
      PROVE  /\ used[x]
             /\ QueueOf(x)' = QueueOf(x) /\ GivenTo(x)' = GivenTo(x)
             /\ \A t \in QueueOf(x) \cup GivenTo(x) : amount'[t] = amount[t]
             /\ \E d \in Int : /\ count'[x] = count[x] - d
                               /\ net_count'[x] = net_count[x] - d
                               /\ units'[x] = units[x] - d
  <2>1. used[x] /\ QueueOf(x)' = QueueOf(x) /\ IdOf(x)' = IdOf(x)
    BY <1>0, <1>4 DEF QueueOf, IdOf
  <2>2. GivenTo(x)' = GivenTo(x)
    BY <1>0, <2>1 DEF GivenTo, GoOn
  <2>3. \A t \in QueueOf(x) \cup GivenTo(x) : t \in Threads \ L
    <3>1. \A t \in QueueOf(x) : t \in Threads \ L
      BY <1>0, <1>2, InOneQueue
    <3>2. QED
      BY <3>1 DEF GivenTo
  <2>4. \A t \in QueueOf(x) \cup GivenTo(x) : amount'[t] = amount[t]
    BY <2>3 DEF GoOn
  <2>5. /\ 0 \in Int /\ count'[x] = count[x] - 0
        /\ net_count'[x] = net_count[x] - 0 /\ units'[x] = units[x] - 0
    BY <1>0 DEF TypeInv
  <2>6. QED
    BY <2>1, <2>2, <2>4, <2>5
<1>5. UnitsInv'
  BY <1>0, <1>4, UnitsSameInv
<1>6. QED
  BY <1>1, <1>3, <1>5

\* The release in switch_sem_etc(), whether the semaphore still exists or not.
LEMMA ReleaseOtherKeeps ==
    ASSUME IInv, NEW t \in Threads, toRelease[t] \in Ids, ReleaseOther(t),
           NEW L \in SUBSET Threads, GoOn(L), \A u \in L : ~Waits(u) /\ ~Waits(u)'
    PROVE  DataType' /\ QueueInv' /\ WaitInv' /\ UnitsInv'
<1> DEFINE r == toRelease[t]
<1>1. CASE Valid(r)
  <2>1. r.slot \in Slots /\ used[r.slot]
    BY <1>1 DEF Ids, Valid
  <2>2. ReleaseLocked(r.slot, 1, FALSE) /\ UNCHANGED slotVars
    BY <1>1 DEF ReleaseOther
  <2> HIDE DEF r
  <2>3. PICK n \in Int : n = 1
    OBVIOUS
  <2>4. PICK b \in BOOLEAN : b = FALSE
    OBVIOUS
  <2>5. ReleaseLocked(r.slot, n, b)
    BY <2>2, <2>3, <2>4, Zenon
  <2>6. QED
    BY <2>1, <2>2, <2>5, ReleaseKeeps
<1>2. CASE ~Valid(r)
  <2>1. UNCHANGED <<wait, semVars, queued, units, used, generation>>
    BY <1>2 DEF ReleaseOther, slotVars
  <2> HIDE DEF r
  <2>2. QED
    BY <2>1, CallsOnly
<1>3. QED
  BY <1>1, <1>2

\* switch_sem_etc() releases the other semaphore, when the thread is queued ...
LEMMA SwitchReleasesInv ==
    ASSUME IInv, NEW t \in Threads, SwitchReleases(t)
    PROVE  IInv'
<1>0. /\ TypeInv /\ CallInv /\ SlotInv /\ UNCHANGED <<semLock, sem, amount, free, used, generation>>
      /\ pc[t] = "switching" /\ pc' = [pc EXCEPT ![t] = "blocked"] /\ ReleaseOther(t)
      /\ toRelease' = [toRelease EXCEPT ![t] = None]
  BY DEF IInv, SwitchReleases, ReleaseOther, slotVars, Goto
<1>1. toRelease[t] \in Ids
  BY <1>0 DEF CallInv
<1>2. pc \in [Threads -> Steps]
  BY <1>0 DEF TypeInv
<1>3. GoOn({}) /\ {} \in SUBSET Threads
  BY <1>0, <1>2 DEF GoOn, Waits
<1>4. DataType' /\ QueueInv' /\ WaitInv' /\ UnitsInv'
  BY <1>0, <1>1, <1>3, ReleaseOtherKeeps
<1>5. TypeInv'
  BY <1>0, <1>4 DEF TypeInv, DataType, Steps
<1>6. CallInv'
  BY <1>0, <1>2 DEF CallInv
<1>7. SlotInv'
  BY <1>0, SlotsKeptBy
<1>8. QED
  BY <1>4, <1>5, <1>6, <1>7 DEF IInv

\* ... and when it is not, because it was interrupted.
LEMMA InterruptedReleasesInv ==
    ASSUME IInv, NEW t \in Threads, InterruptedReleases(t)
    PROVE  IInv'
<1>0. /\ TypeInv /\ CallInv /\ SlotInv /\ UNCHANGED <<free, used, generation>>
      /\ pc[t] = "interrupted" /\ pc' = [pc EXCEPT ![t] = "idle"] /\ ReleaseOther(t)
      /\ toRelease' = [toRelease EXCEPT ![t] = None]
      /\ sem' = [sem EXCEPT ![t] = None] /\ amount' = [amount EXCEPT ![t] = 0]
  BY DEF IInv, InterruptedReleases, ReleaseOther, slotVars, Goto, Return
<1>1. toRelease[t] \in Ids
  BY <1>0 DEF CallInv
<1>2. pc \in [Threads -> Steps] /\ amount \in [Threads -> Nat]
      /\ sem \in [Threads -> Ids \cup {None}]
  BY <1>0 DEF TypeInv, CallInv
<1>3. GoOn({t})
  BY <1>0, <1>2 DEF GoOn, Waits
<1>4. {t} \in SUBSET Threads /\ \A u \in {t} : ~Waits(u) /\ ~Waits(u)'
  BY <1>0, <1>2 DEF Waits
<1>5. DataType' /\ QueueInv' /\ WaitInv' /\ UnitsInv'
  BY <1>0, <1>1, <1>3, <1>4, ReleaseOtherKeeps
<1>6. TypeInv'
  BY <1>0, <1>5 DEF TypeInv, DataType, Steps
<1>7. CallInv'
  BY <1>0, <1>2 DEF CallInv
<1>8. SlotInv'
  <2>1. \A u \in Threads \ {t} : sem'[u] = sem[u]
    BY <1>0, <1>2
  <2>2. QED
    BY <1>0, <2>1, SlotsKeptBy
<1>9. QED
  BY <1>5, <1>6, <1>7, <1>8 DEF IInv

\* The wait of a thread ends by its timeout or a signal.
LEMMA WaitFailsInv ==
    ASSUME IInv, NEW t \in Threads, WaitFails(t)
    PROVE  IInv'
<1>0. /\ TypeInv /\ CallInv /\ QueueInv /\ WaitInv /\ SlotInv /\ UnitsInv
      /\ UNCHANGED <<count, net_count, queue, free, used, generation, queued, pc, sem,
                     amount, toRelease, units>>
  BY DEF IInv, WaitFails, semVars, slotVars, callVars
<1>1. PICK result \in {B_TIMED_OUT, B_INTERRUPTED} :
         wait[t] = Waiting /\ wait' = [wait EXCEPT ![t] = result]
  BY DEF WaitFails, thread_unblock
<1>2. wait \in [Threads -> Results \cup {Waiting}]
  BY <1>0 DEF TypeInv
<1>3. wait' \in [Threads -> Results \cup {Waiting}]
  BY <1>1, <1>2
<1>4. TypeInv'
  BY <1>0, <1>3 DEF TypeInv
<1>5. CallInv'
  BY <1>0 DEF CallInv
<1>6. \A x \in Slots : QueueOf(x)' = QueueOf(x) /\ IdOf(x)' = IdOf(x)
  BY <1>0 DEF QueueOf, IdOf
<1>7. QueueInv'
  BY <1>0, <1>6 DEF QueueInv
<1>8. WaitInv'
  BY <1>0, <1>1, <1>2, <1>6 DEF WaitInv, Waits
<1>9. SlotInv'
  BY <1>0 DEF SlotInv, Freeing
<1>10. UnitsInv'
  <2>1. \A x \in Slots : GivenTo(x)' = GivenTo(x)
    BY <1>0, <1>1, <1>2, <1>6 DEF GivenTo, Waits
  <2>2. \A x \in Slots : /\ 0 \in Int /\ count'[x] = count[x] - 0
                         /\ net_count'[x] = net_count[x] - 0 /\ units'[x] = units[x] - 0
    BY <1>0 DEF TypeInv
  <2>3. \A x \in Slots : used'[x] =>
              /\ used[x]
              /\ QueueOf(x)' = QueueOf(x) /\ GivenTo(x)' = GivenTo(x)
              /\ \A u \in QueueOf(x) \cup GivenTo(x) : amount'[u] = amount[u]
              /\ \E d \in Int : /\ count'[x] = count[x] - d
                                /\ net_count'[x] = net_count[x] - d
                                /\ units'[x] = units[x] - d
    BY <1>0, <1>6, <2>1, <2>2
  <2>4. QED
    BY <1>0, <2>3, UnitsSameInv
<1>11. QED
  BY <1>4, <1>5, <1>7, <1>8, <1>9, <1>10 DEF IInv

\* A thread that returns: what is left to show is about the queues and the numbers.
LEMMA ReturnInv ==
    ASSUME IInv, NEW t \in Threads, pc[t] = "blocked", Return(t), UNCHANGED slotVars,
           UNCHANGED toRelease, DataType', QueueInv', WaitInv', UnitsInv'
    PROVE  IInv'
<1>0. /\ TypeInv /\ CallInv /\ SlotInv /\ UNCHANGED <<free, used, generation, toRelease>>
      /\ pc' = [pc EXCEPT ![t] = "idle"]
      /\ sem' = [sem EXCEPT ![t] = None] /\ amount' = [amount EXCEPT ![t] = 0]
  BY DEF IInv, slotVars, Goto, Return
<1>1. pc \in [Threads -> Steps] /\ amount \in [Threads -> Nat]
      /\ sem \in [Threads -> Ids \cup {None}]
  BY <1>0 DEF TypeInv, CallInv
<1>2. TypeInv'
  BY <1>0 DEF TypeInv, DataType, Steps
<1>3. CallInv'
  BY <1>0, <1>1 DEF CallInv
<1>4. SlotInv'
  <2>1. \A u \in Threads \ {t} : sem'[u] = sem[u]
    BY <1>0, <1>1
  <2>2. QED
    BY <1>0, <2>1, SlotsKeptBy
<1>5. QED
  BY <1>2, <1>3, <1>4 DEF IInv

\* A thread that is still queued returns: its wait has failed.
LEMMA BlockReturnsQueued ==
    ASSUME IInv, NEW t \in Threads, BlockReturns(t), queued[t]
    PROVE  IInv'
<1> DEFINE s == sem[t].slot
<1>0. /\ TypeInv /\ CallInv /\ QueueInv /\ WaitInv /\ SlotInv /\ UnitsInv
      /\ UNCHANGED <<used, generation>>
      /\ pc[t] = "blocked" /\ wait[t] # Waiting
      /\ remove_thread_from_sem(t, s) /\ Return(t) /\ UNCHANGED slotVars
      /\ UNCHANGED toRelease
      /\ units' = IF wait[t] = B_OK /\ Valid(sem[t])
                  THEN [units EXCEPT ![s] = @ - amount[t]] ELSE units
  BY DEF IInv, BlockReturns, slotVars, Unblocked
<1>1. wait[t] # B_OK
  BY <1>0 DEF WaitInv
<1>2. PICK x \in Slots : t \in QueueOf(x)
  BY <1>0 DEF WaitInv
<1>3. x = s /\ used[s] /\ s \in Slots
  <2>1. sem[t] = IdOf(x) /\ used[x]
    BY <1>0, <1>2, InOneQueue
  <2>2. QED
    BY <2>1 DEF IdOf
<1>4. UNCHANGED units
  BY <1>0, <1>1
<1> HIDE DEF s
<1>5. \E R : t \in R /\ TakesOff(s, R) /\ Gives(s, R, 0)
  BY <1>0, <1>2, <1>3, <1>4, RemoveTakesOff
<1>6. PICK R : t \in R /\ TakesOff(s, R) /\ Gives(s, R, 0)
  BY <1>5
<1>7. PICK z \in Int : z = 0
  OBVIOUS
<1>8. Gives(s, R, z)
  BY <1>6, <1>7
<1>9. pc \in [Threads -> Steps] /\ amount \in [Threads -> Nat]
      /\ sem \in [Threads -> Ids \cup {None}]
  BY <1>0 DEF TypeInv, CallInv
<1>10. GoOn({t}) /\ \A u \in {t} : ~Waits(u)'
  BY <1>0, <1>9 DEF GoOn, Waits, Return, Goto
<1>11. \A u \in {t} : ~queued'[u] /\ ~(u \in R /\ wait[u] = Waiting)
  BY <1>0, <1>6 DEF TakesOff
<1>12. \A u \in {t} : \A y \in Slots : used[y] => u \notin GivenTo(y)
  BY <1>1 DEF GivenTo
<1>13. DataType'
  BY <1>0, <1>3, <1>6, <1>8, TakesOffType
<1>14. QueueInv' /\ WaitInv'
  BY <1>0, <1>3, <1>6, <1>10, <1>11, TakesOffKeepsQueues
<1>15. UnitsInv'
  BY <1>0, <1>3, <1>6, <1>8, <1>10, <1>11, <1>12, TakesOffUnits
<1>16. QED
  BY <1>0, <1>13, <1>14, <1>15, ReturnInv

\* A thread that was taken off the queue returns, with the units or without.
LEMMA BlockReturnsWoken ==
    ASSUME IInv, NEW t \in Threads, BlockReturns(t), ~queued[t]
    PROVE  IInv'
<1> DEFINE s == sem[t].slot
<1>0. /\ TypeInv /\ CallInv /\ QueueInv /\ WaitInv /\ SlotInv /\ UnitsInv
      /\ UNCHANGED <<wait, queue, queued, used, generation, count, net_count>>
      /\ pc[t] = "blocked" /\ wait[t] # Waiting
      /\ Return(t) /\ UNCHANGED slotVars /\ UNCHANGED toRelease
      /\ units' = IF wait[t] = B_OK /\ Valid(sem[t])
                  THEN [units EXCEPT ![s] = @ - amount[t]] ELSE units
  BY DEF IInv, BlockReturns, slotVars, semVars, Unblocked
<1>1. pc \in [Threads -> Steps] /\ amount \in [Threads -> Nat]
      /\ sem \in [Threads -> Ids \cup {None}]
      /\ count \in [Slots -> Int] /\ net_count \in [Slots -> Int] /\ units \in [Slots -> Int]
  BY <1>0 DEF TypeInv, CallInv
<1>2. sem[t] \in Ids /\ s \in Slots
  BY <1>0 DEF CallInv, Ids
<1>3. GoOn({t}) /\ ~Waits(t)' /\ Waits(t)
  BY <1>0, <1>1 DEF GoOn, Waits, Return, Goto
<1>4. QueueInv' /\ WaitInv'
  BY <1>0, <1>3, QueuesSame
<1>5. DataType'
  <2>1. units' \in [Slots -> Int]
    <3>1. units[s] - amount[t] \in Int
      BY <1>1, <1>2
    <3>2. [units EXCEPT ![s] = @ - amount[t]] \in [Slots -> Int]
      BY <1>1, <3>1
    <3> HIDE DEF s
    <3>3. QED
      BY <1>0, <1>1, <3>2
  <2>2. QED
    BY <1>0, <2>1 DEF DataType, TypeInv
<1>6. \A x \in Slots : IdOf(x)' = IdOf(x) /\ QueueOf(x)' = QueueOf(x)
  BY <1>0 DEF IdOf, QueueOf
<1>7. \A x \in Slots : GivenTo(x)' = GivenTo(x) \ {t}
  BY <1>0, <1>3, <1>6 DEF GivenTo, GoOn
<1>8. ASSUME NEW x \in Slots, used[x]
      PROVE  t \in GivenTo(x) <=> x = s /\ wait[t] = B_OK /\ Valid(sem[t])
  BY <1>2, <1>3, <1>8 DEF GivenTo, Valid, Ids, IdOf
<1> HIDE DEF s
<1>9. ASSUME NEW x \in Slots, used[x]
      PROVE  /\ net_count'[x] = count'[x] + UnitsOf(amount', QueueOf(x)')
             /\ units'[x] = net_count'[x] + UnitsOf(amount', GivenTo(x)')
  <2>1. QueueOf(x) \in SUBSET Threads /\ t \notin QueueOf(x)
    BY <1>0, <1>9, InOneQueue
  <2>2. UnitsOf(amount', QueueOf(x)) = UnitsOf(amount, QueueOf(x))
    <3>1. \A u \in QueueOf(x) : amount'[u] = amount[u]
      BY <1>3, <2>1 DEF GoOn
    <3>2. QED
      BY <3>1, UnitsOfSame
  <2> DEFINE G == GivenTo(x) \ {t}
             g == UnitsOf(amount, G)
  <2>3. UnitsOf(amount', G) = g
    <3>1. \A u \in G : amount'[u] = amount[u]
      BY <1>3 DEF GoOn, GivenTo
    <3>2. QED
      BY <3>1, UnitsOfSame
  <2>4. /\ net_count[x] = count[x] + UnitsOf(amount, QueueOf(x))
        /\ units[x] = net_count[x] + UnitsOf(amount, GivenTo(x))
    BY <1>0, <1>9 DEF UnitsInv
  <2>5. units'[x] = net_count[x] + g
    <3>1. CASE t \in GivenTo(x)
      <4>1. x = s /\ units'[x] = units[x] - amount[t]
        BY <1>0, <1>1, <1>2, <1>8, <1>9, <3>1
      <4>2. {t} \in SUBSET GivenTo(x) /\ GivenTo(x) \in SUBSET Threads
        BY <3>1 DEF GivenTo
      <4>3. UnitsOf(amount, GivenTo(x)) = g + UnitsOf(amount, {t}) /\ g \in Nat
        BY <1>1, <4>2, UnitsWithout
      <4>4. UnitsOf(amount, {t}) = amount[t] /\ amount[t] \in Nat
        BY <1>1, UnitsOfOne
      <4> HIDE DEF g
      <4>5. units[x] = net_count[x] + (g + amount[t])
        BY <2>4, <4>3, <4>4
      <4>6. net_count[x] \in Int /\ units[x] \in Int
        BY <1>1
      <4>7. QED
        BY <4>1, <4>3, <4>4, <4>5, <4>6
    <3>2. CASE t \notin GivenTo(x)
      <4>1. units'[x] = units[x]
        BY <1>0, <1>1, <1>2, <1>8, <1>9, <3>2
      <4>2. G = GivenTo(x)
        BY <3>2
      <4>3. QED
        BY <2>4, <4>1, <4>2
    <3>3. QED
      BY <3>1, <3>2
  <2> HIDE DEF g, G
  <2>6. GivenTo(x)' = G /\ QueueOf(x)' = QueueOf(x)
    BY <1>6, <1>7 DEF G
  <2>7. QED
    BY <1>0, <2>2, <2>3, <2>4, <2>5, <2>6
<1>10. UnitsInv'
  BY <1>0, <1>9 DEF UnitsInv
<1>11. QED
  BY <1>0, <1>4, <1>5, <1>10, ReturnInv

\* The thread of e joins the end of the queue q, which is r then.
Joins(e, q, r) ==
    /\ q \in Seq(Entry) /\ OneEach(q) /\ e \in Entry /\ e.thread \notin Sleepers(q)
    /\ r = Append(q, e)

\* What the queue is then.
LEMMA QueueAppend ==
    ASSUME NEW q, NEW e, NEW r, Joins(e, q, r)
    PROVE  /\ r \in Seq(Entry) /\ OneEach(r)
           /\ Sleepers(r) = Sleepers(q) \cup {e.thread}
           /\ \A i \in 1..Len(r) : r[i] = e \/ \E j \in 1..Len(q) : r[i] = q[j]
<1>0. /\ q \in Seq(Entry) /\ OneEach(q) /\ e \in Entry /\ e.thread \notin Sleepers(q)
      /\ r = Append(q, e)
  BY DEF Joins
<1>1. /\ Len(q) \in Nat /\ r \in Seq(Entry) /\ Len(r) = Len(q) + 1 /\ r[Len(q) + 1] = e
      /\ \A i \in 1..Len(q) : r[i] = q[i]
  BY <1>0
<1>2. \A i \in 1..Len(r) : i \in 1..Len(q) \/ i = Len(q) + 1
  BY <1>1
<1>3. \A i \in 1..Len(q) : q[i].thread # e.thread /\ i \in 1..Len(r)
  BY <1>0, <1>1 DEF Sleepers
<1>4. Len(q) + 1 \in 1..Len(r)
  BY <1>1
<1>5. OneEach(r)
  <2>1. ASSUME NEW i \in 1..Len(r), NEW j \in 1..Len(r), r[i].thread = r[j].thread
        PROVE  i = j
    <3>1. CASE i \in 1..Len(q) /\ j \in 1..Len(q)
      BY <1>0, <1>1, <2>1, <3>1 DEF OneEach
    <3>2. CASE ~(i \in 1..Len(q) /\ j \in 1..Len(q))
      BY <1>1, <1>2, <1>3, <2>1, <3>2
    <3>3. QED
      BY <3>1, <3>2
  <2>2. QED
    BY <2>1 DEF OneEach
<1>6. ASSUME NEW t \in Sleepers(r) PROVE t \in Sleepers(q) \cup {e.thread}
  BY <1>1, <1>2 DEF Sleepers
<1>7. ASSUME NEW t \in Sleepers(q) \cup {e.thread} PROVE t \in Sleepers(r)
  BY <1>1, <1>3, <1>4 DEF Sleepers
<1>8. Sleepers(r) = Sleepers(q) \cup {e.thread}
  BY <1>6, <1>7
<1>9. \A i \in 1..Len(r) : r[i] = e \/ \E j \in 1..Len(q) : r[i] = q[j]
  BY <1>1, <1>2
<1>10. QED
  BY <1>1, <1>5, <1>8, <1>9

\* switch_sem_etc() finds enough units.
LEMMA SwitchTakes ==
    ASSUME IInv, NEW s \in Slots, NEW n \in Nat,
           count' = [count EXCEPT ![s] = @ - n],
           net_count' = [net_count EXCEPT ![s] = @ - n],
           units' = [units EXCEPT ![s] = @ - n],
           UNCHANGED <<wait, queue, queued, pc, callVars, slotVars>>
    PROVE  IInv'
<1>0. /\ TypeInv /\ CallInv /\ QueueInv /\ WaitInv /\ SlotInv /\ UnitsInv
      /\ UNCHANGED <<wait, queue, queued, pc, sem, amount, toRelease, used, generation, free>>
  BY DEF IInv, callVars, slotVars
<1>1. count \in [Slots -> Int] /\ net_count \in [Slots -> Int] /\ units \in [Slots -> Int]
  BY <1>0 DEF TypeInv
<1>2. count' \in [Slots -> Int] /\ net_count' \in [Slots -> Int] /\ units' \in [Slots -> Int]
  BY <1>1
<1>3. TypeInv'
  BY <1>0, <1>2 DEF TypeInv
<1>4. CallInv' /\ SlotInv'
  BY <1>0 DEF CallInv, SlotInv, Freeing
<1>5. \A x \in Slots : IdOf(x)' = IdOf(x) /\ QueueOf(x)' = QueueOf(x)
                       /\ GivenTo(x)' = GivenTo(x)
  BY <1>0 DEF IdOf, QueueOf, GivenTo, Waits
<1>6. QueueInv'
  BY <1>0, <1>5 DEF QueueInv
<1>7. WaitInv'
  BY <1>0, <1>5 DEF WaitInv, Waits
<1>8. UnitsInv'
  <2>1. ASSUME NEW x \in Slots
        PROVE  \E d \in Int : /\ count'[x] = count[x] - d
                              /\ net_count'[x] = net_count[x] - d
                              /\ units'[x] = units[x] - d
    <3>1. CASE x = s
      BY <1>1, <3>1
    <3>2. CASE x # s
      <4>1. /\ 0 \in Int /\ count'[x] = count[x] - 0
            /\ net_count'[x] = net_count[x] - 0 /\ units'[x] = units[x] - 0
        BY <1>1, <3>2
      <4>2. QED
        BY <4>1
    <3>3. QED
      BY <3>1, <3>2
  <2>2. \A x \in Slots : used'[x] =>
              /\ used[x]
              /\ QueueOf(x)' = QueueOf(x) /\ GivenTo(x)' = GivenTo(x)
              /\ \A u \in QueueOf(x) \cup GivenTo(x) : amount'[u] = amount[u]
              /\ \E d \in Int : /\ count'[x] = count[x] - d
                                /\ net_count'[x] = net_count[x] - d
                                /\ units'[x] = units[x] - d
    BY <1>0, <1>5, <2>1
  <2>3. QED
    BY <1>0, <2>2, UnitsSameInv
<1>9. QED
  BY <1>3, <1>4, <1>6, <1>7, <1>8 DEF IInv

\* switch_sem_etc() is interrupted and has to release the other semaphore.
LEMMA SwitchInterrupted ==
    ASSUME IInv, NEW t \in Threads, NEW s \in Slots, NEW n \in Nat, NEW r \in Ids,
           pc[t] = "idle", Arguments(t, r, s, n), Goto(t, "interrupted"),
           UNCHANGED <<wait, semVars, queued, units, slotVars>>
    PROVE  IInv'
<1>0. /\ TypeInv /\ CallInv /\ SlotInv
      /\ UNCHANGED <<wait, semVars, queued, units, used, generation, free>>
      /\ pc' = [pc EXCEPT ![t] = "interrupted"]
      /\ sem' = [sem EXCEPT ![t] = IdOf(s)] /\ amount' = [amount EXCEPT ![t] = n]
      /\ toRelease' = [toRelease EXCEPT ![t] = r]
  BY DEF IInv, slotVars, Arguments, Goto
<1>1. pc \in [Threads -> Steps] /\ amount \in [Threads -> Nat]
      /\ sem \in [Threads -> Ids \cup {None}] /\ generation \in [Slots -> 0..MaxGeneration]
  BY <1>0 DEF TypeInv, CallInv
<1>2. IdOf(s) \in Ids
  BY <1>1 DEF IdOf, Ids
<1>3. GoOn({t}) /\ {t} \in SUBSET Threads /\ \A u \in {t} : ~Waits(u) /\ ~Waits(u)'
  BY <1>0, <1>1 DEF GoOn, Waits
<1>4. DataType' /\ QueueInv' /\ WaitInv' /\ UnitsInv'
  BY <1>0, <1>3, CallsOnly
<1>5. TypeInv'
  BY <1>0, <1>1, <1>4 DEF TypeInv, DataType, Steps
<1>6. CallInv'
  <2> HIDE DEF IdOf
  <2>1. sem' \in [Threads -> Ids \cup {None}] /\ toRelease' \in [Threads -> Ids \cup {None}]
    BY <1>0, <1>1, <1>2 DEF CallInv
  <2>2. QED
    BY <1>0, <1>1, <1>2, <2>1 DEF CallInv
<1>7. SlotInv'
  <2>1. \A u \in Threads \ {t} : sem'[u] = sem[u]
    BY <1>0, <1>1
  <2>2. QED
    BY <1>0, <2>1, SlotsKeptBy
<1>8. QED
  BY <1>4, <1>5, <1>6, <1>7 DEF IInv

\* switch_sem_etc() queues the thread.
LEMMA SwitchBlocks ==
    ASSUME IInv, NEW t \in Threads, NEW s \in Slots, NEW n \in Nat,
           NEW r \in Ids \cup {None}, NEW step \in {"blocked", "switching"},
           step = "switching" => r \in Ids,
           pc[t] = "idle", used[s],
           count' = [count EXCEPT ![s] = @ - n],
           queue' = [queue EXCEPT ![s] = Append(@, [thread |-> t, count |-> n])],
           queued' = [queued EXCEPT ![t] = TRUE],
           wait' = thread_prepare_to_block(wait, t),
           Arguments(t, r, s, n), Goto(t, step),
           UNCHANGED <<net_count, units, slotVars>>
    PROVE  IInv'
<1> DEFINE e == [thread |-> t, count |-> n]
<1>0. /\ TypeInv /\ CallInv /\ QueueInv /\ WaitInv /\ SlotInv /\ UnitsInv
      /\ UNCHANGED <<net_count, units, used, generation, free>>
      /\ pc' = [pc EXCEPT ![t] = step] /\ wait' = [wait EXCEPT ![t] = Waiting]
      /\ sem' = [sem EXCEPT ![t] = IdOf(s)] /\ amount' = [amount EXCEPT ![t] = n]
      /\ toRelease' = [toRelease EXCEPT ![t] = r]
  BY DEF IInv, slotVars, Arguments, Goto, thread_prepare_to_block
<1>1. /\ pc \in [Threads -> Steps] /\ amount \in [Threads -> Nat]
      /\ sem \in [Threads -> Ids \cup {None}] /\ generation \in [Slots -> 0..MaxGeneration]
      /\ wait \in [Threads -> Results \cup {Waiting}] /\ queued \in [Threads -> BOOLEAN]
      /\ queue \in [Slots -> Seq(Entry)] /\ toRelease \in [Threads -> Ids \cup {None}]
      /\ count \in [Slots -> Int] /\ net_count \in [Slots -> Int] /\ units \in [Slots -> Int]
  BY <1>0 DEF TypeInv, CallInv
<1>2. IdOf(s) \in Ids /\ \A x \in Slots : IdOf(x)' = IdOf(x)
  BY <1>0, <1>1 DEF IdOf, Ids
<1>3. ~Waits(t) /\ ~queued[t] /\ \A x \in Slots : t \notin QueueOf(x) /\ t \notin GivenTo(x)
  <2>1. ~Waits(t) /\ ~queued[t]
    BY <1>0 DEF Waits, WaitInv
  <2>2. QED
    BY <1>0, <2>1, InOneQueue DEF GivenTo
<1>4. e \in Entry /\ e.thread = t /\ e.count = n
  BY DEF Entry
<1>5. queue[s] \in Seq(Entry) /\ OneEach(queue[s]) /\ QueueOf(s) = Sleepers(queue[s])
  BY <1>0, <1>1 DEF QueueInv, QueueOf
<1>6. queue' = [queue EXCEPT ![s] = Append(queue[s], e)]
  OBVIOUS
<1> HIDE DEF e
<1> DEFINE q == Append(queue[s], e)
<1>7. /\ q \in Seq(Entry) /\ OneEach(q) /\ Sleepers(q) = QueueOf(s) \cup {t}
      /\ \A i \in 1..Len(q) : q[i] = e \/ \E j \in 1..Len(queue[s]) : q[i] = queue[s][j]
  <2>1. Joins(e, queue[s], q)
    BY <1>3, <1>4, <1>5 DEF Joins
  <2> HIDE DEF q
  <2>2. /\ q \in Seq(Entry) /\ OneEach(q) /\ Sleepers(q) = Sleepers(queue[s]) \cup {e.thread}
        /\ \A i \in 1..Len(q) :
              q[i] = e \/ \E j \in 1..Len(queue[s]) : q[i] = queue[s][j]
    BY <2>1, QueueAppend, SMTT(20)
  <2>3. QED
    BY <1>4, <1>5, <2>2
<1> HIDE DEF q
<1>8. queue'[s] = q /\ \A x \in Slots : x # s => queue'[x] = queue[x]
  BY <1>1, <1>6 DEF q
<1>9. /\ QueueOf(s)' = QueueOf(s) \cup {t}
      /\ \A x \in Slots : x # s => QueueOf(x)' = QueueOf(x)
  BY <1>7, <1>8 DEF QueueOf
<1>10. \A u \in Threads \ {t} : /\ sem'[u] = sem[u] /\ amount'[u] = amount[u]
                                /\ queued'[u] = queued[u] /\ wait'[u] = wait[u]
                                /\ (Waits(u)' <=> Waits(u))
  BY <1>0, <1>1 DEF Waits
<1>11. /\ sem'[t] = IdOf(s) /\ amount'[t] = n /\ queued'[t] /\ wait'[t] = Waiting
       /\ Waits(t)'
  BY <1>0, <1>1, <1>2 DEF Waits
<1>12. TypeInv'
  <2>1. queue' \in [Slots -> Seq(Entry)]
    BY <1>1, <1>6, <1>7 DEF q
  <2>2. wait' \in [Threads -> Results \cup {Waiting}] /\ queued' \in [Threads -> BOOLEAN]
    BY <1>0, <1>1
  <2>3. count' \in [Slots -> Int] /\ amount' \in [Threads -> Nat]
    BY <1>0, <1>1
  <2>4. pc' \in [Threads -> Steps]
    BY <1>0, <1>1 DEF Steps
  <2>5. QED
    BY <1>0, <2>1, <2>2, <2>3, <2>4 DEF TypeInv
<1>13. CallInv'
  <2>1. sem' \in [Threads -> Ids \cup {None}] /\ toRelease' \in [Threads -> Ids \cup {None}]
    BY <1>0, <1>1, <1>2 DEF CallInv
  <2>2. QED
    BY <1>0, <1>1, <1>2, <2>1 DEF CallInv
<1>14. QueueInv'
  <2>1. \A x \in Slots : OneEach(queue'[x])
    BY <1>0, <1>7, <1>8 DEF QueueInv
  <2>2. ASSUME NEW x \in Slots, NEW j \in 1..Len(queue[x])
        PROVE  LET f == queue[x][j] IN
               /\ used'[x] /\ queued'[f.thread] /\ sem'[f.thread] = IdOf(x)'
               /\ amount'[f.thread] = f.count
    <3> DEFINE f == queue[x][j]
    <3>1. /\ used[x] /\ queued[f.thread] /\ sem[f.thread] = IdOf(x)
          /\ amount[f.thread] = f.count
      BY <1>0 DEF QueueInv
    <3>2. f.thread \in QueueOf(x)
      BY DEF QueueOf, Sleepers
    <3> HIDE DEF f
    <3>3. f.thread \in Threads \ {t}
      BY <1>0, <1>3, <3>2, InOneQueue
    <3>4. QED
      BY <1>0, <1>2, <1>10, <3>1, <3>3 DEF f
  <2>3. ASSUME NEW x \in Slots, NEW i \in 1..Len(queue'[x])
        PROVE  LET f == queue'[x][i] IN
               /\ used'[x] /\ queued'[f.thread] /\ sem'[f.thread] = IdOf(x)'
               /\ amount'[f.thread] = f.count
    <3>1. CASE x = s /\ queue'[x][i] = e
      BY <1>0, <1>2, <1>4, <1>11, <3>1
    <3>2. CASE ~(x = s /\ queue'[x][i] = e)
      <4>1. \E j \in 1..Len(queue[x]) : queue'[x][i] = queue[x][j]
        BY <1>7, <1>8, <3>2
      <4>2. QED
        BY <2>2, <4>1
    <3>3. QED
      BY <3>1, <3>2
  <2>4. QED
    BY <2>1, <2>3 DEF QueueInv
<1>15. WaitInv'
  <2>1. ASSUME NEW u \in Threads, u # t
        PROVE  /\ queued'[u] => /\ Waits(u)' /\ wait'[u] # B_OK
                                /\ \E x \in Slots : u \in QueueOf(x)'
               /\ wait'[u] = Waiting => queued'[u]
    BY <1>0, <1>9, <1>10, <2>1 DEF WaitInv
  <2>2. t \in QueueOf(s)'
    BY <1>9
  <2>3. QED
    BY <1>11, <2>1, <2>2 DEF WaitInv
<1>16. SlotInv'
  <2>1. \A u \in Threads \ {t} : sem'[u] = sem[u]
    BY <1>10
  <2>2. QED
    BY <1>0, <2>1, SlotsKeptBy
<1>17. UnitsInv'
  <2>1. \A x \in Slots : GivenTo(x)' = GivenTo(x)
    BY <1>2, <1>3, <1>10, <1>11 DEF GivenTo
  <2>2. \A x \in Slots : UnitsOf(amount', QueueOf(x)) = UnitsOf(amount, QueueOf(x))
    <3>1. \A x \in Slots : \A u \in QueueOf(x) : u \in Threads \ {t}
      BY <1>0, <1>3, InOneQueue
    <3>2. \A x \in Slots : \A u \in QueueOf(x) : amount'[u] = amount[u]
      BY <1>10, <3>1
    <3>3. QED
      BY <3>2, UnitsOfSame
  <2>3. \A x \in Slots : UnitsOf(amount', GivenTo(x)) = UnitsOf(amount, GivenTo(x))
    <3>1. \A x \in Slots : \A u \in GivenTo(x) : u \in Threads \ {t}
      BY <1>3 DEF GivenTo
    <3>2. \A x \in Slots : \A u \in GivenTo(x) : amount'[u] = amount[u]
      BY <1>10, <3>1
    <3>3. QED
      BY <3>2, UnitsOfSame
  <2> DEFINE k == UnitsOf(amount, QueueOf(s))
  <2>4. UnitsOf(amount', QueueOf(s) \cup {t}) = k + n /\ k \in Nat
    <3>1. /\ IsFiniteSet(QueueOf(s)) /\ IsFiniteSet({t}) /\ QueueOf(s) \cap {t} = {}
          /\ QueueOf(s) \in SUBSET Threads
      <4>1. IsFiniteSet(QueueOf(s)) /\ QueueOf(s) \in SUBSET Threads
        BY <1>0, InOneQueue
      <4>2. QED
        BY <1>3, <4>1, FS_Singleton, ZenonT(30)
    <3>2. \A u \in QueueOf(s) \cup {t} : amount'[u] \in Nat
      BY <3>1, <1>12 DEF TypeInv
    <3>3. /\ UnitsOf(amount', QueueOf(s)) \in Nat
          /\ UnitsOf(amount', QueueOf(s) \cup {t}) =
                 UnitsOf(amount', QueueOf(s)) + UnitsOf(amount', {t})
      BY <3>1, <3>2, UnitsOfBoth
    <3>4. UnitsOf(amount', {t}) = n
      BY <1>11, UnitsOfOne
    <3>5. QED
      BY <2>2, <3>3, <3>4
  <2> HIDE DEF k
  <2>5. /\ net_count'[s] = count'[s] + UnitsOf(amount', QueueOf(s)')
    <3>1. net_count[s] = count[s] + k /\ count'[s] = count[s] - n
      BY <1>0, <1>1 DEF UnitsInv, k
    <3>2. net_count'[s] = count'[s] + (k + n)
      BY <1>0, <1>1, <2>4, <3>1
    <3>3. QED
      BY <1>9, <2>4, <3>2
  <2>6. \A x \in Slots : x # s => count'[x] = count[x]
    BY <1>1
  <2>7. \A x \in Slots : used[x] =>
           /\ net_count'[x] = count'[x] + UnitsOf(amount', QueueOf(x)')
           /\ units'[x] = net_count'[x] + UnitsOf(amount', GivenTo(x)')
    <3>1. ASSUME NEW x \in Slots, used[x]
          PROVE  units'[x] = net_count'[x] + UnitsOf(amount', GivenTo(x)')
      BY <1>0, <2>1, <2>3, <3>1 DEF UnitsInv
    <3>2. ASSUME NEW x \in Slots, used[x], x # s
          PROVE  net_count'[x] = count'[x] + UnitsOf(amount', QueueOf(x)')
      BY <1>0, <1>9, <2>2, <2>6, <3>2 DEF UnitsInv
    <3>3. QED
      BY <2>5, <3>1, <3>2
  <2>8. QED
    BY <1>0, <2>7 DEF UnitsInv
<1>18. QED
  BY <1>12, <1>13, <1>14, <1>15, <1>16, <1>17 DEF IInv

\* Nothing of what the invariant is about changes.
LEMMA StutterInv ==
    ASSUME IInv, UNCHANGED <<wait, count, net_count, queue, used, generation, free, queued, pc,
                             sem, amount, toRelease, units>>
    PROVE  IInv'
<1>0. TypeInv /\ CallInv /\ QueueInv /\ WaitInv /\ SlotInv /\ UnitsInv
  BY DEF IInv
<1>1. TypeInv' /\ CallInv'
  BY <1>0 DEF TypeInv, CallInv
<1>2. \A x \in Slots : IdOf(x)' = IdOf(x) /\ QueueOf(x)' = QueueOf(x)
                       /\ GivenTo(x)' = GivenTo(x)
  BY DEF IdOf, QueueOf, GivenTo, Waits
<1>3. QueueInv'
  BY <1>0, <1>2 DEF QueueInv
<1>4. WaitInv'
  BY <1>0, <1>2 DEF WaitInv, Waits
<1>5. SlotInv'
  BY <1>0 DEF SlotInv, Freeing
<1>6. UnitsInv'
  BY <1>0, <1>2 DEF UnitsInv
<1>7. QED
  BY <1>1, <1>3, <1>4, <1>5, <1>6 DEF IInv

\* switch_sem_etc() up to blocking keeps the invariant.
LEMMA SwitchInv ==
    ASSUME IInv, NEW t \in Threads, NEW s \in Slots, NEW n \in Nat,
           NEW r \in Ids \cup {None}, switch_sem_etc(t, r, s, n)
    PROVE  IInv'
<1>0. pc[t] = "idle" /\ used[s] /\ UNCHANGED slotVars
  BY DEF switch_sem_etc
<1>1. CASE /\ count' = [count EXCEPT ![s] = @ - n]
           /\ net_count' = [net_count EXCEPT ![s] = @ - n]
           /\ units' = [units EXCEPT ![s] = @ - n]
           /\ UNCHANGED <<wait, queue, queued, semLock, pc, callVars>>
  BY <1>0, <1>1, SwitchTakes
<1>2. CASE /\ IF r = None THEN UNCHANGED <<semLock, pc, callVars>>
              ELSE /\ semLock' = [semLock EXCEPT ![s] = t]
                   /\ Arguments(t, r, s, n)
                   /\ Goto(t, "interrupted")
           /\ UNCHANGED <<wait, semVars, queued, units>>
  <2>1. CASE r = None
    <3>1. UNCHANGED <<wait, count, net_count, queue, used, generation, free, queued, pc, sem,
                      amount, toRelease, units>>
      BY <1>0, <1>2, <2>1 DEF semVars, slotVars, callVars
    <3>2. QED
      BY <3>1, StutterInv
  <2>2. CASE r # None
    <3>1. r \in Ids
      BY <2>2
    <3>2. QED
      BY <1>0, <1>2, <2>2, <3>1, SwitchInterrupted
  <2>3. QED
    BY <2>1, <2>2
<1>3. CASE /\ count' = [count EXCEPT ![s] = @ - n]
           /\ queue' = [queue EXCEPT ![s] = Append(@, [thread |-> t, count |-> n])]
           /\ queued' = [queued EXCEPT ![t] = TRUE]
           /\ wait' = thread_prepare_to_block(wait, t)
           /\ Arguments(t, r, s, n)
           /\ Goto(t, IF r = None THEN "blocked" ELSE "switching")
           /\ UNCHANGED <<net_count, semLock, units>>
  <2>1. PICK step \in {"blocked", "switching"} :
           step = IF r = None THEN "blocked" ELSE "switching"
    OBVIOUS
  <2>2. step = "switching" => r \in Ids
    BY <2>1
  <2>3. Goto(t, step)
    BY <1>3, <2>1
  <2>4. QED
    BY <1>0, <1>3, <2>2, <2>3, SwitchBlocks
<1>4. QED
  BY <1>1, <1>2, <1>3 DEF switch_sem_etc

\* The queue of a slot that is not in use is empty.
LEMMA UnusedQueue ==
    ASSUME TypeInv, QueueInv, NEW s \in Slots, ~used[s]
    PROVE  queue[s] = <<>> /\ QueueOf(s) = {}
<1>1. queue[s] \in Seq(Entry)
  BY DEF TypeInv
<1>2. ~ \E i \in 1..Len(queue[s]) : TRUE
  BY DEF QueueInv
<1>3. Len(queue[s]) = 0
  BY <1>1, <1>2
<1>4. QED
  BY <1>1, <1>3 DEF QueueOf, Sleepers

\* create_sem_etc() takes a slot from the free list.
LEMMA CreateInv ==
    ASSUME IInv, NEW n \in 0..MaxCount, create_sem_etc(n)
    PROVE  IInv'
<1>00. PICK s \in Slots : s = Head(free)
  BY SMTT(20) DEF IInv, TypeInv, create_sem_etc
<1>0. /\ TypeInv /\ CallInv /\ QueueInv /\ WaitInv /\ SlotInv /\ UnitsInv
      /\ free # <<>> /\ \A t \in Threads : pc[t] # "idle" => sem[t] # IdOf(s)
      /\ free' = Tail(free) /\ used' = [used EXCEPT ![s] = TRUE]
      /\ count' = [count EXCEPT ![s] = n] /\ net_count' = [net_count EXCEPT ![s] = n]
      /\ queue' = [queue EXCEPT ![s] = <<>>] /\ units' = [units EXCEPT ![s] = n]
      /\ UNCHANGED <<wait, generation, queued, pc, sem, amount, toRelease>>
  BY <1>00 DEF IInv, create_sem_etc, callVars
<1>1. free \in Seq(Slots) /\ Distinct(free) /\ used \in [Slots -> BOOLEAN]
      /\ queue \in [Slots -> Seq(Entry)] /\ count \in [Slots -> Int]
      /\ net_count \in [Slots -> Int] /\ units \in [Slots -> Int]
  BY <1>0 DEF TypeInv, SlotInv
<1>2. s \in Slots /\ s \in Members(free) /\ Members(Tail(free)) = Members(free) \ {s}
      /\ Tail(free) \in Seq(Slots) /\ Distinct(Tail(free))
  BY <1>00, <1>0, <1>1, MembersTail, DistinctTail, TailEntries
<1>3. ~used[s] /\ \A t \in Threads : ~Freeing(t, s)
  BY <1>0, <1>2 DEF SlotInv
<1>4. queue[s] = <<>> /\ QueueOf(s) = {}
  BY <1>0, <1>2, <1>3, UnusedQueue
<1>5. queue' = queue
  BY <1>0, <1>1, <1>4
<1>6. used'[s] /\ \A x \in Slots : x # s => used'[x] = used[x]
  BY <1>0, <1>1, <1>2
<1>7. \A x \in Slots : IdOf(x)' = IdOf(x) /\ QueueOf(x)' = QueueOf(x)
                       /\ GivenTo(x)' = GivenTo(x)
  BY <1>0, <1>5 DEF IdOf, QueueOf, GivenTo, Waits
<1>8. TypeInv'
  <2>1. used' \in [Slots -> BOOLEAN]
    BY <1>0, <1>1
  <2>2. n \in Int
    OBVIOUS
  <2>3. count' \in [Slots -> Int] /\ net_count' \in [Slots -> Int]
        /\ units' \in [Slots -> Int]
    BY <1>0, <1>1, <2>2
  <2>4. QED
    BY <1>0, <1>2, <1>5, <2>1, <2>3 DEF TypeInv
<1>9. CallInv'
  BY <1>0 DEF CallInv
<1>10. QueueInv'
  BY <1>0, <1>5, <1>6, <1>7 DEF QueueInv
<1>11. WaitInv'
  BY <1>0, <1>7 DEF WaitInv, Waits
<1>12. SlotInv'
  <2>1. \A t \in Threads : \A x \in Slots : Freeing(t, x)' <=> Freeing(t, x)
    BY <1>0 DEF Freeing
  <2>2. Members(free') = Members(free) \ {s} /\ Distinct(free')
    BY <1>0, <1>2
  <2>3. QED
    BY <1>0, <1>3, <1>6, <2>1, <2>2 DEF SlotInv
<1>13. UnitsInv'
  <2>1. GivenTo(s) = {}
    BY <1>0 DEF GivenTo, Waits
  <2>2. UnitsOf(amount', QueueOf(s)') = 0 /\ UnitsOf(amount', GivenTo(s)') = 0
    <3>1. QueueOf(s)' = {} /\ GivenTo(s)' = {}
      BY <1>2, <1>4, <1>7, <2>1
    <3>2. QED
      BY <3>1, UnitsOfNobody
  <2>3. count'[s] = n /\ net_count'[s] = n /\ units'[s] = n
    BY <1>0, <1>1, <1>2
  <2>4. n = n + 0
    OBVIOUS
  <2>5. ASSUME NEW x \in Slots, x # s, used'[x]
        PROVE  /\ net_count'[x] = count'[x] + UnitsOf(amount', QueueOf(x)')
               /\ units'[x] = net_count'[x] + UnitsOf(amount', GivenTo(x)')
    <3>1. used[x] /\ count'[x] = count[x] /\ net_count'[x] = net_count[x]
          /\ units'[x] = units[x]
      BY <1>0, <1>1, <1>6, <2>5
    <3>2. QED
      BY <1>0, <1>7, <3>1 DEF UnitsInv
  <2>6. /\ net_count'[s] = count'[s] + UnitsOf(amount', QueueOf(s)')
        /\ units'[s] = net_count'[s] + UnitsOf(amount', GivenTo(s)')
    BY <2>2, <2>3, <2>4
  <2>7. \A x \in Slots : used'[x] =>
           /\ net_count'[x] = count'[x] + UnitsOf(amount', QueueOf(x)')
           /\ units'[x] = net_count'[x] + UnitsOf(amount', GivenTo(x)')
    BY <2>5, <2>6
  <2>8. QED
    BY <2>7 DEF UnitsInv
<1>14. QED
  BY <1>8, <1>9, <1>10, <1>11, <1>12, <1>13 DEF IInv

\* delete_sem_internal() wakes all threads of the queue with an error.
LEMMA DeleteInv ==
    ASSUME IInv, NEW t \in Threads, NEW s \in Slots, delete_sem_internal(t, s)
    PROVE  IInv'
<1> DEFINE Q == QueueOf(s)
<1>0. /\ TypeInv /\ CallInv /\ QueueInv /\ WaitInv /\ SlotInv /\ UnitsInv
      /\ pc[t] = "idle" /\ used[s]
      /\ queue' = [queue EXCEPT ![s] = <<>>] /\ used' = [used EXCEPT ![s] = FALSE]
      /\ sem' = [sem EXCEPT ![t] = IdOf(s)] /\ pc' = [pc EXCEPT ![t] = "freeing"]
      /\ UNCHANGED <<count, net_count, generation, free, amount, toRelease, units>>
  BY DEF IInv, delete_sem_internal, Goto
<1>1. /\ wait' = [u \in Threads |-> IF u \in Q /\ wait[u] = Waiting THEN B_ERROR ELSE wait[u]]
      /\ queued' = [u \in Threads |-> queued[u] /\ u \notin Q]
  BY DEF delete_sem_internal, UnblockAll, QueueOf, Sleepers
<1>2. /\ pc \in [Threads -> Steps] /\ sem \in [Threads -> Ids \cup {None}]
      /\ generation \in [Slots -> 0..MaxGeneration] /\ queue \in [Slots -> Seq(Entry)]
      /\ wait \in [Threads -> Results \cup {Waiting}] /\ queued \in [Threads -> BOOLEAN]
      /\ used \in [Slots -> BOOLEAN] /\ free \in Seq(Slots)
  BY <1>0 DEF TypeInv, CallInv
<1>3. ~Waits(t) /\ ~queued[t] /\ ~Waits(t)'
  BY <1>0, <1>2 DEF Waits, WaitInv
<1>4. \A u \in Threads \ {t} : sem'[u] = sem[u] /\ pc'[u] = pc[u]
  BY <1>0, <1>2
<1>5. ~used'[s] /\ queue'[s] = <<>>
      /\ \A x \in Slots : x # s => used'[x] = used[x] /\ queue'[x] = queue[x]
  BY <1>0, <1>2
<1>6. \A x \in Slots : x # s => QueueOf(x)' = QueueOf(x)
  BY <1>5 DEF QueueOf
<1>7. \A x \in Slots : IdOf(x)' = IdOf(x) /\ IdOf(x) \in Ids /\ IdOf(x).slot = x
  BY <1>0, <1>2 DEF IdOf, Ids
<1>8. \A x \in Slots : x # s => \A u \in QueueOf(x) :
         u \in Threads \ {t} /\ u \notin Q /\ queued[u] /\ queued'[u]
  <2>1. ASSUME NEW x \in Slots, x # s, NEW u \in QueueOf(x)
        PROVE  u \in Threads \ {t} /\ u \notin Q /\ queued[u] /\ queued'[u]
    <3>1. u \in Threads /\ queued[u] /\ u \notin Q
      BY <1>0, <2>1, InOneQueue
    <3> HIDE DEF Q
    <3>2. QED
      BY <1>1, <1>3, <3>1
  <2>2. QED
    BY <2>1
<1> HIDE DEF Q
<1>9. TypeInv'
  <2>1. wait' \in [Threads -> Results \cup {Waiting}] /\ queued' \in [Threads -> BOOLEAN]
    BY <1>1, <1>2
  <2>2. queue' \in [Slots -> Seq(Entry)] /\ used' \in [Slots -> BOOLEAN]
    BY <1>0, <1>2
  <2>3. pc' \in [Threads -> Steps]
    BY <1>0, <1>2 DEF Steps
  <2>4. QED
    BY <1>0, <2>1, <2>2, <2>3 DEF TypeInv
<1>10. CallInv'
  <2>1. sem' \in [Threads -> Ids \cup {None}] /\ sem'[t] = IdOf(s) /\ sem'[t] \in Ids
    BY <1>0, <1>2, <1>7
  <2>2. pc'[t] = "freeing"
    BY <1>0, <1>2
  <2>3. QED
    BY <1>0, <1>4, <2>1, <2>2 DEF CallInv
<1>11. QueueInv'
  <2>1. \A x \in Slots : OneEach(queue'[x])
    <3>1. OneEach(<<>>)
      BY DEF OneEach
    <3>2. QED
      BY <1>0, <1>5, <3>1 DEF QueueInv
  <2>2. ASSUME NEW x \in Slots, NEW i \in 1..Len(queue'[x])
        PROVE  LET e == queue'[x][i] IN
               /\ used'[x] /\ queued'[e.thread] /\ sem'[e.thread] = IdOf(x)'
               /\ amount'[e.thread] = e.count
    <3>1. x # s
      BY <1>5
    <3>2. queue'[x] = queue[x] /\ used'[x] = used[x]
      BY <1>5, <3>1
    <3> DEFINE e == queue[x][i]
    <3>3. /\ used[x] /\ queued[e.thread] /\ sem[e.thread] = IdOf(x)
          /\ amount[e.thread] = e.count
      BY <1>0, <3>2 DEF QueueInv
    <3>4. e.thread \in QueueOf(x)
      BY <3>2 DEF QueueOf, Sleepers
    <3> HIDE DEF e
    <3>5. queued'[e.thread] /\ e.thread \in Threads \ {t}
      BY <1>8, <3>1, <3>4
    <3>6. QED
      BY <1>0, <1>4, <1>7, <3>2, <3>3, <3>5, ZenonT(30) DEF e
  <2>3. QED
    BY <2>1, <2>2 DEF QueueInv
<1>12. WaitInv'
  <2>1. ASSUME NEW u \in Threads, queued'[u]
        PROVE  Waits(u)' /\ wait'[u] # B_OK /\ \E x \in Slots : u \in QueueOf(x)'
    <3>1. queued[u] /\ u \notin Q /\ u # t
      BY <1>1, <1>3, <2>1
    <3>2. Waits(u) /\ wait[u] # B_OK /\ \E x \in Slots : u \in QueueOf(x)
      BY <1>0, <3>1 DEF WaitInv
    <3>3. PICK x \in Slots : u \in QueueOf(x)
      BY <3>2
    <3>4. u \in QueueOf(x)'
      BY <1>6, <3>1, <3>3 DEF Q
    <3>5. wait'[u] = wait[u] /\ (Waits(u)' <=> Waits(u))
      BY <1>1, <1>4, <3>1 DEF Waits
    <3>6. QED
      BY <3>2, <3>4, <3>5
  <2>2. ASSUME NEW u \in Threads, wait'[u] = Waiting
        PROVE  queued'[u]
    BY <1>0, <1>1, <2>2 DEF WaitInv
  <2>3. QED
    BY <2>1, <2>2 DEF WaitInv
<1>13. SlotInv'
  <2>1. Freeing(t, s)' /\ \A x \in Slots : x # s => ~Freeing(t, x)'
    BY <1>0, <1>2, <1>7 DEF Freeing
  <2>2. \A x \in Slots : ~Freeing(t, x)
    BY <1>0 DEF Freeing
  <2>3. \A u \in Threads \ {t} : \A x \in Slots : Freeing(u, x)' <=> Freeing(u, x)
    BY <1>4 DEF Freeing
  <2>4. s \notin Members(free) /\ \A u \in Threads : ~Freeing(u, s)
    BY <1>0 DEF SlotInv
  <2>5. Members(free') = Members(free) /\ Distinct(free')
    BY <1>0 DEF SlotInv
  <2>6. ASSUME NEW x \in Slots
        PROVE  /\ used'[x] => x \notin Members(free') /\ \A u \in Threads : ~Freeing(u, x)'
               /\ ~used'[x] => x \in Members(free') \/ \E u \in Threads : Freeing(u, x)'
               /\ \A u \in Threads : Freeing(u, x)' => x \notin Members(free')
               /\ \A u, v \in Threads : Freeing(u, x)' /\ Freeing(v, x)' => u = v
    <3>1. CASE x = s
      BY <1>5, <2>1, <2>3, <2>4, <2>5, <3>1
    <3>2. CASE x # s
      <4>1. \A u \in Threads : Freeing(u, x)' <=> Freeing(u, x)
        BY <2>1, <2>2, <2>3, <3>2
      <4>2. QED
        BY <1>0, <1>5, <2>5, <3>2, <4>1 DEF SlotInv
    <3>3. QED
      BY <3>1, <3>2
  <2>7. QED
    BY <2>5, <2>6 DEF SlotInv
<1>14. UnitsInv'
  <2>1. ASSUME NEW x \in Slots, used'[x]
        PROVE  /\ used[x]
               /\ QueueOf(x)' = QueueOf(x) /\ GivenTo(x)' = GivenTo(x)
               /\ \A u \in QueueOf(x) \cup GivenTo(x) : amount'[u] = amount[u]
               /\ \E d \in Int : /\ count'[x] = count[x] - d
                                 /\ net_count'[x] = net_count[x] - d
                                 /\ units'[x] = units[x] - d
    <3>1. x # s /\ used[x] /\ QueueOf(x)' = QueueOf(x)
      BY <1>5, <1>6, <2>1
    <3>2. ASSUME NEW u \in Threads PROVE u \in GivenTo(x)' <=> u \in GivenTo(x)
      <4>1. CASE u = t
        BY <1>3, <4>1 DEF GivenTo
      <4>2. CASE u # t
        <5>1. wait'[u] = B_OK <=> wait[u] = B_OK
          BY <1>1, <1>2
        <5>2. sem'[u] = sem[u] /\ (Waits(u)' <=> Waits(u))
          BY <1>4, <4>2 DEF Waits
        <5>3. QED
          BY <1>7, <5>1, <5>2 DEF GivenTo
      <4>3. QED
        BY <4>1, <4>2
    <3>3. GivenTo(x)' = GivenTo(x)
      BY <3>2 DEF GivenTo
    <3>4. /\ 0 \in Int /\ count'[x] = count[x] - 0
          /\ net_count'[x] = net_count[x] - 0 /\ units'[x] = units[x] - 0
      BY <1>0 DEF TypeInv
    <3>5. QED
      BY <1>0, <3>1, <3>3, <3>4
  <2>2. QED
    BY <1>0, <2>1, UnitsSameInv
<1>15. QED
  BY <1>9, <1>10, <1>11, <1>12, <1>13, <1>14 DEF IInv

\* free_sem_slot() gives the slot its next id and puts it on the free list.
LEMMA FreeInv ==
    ASSUME IInv, NEW t \in Threads, free_sem_slot(t)
    PROVE  IInv'
<1>1. /\ TypeInv /\ CallInv /\ QueueInv /\ WaitInv /\ SlotInv /\ UnitsInv
      /\ pc[t] = "freeing" /\ pc' = [pc EXCEPT ![t] = "idle"]
      /\ sem' = [sem EXCEPT ![t] = None] /\ amount' = [amount EXCEPT ![t] = 0]
      /\ UNCHANGED <<wait, count, net_count, queue, used, queued, toRelease, units>>
  BY DEF IInv, free_sem_slot, Return, Goto, semVars
<1>2. PICK s \in Slots : s = sem[t].slot
  BY <1>1 DEF CallInv, Ids
<1>3. /\ free' = Append(free, s)
      /\ generation' = [generation EXCEPT ![s] = (sem[t].generation + 1) % (MaxGeneration + 1)]
  BY <1>2 DEF free_sem_slot
<1>4. /\ pc \in [Threads -> Steps] /\ sem \in [Threads -> Ids \cup {None}]
      /\ generation \in [Slots -> 0..MaxGeneration] /\ amount \in [Threads -> Nat]
      /\ free \in Seq(Slots) /\ Distinct(free)
  BY <1>1 DEF TypeInv, CallInv, SlotInv
<1>5. Freeing(t, s) /\ ~used[s] /\ s \notin Members(free)
      /\ \A u \in Threads \ {t} : ~Freeing(u, s)
  <2>1. Freeing(t, s)
    BY <1>1, <1>2 DEF Freeing
  <2>2. QED
    BY <1>1, <2>1 DEF SlotInv
<1>6. ~Waits(t) /\ ~Waits(t)' /\ ~queued[t]
  BY <1>1, <1>4 DEF Waits, WaitInv
<1>7. \A u \in Threads \ {t} : sem'[u] = sem[u] /\ pc'[u] = pc[u] /\ amount'[u] = amount[u]
  BY <1>1, <1>4
<1>8. \A x \in Slots : used[x] => x # s /\ IdOf(x)' = IdOf(x)
  <2>1. \A x \in Slots : x # s => generation'[x] = generation[x]
    BY <1>3, <1>4
  <2>2. QED
    BY <1>5, <2>1 DEF IdOf
<1>9. \A x \in Slots : QueueOf(x)' = QueueOf(x)
  BY <1>1 DEF QueueOf
<1>10. generation' \in [Slots -> 0..MaxGeneration]
  <2>1. sem[t].generation \in 0..MaxGeneration
    BY <1>1 DEF CallInv, Ids
  <2>2. (sem[t].generation + 1) % (MaxGeneration + 1) \in 0..MaxGeneration
    <3>1. \A g, m \in Nat : (g + 1) % (m + 1) \in 0..m
      OBVIOUS
    <3>2. QED
      BY <2>1, <3>1
  <2>3. QED
    BY <1>3, <1>4, <2>2
<1>11. TypeInv'
  <2>1. free' \in Seq(Slots)
    BY <1>3, <1>4
  <2>2. pc' \in [Threads -> Steps] /\ amount' \in [Threads -> Nat]
    BY <1>1, <1>4 DEF Steps
  <2>3. QED
    BY <1>1, <1>10, <2>1, <2>2 DEF TypeInv
<1>12. CallInv'
  BY <1>1, <1>4, <1>7 DEF CallInv
<1>13. QueueInv'
  <2>1. ASSUME NEW x \in Slots, NEW i \in 1..Len(queue[x])
        PROVE  LET e == queue[x][i] IN
               /\ used[x] /\ queued[e.thread] /\ sem'[e.thread] = IdOf(x)'
               /\ amount'[e.thread] = e.count
    <3> DEFINE e == queue[x][i]
    <3>1. /\ used[x] /\ queued[e.thread] /\ sem[e.thread] = IdOf(x)
          /\ amount[e.thread] = e.count
      BY <1>1 DEF QueueInv
    <3>2. e.thread \in QueueOf(x)
      BY DEF QueueOf, Sleepers
    <3> HIDE DEF e
    <3>3. e.thread \in Threads \ {t}
      BY <1>1, <1>6, <3>1, <3>2, InOneQueue
    <3>4. QED
      BY <1>7, <1>8, <3>1, <3>3 DEF e
  <2>2. \A x \in Slots : OneEach(queue[x])
    BY <1>1 DEF QueueInv
  <2>3. QED
    BY <1>1, <2>1, <2>2 DEF QueueInv
<1>14. WaitInv'
  <2>1. \A u \in Threads : queued[u] => Waits(u)'
    BY <1>1, <1>6, <1>7 DEF WaitInv, Waits
  <2>2. QED
    BY <1>1, <1>9, <2>1 DEF WaitInv
<1>15. SlotInv'
  <2>1. Members(free') = Members(free) \cup {s}
    BY <1>3, <1>4, MembersAppend
  <2>2. Distinct(free')
    <3>1. \A i \in 1..Len(free) : free[i] # s
      BY <1>5 DEF Members
    <3>2. QED
      BY <1>3, <1>4, <3>1, DistinctAppend
  <2>3. \A x \in Slots : ~Freeing(t, x)' /\ (x # s => ~Freeing(t, x))
    BY <1>1, <1>2, <1>4 DEF Freeing
  <2>4. \A u \in Threads \ {t} : \A x \in Slots : Freeing(u, x)' <=> Freeing(u, x)
    BY <1>7 DEF Freeing
  <2>5. ASSUME NEW x \in Slots
        PROVE  /\ used'[x] => x \notin Members(free') /\ \A u \in Threads : ~Freeing(u, x)'
               /\ ~used'[x] => x \in Members(free') \/ \E u \in Threads : Freeing(u, x)'
               /\ \A u \in Threads : Freeing(u, x)' => x \notin Members(free')
               /\ \A u, v \in Threads : Freeing(u, x)' /\ Freeing(v, x)' => u = v
    <3>1. CASE x = s
      <4>1. \A u \in Threads : ~Freeing(u, x)'
        BY <1>5, <2>3, <2>4, <3>1
      <4>2. QED
        BY <1>1, <1>5, <2>1, <3>1, <4>1
    <3>2. CASE x # s
      <4>1. \A u \in Threads : Freeing(u, x)' <=> Freeing(u, x)
        BY <2>3, <2>4, <3>2
      <4>2. QED
        BY <1>1, <2>1, <3>2, <4>1 DEF SlotInv
    <3>3. QED
      BY <3>1, <3>2
  <2>6. QED
    BY <2>2, <2>5 DEF SlotInv
<1>16. UnitsInv'
  <2>1. ASSUME NEW x \in Slots, used'[x]
        PROVE  /\ used[x]
               /\ QueueOf(x)' = QueueOf(x) /\ GivenTo(x)' = GivenTo(x)
               /\ \A u \in QueueOf(x) \cup GivenTo(x) : amount'[u] = amount[u]
               /\ \E d \in Int : /\ count'[x] = count[x] - d
                                 /\ net_count'[x] = net_count[x] - d
                                 /\ units'[x] = units[x] - d
    <3>1. used[x] /\ IdOf(x)' = IdOf(x)
      BY <1>1, <1>8, <2>1
    <3>2. ASSUME NEW u \in Threads PROVE u \in GivenTo(x)' <=> u \in GivenTo(x)
      <4>1. CASE u = t
        BY <1>6, <4>1 DEF GivenTo
      <4>2. CASE u # t
        BY <1>1, <1>7, <3>1, <4>2 DEF GivenTo, Waits
      <4>3. QED
        BY <4>1, <4>2
    <3>3. GivenTo(x)' = GivenTo(x)
      BY <3>2 DEF GivenTo
    <3>4. \A u \in QueueOf(x) \cup GivenTo(x) : u \in Threads \ {t}
      <4>1. \A u \in QueueOf(x) : u \in Threads \ {t}
        BY <1>1, <1>6, InOneQueue
      <4>2. QED
        BY <1>6, <4>1 DEF GivenTo
    <3>5. /\ 0 \in Int /\ count'[x] = count[x] - 0
          /\ net_count'[x] = net_count[x] - 0 /\ units'[x] = units[x] - 0
      BY <1>1 DEF TypeInv
    <3>6. QED
      BY <1>7, <1>9, <3>1, <3>3, <3>4, <3>5
  <2>2. QED
    BY <1>1, <2>1, UnitsSameInv
<1>17. QED
  BY <1>11, <1>12, <1>13, <1>14, <1>15, <1>16 DEF IInv

\* At first all slots are on the free list, each of them once.
LEMMA FreeListAtFirst ==
    ASSUME free = SetToSeq(Slots)
    PROVE  free \in Seq(Slots) /\ Distinct(free) /\ Members(free) = Slots
<1> DEFINE n == Cardinality(Slots)
<1>1. n \in Nat /\ ExistsBijection(1..n, Slots)
  BY FS_CardinalityType
<1>2. \E f \in [1..n -> Slots] : IsInjective(f)
  BY <1>1 DEF ExistsBijection, Bijection, Injection
<1>3. free \in [1..n -> Slots] /\ IsInjective(free)
  BY <1>2 DEF SetToSeq
<1>4. IsFiniteSet(1..n) /\ Cardinality(1..n) = n
  <2>1. n \in Int /\ 1 \in Int
    BY <1>1
  <2>2. IsFiniteSet(1..n) /\ Cardinality(1..n) = IF 1 > n THEN 0 ELSE n - 1 + 1
    BY <2>1, FS_Interval
  <2> HIDE DEF n
  <2>3. QED
    BY <1>1, <2>2
<1>5. free \in Surjection(1..n, Slots)
  <2>1. free \in Injection(1..n, Slots)
    BY <1>3 DEF Injection
  <2>2. QED
    BY <1>4, <2>1, FS_Injection
<1> HIDE DEF n
<1>6. free \in Seq(Slots) /\ Len(free) = n
  BY <1>1, <1>3
<1>7. Distinct(free)
  BY <1>3, <1>6 DEF Distinct, IsInjective
<1>8. Members(free) = Slots
  BY <1>3, <1>5, <1>6 DEF Members, Surjection
<1>9. QED
  BY <1>6, <1>7, <1>8

\* The invariant holds at first ...
LEMMA InitInv == Init => IInv
<1> SUFFICES ASSUME Init PROVE IInv
  OBVIOUS
<1>1. free \in Seq(Slots) /\ Distinct(free) /\ Members(free) = Slots
  BY FreeListAtFirst DEF Init
<1>2. TypeInv
  BY <1>1 DEF Init, TypeInv, NoWaits, Steps
<1>3. CallInv
  BY DEF Init, CallInv
<1>4. QueueInv
  BY DEF Init, QueueInv, OneEach
<1>5. WaitInv
  BY DEF Init, WaitInv, NoWaits
<1>6. SlotInv
  BY <1>1 DEF Init, SlotInv, Freeing
<1>7. UnitsInv
  BY DEF Init, UnitsInv
<1>8. QED
  BY <1>2, <1>3, <1>4, <1>5, <1>6, <1>7 DEF IInv

\* ... and every step keeps it.
LEMMA NextInv == IInv /\ [Next]_vars => IInv'
<1> SUFFICES ASSUME IInv, [Next]_vars PROVE IInv'
  OBVIOUS
<1>1. ASSUME NEW s \in Slots, Release(s) PROVE IInv'
  BY <1>1, ReleaseInv DEF Release
<1>2. ASSUME NEW s \in Slots, ReleaseAll(s) PROVE IInv'
  BY <1>2, ReleaseAllInv
<1>3. ASSUME NEW n \in 0..MaxCount, create_sem_etc(n) PROVE IInv'
  BY <1>3, CreateInv
<1>4. ASSUME NEW t \in Threads, Continue(t) PROVE IInv'
  BY <1>4, SwitchReleasesInv, InterruptedReleasesInv, BlockReturnsQueued, BlockReturnsWoken,
     FreeInv DEF Continue
<1>5. ASSUME NEW t \in Threads, WaitFails(t) PROVE IInv'
  BY <1>5, WaitFailsInv
<1>6. ASSUME NEW t \in Threads, NEW s \in Slots, NEW n \in Counts,
             switch_sem_etc(t, None, s, n)
      PROVE  IInv'
  <2>1. n \in Nat /\ None \in Ids \cup {None}
    OBVIOUS
  <2>2. QED
    BY <1>6, <2>1, SwitchInv
<1>7. ASSUME NEW t \in Threads, NEW p \in Switches,
             switch_sem_etc(t, IdOf(p[1]), p[2], 1)
      PROVE  IInv'
  <2>1. p[1] \in Slots /\ p[2] \in Slots
    OBVIOUS
  <2>2. IdOf(p[1]) \in Ids \cup {None}
    BY <2>1 DEF IInv, TypeInv, IdOf, Ids
  <2>3. PICK one \in Nat : one = 1
    OBVIOUS
  <2>4. switch_sem_etc(t, IdOf(p[1]), p[2], one)
    BY <1>7, <2>3
  <2>5. QED
    BY <2>1, <2>2, <2>4, SwitchInv
<1>8. ASSUME NEW t \in Threads, NEW s \in Slots, delete_sem_internal(t, s) PROVE IInv'
  BY <1>8, DeleteInv
<1>9. CASE UNCHANGED vars
  BY <1>9, StutterInv DEF vars, semVars, slotVars, callVars
<1>10. QED
  BY <1>1, <1>2, <1>3, <1>4, <1>5, <1>6, <1>7, <1>8, <1>9 DEF Next

-----------------------------------------------------------------------------
(* What follows *)

\* The invariant implies what the counts promise.
LEMMA CountsAgreeLemma == IInv => CountsAgree
<1> SUFFICES ASSUME IInv, NEW s \in Slots, used[s]
             PROVE  /\ net_count[s] = count[s] + CountOf(queue[s], 1..Len(queue[s]))
                    /\ \A t \in Threads :
                          Cardinality({i \in 1..Len(queue[s]) : queue[s][i].thread = t})
                          = IF queued[t] /\ sem[t] = IdOf(s) THEN 1 ELSE 0
  BY DEF CountsAgree
<1>0. TypeInv /\ QueueInv /\ WaitInv /\ UnitsInv
  BY DEF IInv
<1> DEFINE q == queue[s]
<1>1. q \in Seq(Entry) /\ OneEach(q) /\ Asked(q)
  BY <1>0, QueueType
<1>2. CountOf(q, 1..Len(q)) = UnitsOf(amount, QueueOf(s))
  <2>1. 1..Len(q) \in SUBSET (1..Len(q))
    OBVIOUS
  <2>2. CountOf(q, 1..Len(q)) = UnitsOf(amount, {q[i].thread : i \in 1..Len(q)})
    BY <1>1, <2>1, CountOfThreads
  <2>3. QED
    BY <2>2 DEF QueueOf, Sleepers
<1>3. net_count[s] = count[s] + CountOf(q, 1..Len(q))
  BY <1>0, <1>2 DEF UnitsInv
<1>4. ASSUME NEW t \in Threads
      PROVE  Cardinality({i \in 1..Len(q) : q[i].thread = t})
             = IF queued[t] /\ sem[t] = IdOf(s) THEN 1 ELSE 0
  <2> DEFINE A == {i \in 1..Len(q) : q[i].thread = t}
  <2>1. CASE queued[t] /\ sem[t] = IdOf(s)
    <3>1. PICK x \in Slots : t \in QueueOf(x)
      BY <1>0, <2>1 DEF WaitInv
    <3>2. sem[t] = IdOf(x)
      BY <1>0, <3>1, InOneQueue
    <3>3. x = s
      BY <2>1, <3>2 DEF IdOf
    <3>4. PICK i \in 1..Len(q) : q[i].thread = t
      BY <3>1, <3>3 DEF QueueOf, Sleepers
    <3>5. A = {i}
      BY <1>1, <3>4 DEF OneEach
    <3> HIDE DEF A
    <3>6. Cardinality(A) = 1
      BY <3>5, FS_Singleton
    <3>7. QED
      BY <2>1, <3>6 DEF A
  <2>2. CASE ~(queued[t] /\ sem[t] = IdOf(s))
    <3>1. A = {}
      BY <1>0, <2>2 DEF QueueInv
    <3> HIDE DEF A
    <3>2. Cardinality(A) = 0
      BY <3>1, FS_EmptySet
    <3>3. QED
      BY <2>2, <3>2 DEF A
  <2>3. QED
    BY <2>1, <2>2
<1>5. QED
  BY <1>3, <1>4

\* It implies that units are conserved.
LEMMA UnitsConservedLemma == IInv => UnitsConserved
BY DEF IInv, UnitsInv, UnitsConserved, GivenTo

\* It implies that no sleeper is forgotten.
LEMMA SleepersQueuedLemma == IInv => SleepersQueued
<1> SUFFICES ASSUME IInv, NEW t \in Threads, wait[t] = Waiting
             PROVE  queued[t] /\ Valid(sem[t])
  BY DEF SleepersQueued
<1>0. TypeInv /\ QueueInv /\ WaitInv
  BY DEF IInv
<1>1. queued[t] /\ \E s \in Slots : t \in QueueOf(s)
  BY <1>0 DEF WaitInv
<1>2. PICK s \in Slots : t \in QueueOf(s)
  BY <1>1
<1>3. used[s] /\ sem[t] = IdOf(s)
  BY <1>0, <1>2, InOneQueue
<1>4. QED
  BY <1>1, <1>3 DEF Valid, IdOf

\* It implies that each slot is in one place.
LEMMA SlotsAccountedLemma == IInv => SlotsAccounted
<1> SUFFICES ASSUME IInv, NEW s \in Slots
             PROVE  Cardinality({i \in 1..Len(free) : free[i] = s})
                    + Cardinality({t \in Threads : Freeing(t, s)})
                    = IF used[s] THEN 0 ELSE 1
  BY DEF SlotsAccounted, Freeing
<1>0. SlotInv
  BY DEF IInv
<1> DEFINE A == {i \in 1..Len(free) : free[i] = s}
           B == {t \in Threads : Freeing(t, s)}
<1>1. s \notin Members(free) => A = {}
  BY DEF Members
<1>2. ASSUME s \in Members(free) PROVE \E i : A = {i}
  <2>1. PICK i \in 1..Len(free) : free[i] = s
    BY <1>2 DEF Members
  <2>2. A = {i}
    BY <1>0, <2>1 DEF SlotInv, Distinct
  <2>3. QED
    BY <2>2
<1>3. (\A t \in Threads : ~Freeing(t, s)) => B = {}
  OBVIOUS
<1>4. ASSUME NEW t \in Threads, Freeing(t, s) PROVE B = {t}
  BY <1>0, <1>4 DEF SlotInv
<1> HIDE DEF A, B
<1>5. A = {} => Cardinality(A) = 0
  BY FS_EmptySet
<1>6. B = {} => Cardinality(B) = 0
  BY FS_EmptySet
<1>7. (\E i : A = {i}) => Cardinality(A) = 1
  BY FS_Singleton
<1>8. (\E i : B = {i}) => Cardinality(B) = 1
  BY FS_Singleton
<1>9. CASE used[s]
  <2>1. Cardinality(A) = 0 /\ Cardinality(B) = 0
    BY <1>0, <1>1, <1>3, <1>5, <1>6, <1>9 DEF SlotInv
  <2>2. QED
    BY <1>9, <2>1 DEF A, B
<1>10. CASE ~used[s] /\ s \in Members(free)
  <2>1. Cardinality(A) = 1 /\ Cardinality(B) = 0
    BY <1>0, <1>2, <1>3, <1>6, <1>7, <1>10 DEF SlotInv
  <2>2. QED
    BY <1>10, <2>1 DEF A, B
<1>11. CASE ~used[s] /\ s \notin Members(free)
  <2>1. PICK t \in Threads : Freeing(t, s)
    BY <1>0, <1>11 DEF SlotInv
  <2>2. Cardinality(A) = 0 /\ Cardinality(B) = 1
    BY <1>1, <1>4, <1>5, <1>8, <1>11, <2>1
  <2>3. QED
    BY <1>11, <2>2 DEF A, B
<1>12. QED
  BY <1>9, <1>10, <1>11

\* The invariant holds always: release_sem_etc(), switch_sem_etc(), remove_thread_from_sem(),
\* create_sem_etc() and delete_sem_internal() keep the queue of a semaphore, the queued flags
\* and wait words of its threads, its two counts and the slots in agreement.
THEOREM SemaphoresInOrder == Spec => []IInv
<1>1. QED
  BY InitInv, NextInv, PTL DEF Spec

\* sem_entry::u.used: net_count is count and what the queued threads ask for, and
\* queued_thread::queued tells who is in the queue.
THEOREM CountsAgreeAlways == Spec => []CountsAgree
<1>1. QED
  BY SemaphoresInOrder, CountsAgreeLemma, PTL

\* No unit is lost or acquired twice, however timeouts, signals, releases and deletions race.
THEOREM UnitsAreConserved == Spec => []UnitsConserved
<1>1. QED
  BY SemaphoresInOrder, UnitsConservedLemma, PTL

\* Whoever sleeps in switch_sem_etc() is in the queue of a semaphore that exists:
\* delete_sem_internal() forgets nobody.
THEOREM SleepersAreQueued == Spec => []SleepersQueued
<1>1. QED
  BY SemaphoresInOrder, SleepersQueuedLemma, PTL

\* No slot of sSems is lost or on the free list twice, whoever deletes at the same time.
THEOREM SlotsAreAccounted == Spec => []SlotsAccounted
<1>1. QED
  BY SemaphoresInOrder, SlotsAccountedLemma, PTL

-----------------------------------------------------------------------------
(* Acquiring and releasing one unit at a time *)

\* A queue without threads is empty.
LEMMA NobodyLeft ==
    ASSUME NEW q \in Seq(Entry), Sleepers(q) = {}
    PROVE  q = <<>>
<1>1. ~ \E i \in 1..Len(q) : TRUE
  BY DEF Sleepers
<1>2. Len(q) = 0
  BY <1>1
<1>3. QED
  BY <1>2

\* What the waiting threads among the first m + 1 entries of a queue ask for.
LEMMA CountStep ==
    ASSUME TypeInv, NEW q \in Seq(Entry), OneEach(q), Asked(q), NEW m \in Nat, m + 1 <= Len(q)
    PROVE  /\ CountOf(q, StillWaiting(q, m)) \in Nat
           /\ CountOf(q, StillWaiting(q, m + 1)) =
                 CountOf(q, StillWaiting(q, m))
                 + (IF wait[q[m + 1].thread] = Waiting THEN q[m + 1].count ELSE 0)
<1> DEFINE A == StillWaiting(q, m)
           B == StillWaiting(q, m + 1)
           T(S) == {q[i].thread : i \in S}
           t == q[m + 1].thread
<1>1. Len(q) \in Nat /\ A \in SUBSET (1..Len(q)) /\ B \in SUBSET (1..Len(q))
      /\ m + 1 \in 1..Len(q) /\ m + 1 \notin A
  BY DEF StillWaiting
<1>2. /\ CountOf(q, A) = UnitsOf(amount, T(A)) /\ CountOf(q, A) \in Nat
      /\ CountOf(q, B) = UnitsOf(amount, T(B)) /\ CountOf(q, B) \in Nat
  BY <1>1, CountOfThreads
<1>3. B = IF wait[t] = Waiting THEN A \cup {m + 1} ELSE A
  BY DEF StillWaiting
<1>4. CASE wait[t] = Waiting
  <2>1. T(B) = T(A) \cup {t}
    BY <1>3, <1>4
  <2>2. t \notin T(A)
    BY <1>1 DEF OneEach
  <2>3. \A i \in 1..Len(q) : q[i].thread \in Threads
    <3>1. \A i \in 1..Len(q) : q[i] \in Entry
      OBVIOUS
    <3>2. QED
      BY <3>1 DEF Entry
  <2>4. T(A) \in SUBSET Threads /\ t \in Threads /\ amount \in [Threads -> Nat]
    BY <1>1, <2>3 DEF TypeInv
  <2> HIDE DEF T
  <2>5. IsFiniteSet(T(A)) /\ IsFiniteSet({t}) /\ T(A) \cap {t} = {}
        /\ \A x \in T(A) \cup {t} : amount[x] \in Nat
    BY <2>2, <2>4, FS_Subset, FS_Singleton
  <2>6. UnitsOf(amount, T(A) \cup {t}) = UnitsOf(amount, T(A)) + UnitsOf(amount, {t})
    BY <2>5, UnitsOfBoth
  <2>7. UnitsOf(amount, {t}) = q[m + 1].count
    <3>1. amount[t] \in Nat /\ amount[t] = q[m + 1].count
      BY <1>1, <2>4 DEF Asked
    <3>2. QED
      BY <3>1, UnitsOfOne
  <2>8. CountOf(q, B) = CountOf(q, A) + q[m + 1].count
    BY <1>2, <2>1, <2>6, <2>7
  <2>9. QED
    BY <1>2, <1>4, <2>8
<1>5. CASE wait[t] # Waiting
  <2>1. B = A
    BY <1>3, <1>5
  <2>2. CountOf(q, B) = CountOf(q, A) + 0
    BY <1>2, <2>1
  <2>3. QED
    BY <1>2, <1>5, <2>2
<1>6. QED
  BY <1>4, <1>5

\* When each thread asks for one unit, a release of n gives away n, or less if it
\* leaves nobody.
LEMMA OnesGiven ==
    ASSUME TypeInv, NEW q \in Seq(Entry), OneEach(q), Asked(q),
           \A i \in 1..Len(q) : q[i].count = 1, NEW n \in Nat,
           NEW taken, taken = TakenOff(q, n, n)
    PROVE  /\ CountOf(q, StillWaiting(q, taken)) \in Nat
           /\ CountOf(q, StillWaiting(q, taken)) <= n
           /\ taken # Len(q) => CountOf(q, StillWaiting(q, taken)) = n
<1> DEFINE given(m) == CountOf(q, StillWaiting(q, m))
<1>1. /\ taken \in 0..Len(q) /\ Len(q) \in Nat
      /\ \A i \in 1..taken : given(i - 1) < n
      /\ taken + 1 \in 1..Len(q) =>
            ~ (given(taken) < n
               /\ (wait[q[taken + 1].thread] = Waiting => q[taken + 1].count <= n - given(taken)))
  BY TakenOffRange
<1>2. \A m \in Nat : m + 1 <= Len(q) =>
         /\ given(m) \in Nat
         /\ given(m + 1) = given(m)
               + (IF wait[q[m + 1].thread] = Waiting THEN q[m + 1].count ELSE 0)
  BY CountStep
<1>3. given(0) = 0
  <2>1. StillWaiting(q, 0) = {}
    BY DEF StillWaiting
  <2>2. \A f : UnitsOf(f, {}) = 0
    BY UnitsOfNobody
  <2>3. CountOf(q, {}) = 0
    BY <2>2 DEF CountOf
  <2>4. QED
    BY <2>1, <2>3
<1> HIDE DEF given
<1>4. given(taken) \in Nat /\ given(taken) <= n
  <2>1. CASE taken = 0
    BY <1>3, <2>1
  <2>2. CASE taken # 0
    <3>1. PICK m \in Nat : m + 1 = taken
      <4>1. taken - 1 \in Nat /\ (taken - 1) + 1 = taken
        BY <1>1, <2>2
      <4>2. QED
        BY <4>1
    <3>2. m + 1 <= Len(q) /\ taken \in 1..taken /\ taken - 1 = m /\ m + 1 \in 1..Len(q)
      BY <1>1, <3>1
    <3>3. given(m) < n
      BY <1>1, <3>2
    <3>4. given(m) \in Nat /\ (given(taken) = given(m) \/ given(taken) = given(m) + 1)
      <4>1. q[m + 1].count = 1
        BY <3>2
      <4>2. given(m) \in Nat
            /\ given(taken) = given(m) + (IF wait[q[m + 1].thread] = Waiting THEN 1 ELSE 0)
        BY <1>2, <3>1, <3>2, <4>1
      <4>3. QED
        BY <4>2
    <3>5. QED
      BY <3>3, <3>4
  <2>3. QED
    BY <2>1, <2>2
<1>5. ASSUME taken # Len(q) PROVE given(taken) = n
  <2>1. taken + 1 \in 1..Len(q)
    BY <1>1, <1>5
  <2>2. q[taken + 1].count = 1
    BY <2>1
  <2>3. ~(given(taken) < n /\ 1 <= n - given(taken))
    BY <1>1, <2>1, <2>2
  <2>4. QED
    BY <1>4, <2>3
<1>6. QED
  BY <1>4, <1>5 DEF given

\* The entries of the queues ask for one unit each.
LEMMA OnesInQueue ==
    ASSUME IInv, OnesInv, NEW s \in Slots
    PROVE  \A i \in 1..Len(queue[s]) : queue[s][i].count = 1
<1>0. TypeInv /\ QueueInv /\ WaitInv
  BY DEF IInv
<1>1. ASSUME NEW i \in 1..Len(queue[s]) PROVE queue[s][i].count = 1
  <2>1. queue[s][i] \in Entry
    BY <1>0 DEF TypeInv
  <2>2. queue[s][i].thread \in Threads
    BY <2>1 DEF Entry
  <2>3. queued[queue[s][i].thread] /\ amount[queue[s][i].thread] = queue[s][i].count
    BY <1>0 DEF QueueInv
  <2>4. Waits(queue[s][i].thread)
    BY <1>0, <2>2, <2>3 DEF WaitInv
  <2>5. QED
    BY <2>2, <2>3, <2>4 DEF OnesInv
<1>2. QED
  BY <1>1

\* A release leaves no unit unused while a thread is queued.
LEMMA OnesReleased ==
    ASSUME IInv, OnesInv, NEW s \in Slots, used[s], NEW n \in Nat, NEW b \in BOOLEAN,
           ReleaseLocked(s, n, b), UNCHANGED used,
           \A u \in Threads : Waits(u)' => amount'[u] = 1
    PROVE  OnesInv'
<1>0. TypeInv /\ QueueInv /\ WaitInv
  BY DEF IInv
<1> DEFINE R == Heads(queue[s], net_count[s] + n, n)
           w == UnitsOf(amount, Woken(R))
<1>1. n \in Int
  OBVIOUS
<1>2. /\ TakesOff(s, R) /\ w \in Nat
      /\ \E m \in Int : (m = n \/ (m = w /\ m < n /\ queue'[s] = <<>>)) /\ Gives(s, R, m)
  BY <1>0, <1>1, ReleaseTakesOff
<1>3. PICK m \in Int : (m = n \/ (m = w /\ m < n /\ queue'[s] = <<>>)) /\ Gives(s, R, m)
  BY <1>2
<1>4. net_count \in [Slots -> Int] /\ queue \in [Slots -> Seq(Entry)]
  BY <1>0 DEF TypeInv
<1>5. /\ net_count'[s] = net_count[s] + m - w
      /\ \A x \in Slots : x # s => net_count'[x] = net_count[x]
  <2> HIDE DEF w
  <2>1. net_count' = [net_count EXCEPT ![s] = net_count[s] + m - w]
    BY <1>3 DEF Gives, w
  <2>2. QED
    BY <1>4, <2>1
<1>6. \A x \in Slots : x # s => queue'[x] = queue[x]
  BY <1>2, <1>4 DEF TakesOff
<1>7. /\ net_count'[s] >= 0 /\ (net_count'[s] > 0 => queue'[s] = <<>>)
  <2>1. net_count[s] \in Int /\ net_count[s] >= 0 /\ (net_count[s] > 0 => queue[s] = <<>>)
    BY <1>4 DEF OnesInv
  <2>2. queue'[s] \in Seq(Entry) /\ Sleepers(queue'[s]) = QueueOf(s) \ R
    BY <1>0, <1>2, TakesOffQueues
  <2>3. CASE queue[s] = <<>>
    <3>1. QueueOf(s) = {}
      BY <2>3 DEF QueueOf, Sleepers
    <3>2. Sleepers(queue'[s]) = {}
      BY <2>2, <3>1
    <3>3. queue'[s] = <<>>
      BY <2>2, <3>2, NobodyLeft
    <3>4. Woken(R) = {}
      BY <1>2, <3>1 DEF TakesOff, Woken
    <3>5. w = 0
      BY <3>4, UnitsOfNobody
    <3>6. m >= 0
      BY <1>3, <3>5
    <3> HIDE DEF w
    <3>7. QED
      BY <1>5, <2>1, <3>3, <3>5, <3>6
  <2>4. CASE queue[s] # <<>>
    <3>1. net_count[s] = 0 /\ net_count[s] + n = n
      BY <2>1, <2>4
    <3> DEFINE q == queue[s]
               taken == TakenOff(q, n, n)
    <3>2. q \in Seq(Entry) /\ OneEach(q) /\ Asked(q) /\ \A i \in 1..Len(q) : q[i].count = 1
      BY <1>0, QueueType, OnesInQueue
    <3>3. taken \in 0..Len(q)
      BY <3>2, TakenOffRange
    <3>4. R = {q[i].thread : i \in 1..taken}
      BY <3>1 DEF Heads
    <3> HIDE DEF q, R, taken, w
    <3>5. CountOf(q, StillWaiting(q, taken)) = w
      <4>1. \A S : S = {q[i].thread : i \in 1..taken} =>
               CountOf(q, StillWaiting(q, taken)) = UnitsOf(amount, Woken(S))
        BY <3>2, <3>3, TakenThreads DEF Woken
      <4>2. QED
        BY <3>4, <4>1 DEF w
    <3>6. w <= n /\ (taken # Len(q) => w = n)
      BY <1>0, <3>2, <3>5, OnesGiven DEF taken
    <3>7. ASSUME taken = Len(q) PROVE queue'[s] = <<>>
      <4>1. QueueOf(s) = R
        BY <3>4, <3>7 DEF QueueOf, Sleepers, q
      <4>2. Sleepers(queue'[s]) = {}
        BY <2>2, <4>1
      <4>3. QED
        BY <2>2, <4>2, NobodyLeft
    <3>8. QED
      BY <1>2, <1>3, <1>5, <3>1, <3>6, <3>7
  <2>5. QED
    BY <2>3, <2>4
<1>8. \A x \in Slots : used'[x] => net_count'[x] >= 0 /\ (net_count'[x] > 0 => queue'[x] = <<>>)
  BY <1>5, <1>6, <1>7 DEF OnesInv
<1>9. QED
  BY <1>8 DEF OnesInv

\* Nobody is woken when a thread whose wait has failed leaves the queue: there are no units.
LEMMA OnesRemoved ==
    ASSUME IInv, OnesInv, NEW s \in Slots, used[s], NEW t \in QueueOf(s), wait[t] # Waiting,
           remove_thread_from_sem(t, s), UNCHANGED <<units, used>>,
           \A u \in Threads : Waits(u)' => amount'[u] = 1
    PROVE  OnesInv'
<1>0. TypeInv /\ QueueInv /\ WaitInv
  BY DEF IInv
<1>1. PICK R, q :
         /\ Remainder(q, queue[s], {t}) /\ Asked(q)
         /\ R = {t} \cup Heads(q, net_count[s], CountOf(q, 1..Len(q)) + 1)
         /\ TakesOff(s, R) /\ Gives(s, R, 0)
  BY <1>0, RemoveTakesOff
<1>2. net_count \in [Slots -> Int] /\ queue \in [Slots -> Seq(Entry)]
  BY <1>0 DEF TypeInv
<1>3. net_count[s] = 0
  <2>1. queue[s] # <<>>
    BY DEF QueueOf, Sleepers
  <2>2. QED
    BY <1>2, <2>1 DEF OnesInv
<1>4. q \in Seq(Entry) /\ OneEach(q) /\ \A i \in 1..Len(q) : q[i].count = 1
  <2>1. \A i \in 1..Len(queue[s]) : queue[s][i].count = 1
    BY OnesInQueue
  <2>2. QED
    BY <1>1, <2>1 DEF Remainder
<1>5. Woken(R) = {}
  <2> SUFFICES ASSUME NEW u \in Woken(R) PROVE FALSE
    OBVIOUS
  <2> DEFINE limit == CountOf(q, 1..Len(q)) + 1
             taken == TakenOff(q, net_count[s], limit)
  <2>1. wait[u] = Waiting /\ u \in Heads(q, net_count[s], limit)
    BY <1>1 DEF Woken
  <2>2. PICK i \in 1..taken : u = q[i].thread
    BY <2>1 DEF Heads
  <2>3. /\ taken \in 0..Len(q)
        /\ wait[q[i].thread] = Waiting =>
              q[i].count <= net_count[s] - CountOf(q, StillWaiting(q, i - 1))
    BY <1>4, TakenOffRange
  <2> HIDE DEF limit, taken
  <2>4. i \in 1..Len(q) /\ StillWaiting(q, i - 1) \in SUBSET (1..Len(q))
    BY <1>4, <2>3 DEF StillWaiting
  <2> DEFINE g == CountOf(q, StillWaiting(q, i - 1))
  <2>5. g \in Nat
    BY <1>1, <1>4, <2>4, CountOfThreads
  <2>6. q[i].count = 1
    BY <1>4, <2>4
  <2> HIDE DEF g
  <2>7. 1 <= 0 - g
    BY <1>3, <2>1, <2>2, <2>3, <2>6 DEF g
  <2>8. QED
    BY <2>5, <2>7
<1>6. net_count' = [net_count EXCEPT ![s] = 0]
  <2>1. UnitsOf(amount, Woken(R)) = 0
    BY <1>5, UnitsOfNobody
  <2>2. net_count' = [net_count EXCEPT ![s] = net_count[s] + 0 - UnitsOf(amount, Woken(R))]
    BY <1>1 DEF Gives
  <2>3. net_count[s] + 0 - UnitsOf(amount, Woken(R)) = 0
    BY <1>3, <2>1
  <2>4. QED
    BY <2>2, <2>3
<1>7. \A x \in Slots : x # s => queue'[x] = queue[x] /\ net_count'[x] = net_count[x]
  BY <1>1, <1>2, <1>6 DEF TakesOff
<1>8. net_count'[s] = 0
  BY <1>2, <1>6
<1>9. \A x \in Slots : used'[x] => net_count'[x] >= 0 /\ (net_count'[x] > 0 => queue'[x] = <<>>)
  BY <1>7, <1>8 DEF OnesInv
<1>10. QED
  BY <1>9 DEF OnesInv

\* Steps that leave the semaphores alone.
LEMMA OnesSame ==
    ASSUME OnesInv, \A x \in Slots : used'[x] => /\ used[x]
                                                 /\ net_count'[x] = net_count[x]
                                                 /\ queue'[x] = queue[x],
           \A u \in Threads : Waits(u)' => amount'[u] = 1
    PROVE  OnesInv'
BY DEF OnesInv

\* switch_sem_etc() for one unit.
LEMMA OnesSwitch ==
    ASSUME IInv, OnesInv, NEW t \in Threads, NEW s \in Slots, NEW n, n = 1,
           NEW r, switch_sem_etc(t, r, s, n)
    PROVE  OnesInv'
<1>0. TypeInv /\ CallInv /\ QueueInv /\ WaitInv /\ UnitsInv
  BY DEF IInv
<1>1. /\ pc \in [Threads -> Steps] /\ amount \in [Threads -> Nat]
      /\ count \in [Slots -> Int] /\ net_count \in [Slots -> Int]
      /\ queue \in [Slots -> Seq(Entry)]
  BY <1>0 DEF TypeInv
<1>2. used[s] /\ UNCHANGED used
  BY DEF switch_sem_etc, slotVars
<1>3. net_count[s] = count[s] + UnitsOf(amount, QueueOf(s)) /\ UnitsOf(amount, QueueOf(s)) \in Nat
  <2>1. QueueOf(s) \in SUBSET Threads
    BY <1>0, InOneQueue
  <2>2. UnitsOf(amount, QueueOf(s)) \in Nat
    BY <1>1, <2>1, UnitsWithout
  <2>3. QED
    BY <1>0, <1>2, <2>2 DEF UnitsInv
<1>4. net_count[s] \in Int /\ count[s] \in Int
      /\ net_count[s] >= 0 /\ (net_count[s] > 0 => queue[s] = <<>>)
  BY <1>1, <1>2 DEF OnesInv
<1>5. CASE /\ count[s] >= n
           /\ net_count' = [net_count EXCEPT ![s] = @ - n]
           /\ UNCHANGED <<wait, queue, queued, semLock, pc, callVars>>
  <2>1. net_count[s] >= 1 /\ queue[s] = <<>>
    BY <1>3, <1>4, <1>5
  <2>2. net_count'[s] >= 0 /\ queue'[s] = <<>>
    BY <1>1, <1>5, <2>1
  <2>3. \A x \in Slots : x # s => net_count'[x] = net_count[x] /\ queue'[x] = queue[x]
    BY <1>1, <1>5
  <2>4. \A x \in Slots : used'[x] =>
           net_count'[x] >= 0 /\ (net_count'[x] > 0 => queue'[x] = <<>>)
    BY <1>2, <2>2, <2>3 DEF OnesInv
  <2>5. \A u \in Threads : Waits(u)' => amount'[u] = 1
    BY <1>5 DEF OnesInv, Waits, callVars
  <2>6. QED
    BY <2>4, <2>5 DEF OnesInv
<1>6. CASE /\ IF r = None THEN UNCHANGED <<semLock, pc, callVars>>
              ELSE /\ semLock' = [semLock EXCEPT ![s] = t]
                   /\ Arguments(t, r, s, n)
                   /\ Goto(t, "interrupted")
           /\ UNCHANGED <<wait, semVars, queued, units>>
  <2>1. \A u \in Threads : Waits(u)' => amount'[u] = 1
    <3>1. CASE r = None
      BY <1>6, <3>1 DEF OnesInv, Waits, callVars
    <3>2. CASE r # None
      BY <1>1, <1>6, <3>2 DEF OnesInv, Waits, Arguments, Goto
    <3>3. QED
      BY <3>1, <3>2
  <2>2. QED
    BY <1>2, <1>6, <2>1, OnesSame DEF semVars
<1>7. CASE /\ count[s] < n
           /\ queue' = [queue EXCEPT ![s] = Append(@, [thread |-> t, count |-> n])]
           /\ Arguments(t, r, s, n)
           /\ Goto(t, IF r = None THEN "blocked" ELSE "switching")
           /\ UNCHANGED <<net_count, semLock, units>>
  <2>1. net_count[s] = 0
    <3>1. CASE net_count[s] > 0
      <4>1. QueueOf(s) = {}
        BY <1>4, <3>1 DEF QueueOf, Sleepers
      <4>2. UnitsOf(amount, QueueOf(s)) = 0
        BY <4>1, UnitsOfNobody
      <4>3. QED
        BY <1>3, <1>4, <1>7, <3>1, <4>2
    <3>2. QED
      BY <1>4, <3>1
  <2>2. \A x \in Slots : x # s => queue'[x] = queue[x]
    BY <1>1, <1>7
  <2>3. \A x \in Slots : used'[x] =>
           net_count'[x] >= 0 /\ (net_count'[x] > 0 => queue'[x] = <<>>)
    BY <1>2, <1>7, <2>1, <2>2 DEF OnesInv
  <2>4. \A u \in Threads : Waits(u)' => amount'[u] = 1
    <3>1. amount'[t] = 1 /\ \A u \in Threads \ {t} : pc'[u] = pc[u] /\ amount'[u] = amount[u]
      BY <1>1, <1>7 DEF Arguments, Goto
    <3>2. QED
      BY <3>1 DEF OnesInv, Waits
  <2>5. QED
    BY <2>3, <2>4 DEF OnesInv
<1>8. QED
  BY <1>5, <1>6, <1>7 DEF switch_sem_etc

\* The release in switch_sem_etc().
LEMMA OnesReleaseOther ==
    ASSUME IInv, OnesInv, NEW t \in Threads, toRelease[t] \in Ids, ReleaseOther(t),
           \A u \in Threads : Waits(u)' => amount'[u] = 1
    PROVE  OnesInv'
<1> DEFINE r == toRelease[t]
<1>0. UNCHANGED used
  BY DEF ReleaseOther, slotVars
<1>1. CASE Valid(r)
  <2>1. r.slot \in Slots /\ used[r.slot]
    BY <1>1 DEF Ids, Valid
  <2>2. ReleaseLocked(r.slot, 1, FALSE)
    BY <1>1 DEF ReleaseOther
  <2> HIDE DEF r
  <2>3. PICK n \in Nat : n = 1
    OBVIOUS
  <2>4. PICK b \in BOOLEAN : b = FALSE
    OBVIOUS
  <2>5. ReleaseLocked(r.slot, n, b)
    BY <2>2, <2>3, <2>4, Zenon
  <2>6. QED
    BY <1>0, <2>1, <2>5, OnesReleased
<1>2. CASE ~Valid(r)
  <2>1. UNCHANGED <<net_count, queue>>
    BY <1>2 DEF ReleaseOther, semVars
  <2>2. QED
    BY <1>0, <2>1, OnesSame
<1>3. QED
  BY <1>1, <1>2

\* Every step keeps OnesInv.
LEMMA OnesNext ==
    ASSUME Counts = {1}
    PROVE  IInv /\ OnesInv /\ [Next]_vars => OnesInv'
<1> SUFFICES ASSUME IInv, OnesInv, [Next]_vars PROVE OnesInv'
  OBVIOUS
<1>0. /\ TypeInv /\ CallInv /\ QueueInv /\ WaitInv /\ SlotInv /\ UnitsInv
      /\ pc \in [Threads -> Steps] /\ amount \in [Threads -> Nat]
  BY DEF IInv, TypeInv
<1>1. ASSUME NEW s \in Slots, Release(s) PROVE OnesInv'
  <2>1. PICK n \in Counts, b \in BOOLEAN : release_sem_etc(s, n, b)
    BY <1>1 DEF Release
  <2>2. n \in Nat /\ used[s] /\ ReleaseLocked(s, n, b) /\ UNCHANGED <<used, pc, amount>>
    BY <2>1 DEF release_sem_etc, slotVars, callVars
  <2>3. \A u \in Threads : Waits(u)' => amount'[u] = 1
    BY <2>2 DEF OnesInv, Waits
  <2>4. QED
    BY <2>2, <2>3, OnesReleased
<1>2. ASSUME NEW s \in Slots, ReleaseAll(s) PROVE OnesInv'
  <2>1. used[s] /\ ReleaseLocked(s, net_count[s] - count[s], TRUE)
        /\ UNCHANGED <<used, pc, amount>>
    BY <1>2 DEF ReleaseAll, slotVars, callVars
  <2>2. \A u \in Threads : Waits(u)' => amount'[u] = 1
    BY <2>1 DEF OnesInv, Waits
  <2> DEFINE n == net_count[s] - count[s]
             k == UnitsOf(amount, QueueOf(s))
  <2>3. n \in Nat
    <3>1. QueueOf(s) \in SUBSET Threads
      BY <1>0, InOneQueue
    <3>2. k \in Nat
      BY <1>0, <3>1, UnitsWithout
    <3>3. net_count[s] = count[s] + k /\ count[s] \in Int
      BY <1>0, <2>1 DEF UnitsInv, TypeInv
    <3> HIDE DEF k
    <3>4. QED
      BY <3>2, <3>3
  <2> HIDE DEF n
  <2>4. PICK b \in BOOLEAN : b = TRUE
    OBVIOUS
  <2>5. ReleaseLocked(s, n, b)
    BY <2>1, <2>4, Zenon DEF n
  <2>6. QED
    BY <2>1, <2>2, <2>3, <2>5, OnesReleased
<1>3. ASSUME NEW n \in 0..MaxCount, create_sem_etc(n) PROVE OnesInv'
  <2>1. PICK s \in Slots : s = Head(free)
    BY <1>0, <1>3 DEF TypeInv, create_sem_etc
  <2>2. /\ net_count' = [net_count EXCEPT ![s] = n] /\ queue' = [queue EXCEPT ![s] = <<>>]
        /\ used' = [used EXCEPT ![s] = TRUE] /\ UNCHANGED <<pc, amount>>
    BY <1>3, <2>1 DEF create_sem_etc, callVars
  <2>3. net_count \in [Slots -> Int] /\ queue \in [Slots -> Seq(Entry)]
        /\ used \in [Slots -> BOOLEAN]
    BY <1>0 DEF TypeInv
  <2>4. net_count'[s] = n /\ n >= 0 /\ queue'[s] = <<>>
    BY <2>2, <2>3
  <2>5. \A x \in Slots : x # s => /\ net_count'[x] = net_count[x] /\ queue'[x] = queue[x]
                                  /\ used'[x] = used[x]
    BY <2>2, <2>3
  <2>6. \A x \in Slots : used'[x] =>
           net_count'[x] >= 0 /\ (net_count'[x] > 0 => queue'[x] = <<>>)
    BY <2>4, <2>5 DEF OnesInv
  <2>7. \A u \in Threads : Waits(u)' => amount'[u] = 1
    BY <2>2 DEF OnesInv, Waits
  <2>8. QED
    BY <2>6, <2>7 DEF OnesInv
<1>4. ASSUME NEW t \in Threads, SwitchReleases(t) PROVE OnesInv'
  <2>1. ReleaseOther(t) /\ toRelease[t] \in Ids
    BY <1>0, <1>4 DEF SwitchReleases, CallInv
  <2>2. \A u \in Threads : Waits(u)' => amount'[u] = 1
    BY <1>0, <1>4 DEF SwitchReleases, Goto, OnesInv, Waits
  <2>3. QED
    BY <2>1, <2>2, OnesReleaseOther
<1>5. ASSUME NEW t \in Threads, InterruptedReleases(t) PROVE OnesInv'
  <2>1. ReleaseOther(t) /\ toRelease[t] \in Ids
    BY <1>0, <1>5 DEF InterruptedReleases, CallInv
  <2>2. \A u \in Threads : Waits(u)' => amount'[u] = 1
    BY <1>0, <1>5 DEF InterruptedReleases, Return, Goto, OnesInv, Waits
  <2>3. QED
    BY <2>1, <2>2, OnesReleaseOther
<1>6. ASSUME NEW t \in Threads, BlockReturns(t) PROVE OnesInv'
  <2>1. \A u \in Threads : Waits(u)' => amount'[u] = 1
    BY <1>0, <1>6 DEF BlockReturns, Return, Goto, OnesInv, Waits
  <2>2. UNCHANGED used /\ wait[t] # Waiting
    BY <1>6 DEF BlockReturns, slotVars, Unblocked
  <2>3. CASE queued[t]
    <3>1. wait[t] # B_OK
      BY <1>0, <2>3 DEF WaitInv
    <3>2. PICK s \in Slots : t \in QueueOf(s)
      BY <1>0, <2>3 DEF WaitInv
    <3>3. used[s] /\ sem[t] = IdOf(s)
      BY <1>0, <3>2, InOneQueue
    <3>4. sem[t].slot = s
      BY <3>3 DEF IdOf
    <3>5. remove_thread_from_sem(t, s) /\ UNCHANGED units
      BY <1>6, <2>3, <3>1, <3>4 DEF BlockReturns
    <3>6. QED
      BY <2>1, <2>2, <3>2, <3>3, <3>5, OnesRemoved
  <2>4. CASE ~queued[t]
    <3>1. UNCHANGED <<net_count, queue>>
      BY <1>6, <2>4 DEF BlockReturns, semVars
    <3>2. QED
      BY <2>1, <2>2, <3>1, OnesSame
  <2>5. QED
    BY <2>3, <2>4
<1>7. ASSUME NEW t \in Threads, free_sem_slot(t) PROVE OnesInv'
  <2>1. \A u \in Threads : Waits(u)' => amount'[u] = 1
    BY <1>0, <1>7 DEF free_sem_slot, Return, Goto, OnesInv, Waits
  <2>2. QED
    BY <1>7, <2>1, OnesSame DEF free_sem_slot, semVars
<1>8. ASSUME NEW t \in Threads, WaitFails(t) PROVE OnesInv'
  <2>1. UNCHANGED <<net_count, queue, used, pc, amount>>
    BY <1>8 DEF WaitFails, semVars, slotVars, callVars
  <2>2. QED
    BY <2>1 DEF OnesInv, Waits
<1>9. ASSUME NEW t \in Threads, NEW s \in Slots, NEW n \in Counts,
             switch_sem_etc(t, None, s, n)
      PROVE  OnesInv'
  <2>1. n = 1
    OBVIOUS
  <2>2. QED
    BY <1>9, <2>1, OnesSwitch
<1>10. ASSUME NEW t \in Threads, NEW p \in Switches,
              switch_sem_etc(t, IdOf(p[1]), p[2], 1)
       PROVE  OnesInv'
  <2>1. p[2] \in Slots
    OBVIOUS
  <2>2. PICK one : one = 1
    OBVIOUS
  <2>3. switch_sem_etc(t, IdOf(p[1]), p[2], one)
    BY <1>10, <2>2
  <2>4. QED
    BY <2>1, <2>2, <2>3, OnesSwitch
<1>11. ASSUME NEW t \in Threads, NEW s \in Slots, delete_sem_internal(t, s) PROVE OnesInv'
  <2>1. \A u \in Threads : Waits(u)' => amount'[u] = 1
    BY <1>0, <1>11 DEF delete_sem_internal, Goto, OnesInv, Waits
  <2>2. queue \in [Slots -> Seq(Entry)] /\ used \in [Slots -> BOOLEAN]
    BY <1>0 DEF TypeInv
  <2>3. UNCHANGED net_count /\ queue' = [queue EXCEPT ![s] = <<>>]
        /\ used' = [used EXCEPT ![s] = FALSE]
    BY <1>11 DEF delete_sem_internal
  <2>4. \A x \in Slots : used'[x] => used[x] /\ net_count'[x] = net_count[x]
                                     /\ queue'[x] = queue[x]
    BY <2>2, <2>3
  <2>5. QED
    BY <2>1, <2>4, OnesSame
<1>12. CASE UNCHANGED vars
  <2>1. UNCHANGED <<net_count, queue, used, pc, amount>>
    BY <1>12 DEF vars, semVars, slotVars, callVars
  <2>2. QED
    BY <2>1 DEF OnesInv, Waits
<1>13. QED
  BY <1>1, <1>2, <1>3, <1>4, <1>5, <1>6, <1>7, <1>8, <1>9, <1>10, <1>11, <1>12
     DEF Next, Continue

\* The head of a queue needs a unit, and there is none.
LEMMA OnesHead == IInv /\ OnesInv => HeadNotSatisfied
<1> SUFFICES ASSUME IInv, OnesInv, NEW s \in Slots, used[s], queue[s] # <<>>
             PROVE  Head(queue[s]).count > net_count[s]
  BY DEF HeadNotSatisfied
<1>1. queue[s] \in Seq(Entry) /\ net_count[s] \in Int
  BY DEF IInv, TypeInv
<1>2. 1 \in 1..Len(queue[s]) /\ Head(queue[s]) = queue[s][1]
  BY <1>1
<1>3. Head(queue[s]).count = 1
  BY <1>2, OnesInQueue
<1>4. ~(net_count[s] > 0)
  BY DEF OnesInv
<1>5. QED
  BY <1>1, <1>3, <1>4

\* OnesInv holds at first.
LEMMA OnesInit == Init => OnesInv
BY DEF Init, OnesInv, Waits

\* When units are acquired and released one at a time, a thread at the head of a queue never
\* sleeps while there is a unit for it: release_sem_etc() and remove_thread_from_sem() wake
\* all they can.  With larger counts this fails.
THEOREM HeadNeverSatisfied ==
    ASSUME Counts = {1}
    PROVE  Spec => []HeadNotSatisfied
<1>1. QED
  BY InitInv, NextInv, OnesInit, OnesNext, OnesHead, PTL DEF Spec
=============================================================================
