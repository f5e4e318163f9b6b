---------------------------- MODULE JournalProofs ----------------------------
(***************************************************************************)
(* What TLAPS proves about the journal on top of the block cache, for any  *)
(* set of blocks, any sizes of the log and of a transaction, any number of *)
(* transactions and of crashes.                                            *)
(*                                                                         *)
(* The invariant has two parts.  Base is about the memory: what the cache  *)
(* and the journal know of each other, above all why there is a log entry. *)
(* Geometry(g) is about the log: as long as none of the flaws that Exposed *)
(* names has happened, all arrays ever written to it can be numbered, and  *)
(* every pointer into the circular log is that of a numbered array.        *)
(***************************************************************************)
EXTENDS Journal, BlockCacheProofs

USE IdsAre DEF NoId, NoData, Current, Sync

\* The first of the places of the array number a, if all arrays have w.
Start(w, a) == a * w

\* It grows with a.
LEMMA StartIs ==
    ASSUME NEW w \in Nat, NEW a \in Nat, NEW b \in Nat
    PROVE  /\ Start(w, a) \in Nat /\ Start(w, 0) = 0
           /\ Start(w, a + 1) = Start(w, a) + w /\ Start(w + 1, a) = Start(w, a) + a
           /\ a <= b => Start(w, a) <= Start(w, b)
<1>1. a * w \in Nat /\ (a + 1) * w = a * w + w /\ a * (w + 1) = a * w + a /\ 0 * w = 0
  OBVIOUS
<1>2. ASSUME a <= b PROVE a * w <= b * w
  <2>1. PICK d \in Nat : b = a + d
    <3>1. b - a \in Nat /\ b = a + (b - a)
      BY <1>2
    <3>2. QED
      BY <3>1
  <2>2. b * w = a * w + d * w /\ d * w \in Nat
    BY <2>1
  <2>3. QED
    BY <1>1, <2>2
<1>3. QED
  BY <1>1, <1>2 DEF Start

\* Division with remainder.
LEMMA StartDiv ==
    ASSUME NEW k \in Nat, NEW w \in Nat \ {0}
    PROVE  k \div w \in Nat /\ k % w \in 0..w - 1 /\ k = Start(w, k \div w) + (k % w)
<1>1. k \div w \in Nat /\ k % w \in 0..w - 1
  OBVIOUS
<1>2. k % w = k - w * (k \div w)
  OBVIOUS
<1>3. k = (k \div w) * w + (k % w)
  BY <1>1, <1>2
<1>4. QED
  BY <1>1, <1>3 DEF Start

\* Quotient and remainder are unique.
LEMMA StartOnly ==
    ASSUME NEW k \in Nat, NEW w \in Nat \ {0}, NEW a \in Nat, NEW j \in 0..w - 1,
           k = Start(w, a) + j
    PROVE  k \div w = a /\ k % w = j
<1>1. k = a * w + j
  BY DEF Start
<1>2. k \div w = a
  BY <1>1
<1>3. k % w = j
  <2>1. k % w = k - w * (k \div w)
    OBVIOUS
  <2>2. w * a = a * w /\ a * w \in Nat
    OBVIOUS
  <2>3. QED
    BY <1>1, <1>2, <2>1, <2>2
<1>4. QED
  BY <1>2, <1>3

\* The number of arrays: the last is neither empty nor overfull.
LEMMA ArraysCover ==
    ASSUME NEW n \in Nat \ {0}, NEW w \in Nat \ {0}, NEW m, m = ArraysFor(n, w)
    PROVE  m \in Nat \ {0} /\ Start(w, m - 1) < n /\ n <= Start(w, m) /\ m <= n
<1>1. PICK k \in Nat : k = n + w - 1
  <2>1. n + w - 1 \in Nat
    OBVIOUS
  <2>2. QED
    BY <2>1
<1>2. m = k \div w
  BY <1>1 DEF ArraysFor
<1>3. PICK r \in 0..w - 1 : k = Start(w, m) + r /\ m \in Nat
  BY <1>2, StartDiv
<1>4. /\ Start(w, m) \in Nat /\ Start(w, 0) = 0
  BY <1>3, StartIs
<1>5. m # 0
  BY <1>1, <1>3, <1>4
<1>6. PICK p \in Nat : m = p + 1
  <2>1. m - 1 \in Nat /\ m = (m - 1) + 1
    BY <1>3, <1>5
  <2>2. QED
    BY <2>1
<1>7. m - 1 = p
  BY <1>6
<1>8. Start(w, m) = Start(w, p) + w /\ Start(w, p) \in Nat
  BY <1>6, StartIs
<1>9. PICK v \in Nat : w = v + 1
  <2>1. w - 1 \in Nat /\ w = (w - 1) + 1
    OBVIOUS
  <2>2. QED
    BY <2>1
<1>10. Start(w, p) = Start(v, p) + p /\ Start(v, p) \in Nat
  BY <1>9, StartIs
<1>11. QED
  BY <1>1, <1>3, <1>4, <1>5, <1>6, <1>7, <1>8, <1>10

\* How the blocks seq[1], .., seq[n] are divided into m arrays of up to w.
Cut(n, w, m, S, seq) ==
    n \in Nat \ {0} /\ w \in Nat \ {0} /\ seq \in [1..n -> S] /\ m = ArraysFor(n, w)

Piece(seq, n, w, a) == SubSeq(seq, a * w + 1, Min({(a + 1) * w, n}))

\* One array.
LEMMA PieceIs ==
    ASSUME NEW n, NEW w, NEW m, NEW S, NEW seq, Cut(n, w, m, S, seq), NEW a \in 0..m - 1
    PROVE  /\ Piece(seq, n, w, a) \in Seq(S)
           /\ Len(Piece(seq, n, w, a)) \in 1..w
           /\ \A j \in 1..Len(Piece(seq, n, w, a)) :
                    /\ Start(w, a) + j \in 1..n
                    /\ Piece(seq, n, w, a)[j] = seq[Start(w, a) + j]
           /\ a < m - 1 => Len(Piece(seq, n, w, a)) = w
           /\ a = m - 1 => Len(Piece(seq, n, w, a)) = n - Start(w, a)
<1>0. n \in Nat \ {0} /\ w \in Nat \ {0} /\ seq \in [1..n -> S] /\ m = ArraysFor(n, w)
  BY DEF Cut
<1>1. m \in Nat \ {0} /\ Start(w, m - 1) < n /\ n <= Start(w, m)
  BY <1>0, ArraysCover
<1>2. /\ a \in Nat /\ m - 1 \in Nat /\ a + 1 \in Nat /\ a <= m - 1
      /\ a < m - 1 => a + 1 <= m - 1
  BY <1>1
<1> DEFINE x == Start(w, a)
           y == Start(w, a + 1)
           z == Start(w, m - 1)
           u == Min({y, n})
           p == Piece(seq, n, w, a)
<1>3. x \in Nat /\ y \in Nat /\ y = x + w /\ z \in Nat /\ x <= z
  BY <1>0, <1>2, StartIs
<1>4. a < m - 1 => y <= z
  BY <1>0, <1>2, StartIs
<1>5. a = m - 1 => n <= y
  <2>1. (m - 1) + 1 = m
    BY <1>1
  <2>2. QED
    BY <1>1, <2>1
<1>6. u = IF y <= n THEN y ELSE n
  <2> HIDE DEF y
  <2>1. {y, n} \in SUBSET Nat /\ {y, n} # {}
    BY <1>0, <1>3
  <2>2. u \in {y, n} /\ u <= y /\ u <= n
    BY <2>1, MinIn
  <2> HIDE DEF u
  <2>3. QED
    BY <1>0, <1>3, <2>2
<1>7. z < n
  BY <1>1
<1>8. p = SubSeq(seq, x + 1, u)
  BY DEF Piece, Start
<1> HIDE DEF x, y, z, u, p
<1>9. /\ u \in Nat /\ x + 1 <= u /\ u <= n /\ u - x \in 1..w
      /\ a < m - 1 => u - x = w
      /\ a = m - 1 => u = n
  BY <1>0, <1>3, <1>4, <1>5, <1>6, <1>7
<1>10. seq \in Seq(S) /\ Len(seq) = n
  BY <1>0
<1>11. Len(p) = u - x /\ p \in Seq(S)
  <2>1. \A k \in x + 1..u : k \in 1..n /\ seq[k] \in S
    BY <1>0, <1>3, <1>9
  <2>2. p \in Seq(S)
    BY <1>0, <1>3, <1>8, <1>9, <1>10, <2>1
  <2>3. Len(p) = u - x
    BY <1>0, <1>3, <1>8, <1>9, <1>10
  <2>4. QED
    BY <2>2, <2>3
<1>12. ASSUME NEW j \in 1..Len(p) PROVE x + j \in 1..n /\ p[j] = seq[x + j]
  <2>1. p[j] = seq[j + (x + 1) - 1]
    BY <1>0, <1>3, <1>8, <1>9, <1>10, <1>11
  <2>2. j + (x + 1) - 1 = x + j /\ x + j \in 1..n
    BY <1>0, <1>3, <1>9, <1>11
  <2>3. QED
    BY <2>1, <2>2
<1>13. QED
  BY <1>0, <1>9, <1>11, <1>12 DEF p, x

\* Where the array number a starts in the log entry, behind its predecessors.
Offset(n, w, a) == IF a = ArraysFor(n, w) THEN n + a ELSE Start(w + 1, a)

\* Each array follows its predecessor.
Follow(n, w, m, seq) ==
    /\ m \in Nat \ {0} /\ Offset(n, w, 0) = 0 /\ Offset(n, w, m) = n + m
    /\ \A a \in 0..m : Offset(n, w, a) \in Nat
    /\ \A a \in 0..m - 1 :
        /\ Offset(n, w, a + 1) = Offset(n, w, a) + 1 + Len(Piece(seq, n, w, a))
        /\ Offset(n, w, a) = Start(w + 1, a)
    /\ \A a, c \in 0..m : a <= c => Offset(n, w, a) + (c - a) <= Offset(n, w, c)

\* They do.
LEMMA OffsetIs ==
    ASSUME NEW n, NEW w, NEW m, NEW S, NEW seq, Cut(n, w, m, S, seq)
    PROVE  Follow(n, w, m, seq)
<1>0. n \in Nat \ {0} /\ w \in Nat \ {0} /\ m = ArraysFor(n, w)
  BY DEF Cut
<1>1. m \in Nat \ {0} /\ Start(w, m - 1) < n /\ n <= Start(w, m)
  BY <1>0, ArraysCover
<1>2. /\ Offset(n, w, m) = n + m
      /\ \A a \in 0..m - 1 : Offset(n, w, a) = Start(w + 1, a)
  BY <1>0, <1>1 DEF Offset
<1>3. \A a \in 0..m - 1 : Offset(n, w, a) = Start(w, a) + a /\ Start(w, a) \in Nat
  BY <1>0, <1>1, <1>2, StartIs
<1>4. Start(w, 0) = 0 /\ 0 \in 0..m - 1
  BY <1>0, <1>1, StartIs
<1>5. \A a \in 0..m : Offset(n, w, a) \in Nat
  BY <1>0, <1>1, <1>2, <1>3
<1>6. ASSUME NEW a \in 0..m - 1
      PROVE  Offset(n, w, a + 1) = Offset(n, w, a) + 1 + Len(Piece(seq, n, w, a))
  <2> DEFINE l == Len(Piece(seq, n, w, a))
  <2>1. l \in 1..w /\ (a < m - 1 => l = w) /\ (a = m - 1 => l = n - Start(w, a))
    BY PieceIs
  <2> HIDE DEF l
  <2>2. CASE a = m - 1
    <3>1. a + 1 = m
      BY <1>1, <2>2
    <3>2. Offset(n, w, a) = Start(w, a) + a /\ Start(w, a) \in Nat /\ l = n - Start(w, a)
      BY <1>3, <2>1, <2>2
    <3>3. Offset(n, w, a + 1) = n + (a + 1)
      BY <1>2, <3>1
    <3>4. QED
      BY <1>0, <1>1, <3>2, <3>3 DEF l
  <2>3. CASE a < m - 1
    <3>1. a + 1 \in 0..m - 1 /\ a \in Nat
      BY <1>1, <2>3
    <3>2. Start(w, a + 1) = Start(w, a) + w
      BY <1>0, <3>1, StartIs
    <3>3. Offset(n, w, a + 1) = Start(w, a) + w + (a + 1)
      BY <1>3, <3>1, <3>2
    <3>4. Offset(n, w, a) = Start(w, a) + a /\ Start(w, a) \in Nat /\ l = w
      BY <1>3, <2>1, <2>3
    <3>5. QED
      BY <1>0, <3>1, <3>3, <3>4 DEF l
  <2>4. QED
    BY <1>1, <2>2, <2>3
<1>7. ASSUME NEW a \in 0..m, NEW c \in 0..m, a <= c
      PROVE  Offset(n, w, a) + (c - a) <= Offset(n, w, c)
  <2>1. CASE a = c
    BY <1>1, <1>5, <2>1
  <2>2. CASE a < c /\ c < m
    <3>1. a \in 0..m - 1 /\ c \in 0..m - 1 /\ a \in Nat /\ c \in Nat /\ a <= c
      BY <1>1, <2>2
    <3>3. Start(w, a) <= Start(w, c)
      BY <1>0, <3>1, StartIs
    <3>2. QED
      BY <1>1, <1>3, <2>2, <3>1, <3>3
  <2>3. CASE a < c /\ c = m
    <3>1. a \in 0..m - 1 /\ m - 1 \in Nat /\ a <= m - 1 /\ a \in Nat
      BY <1>1, <2>3
    <3>2. Start(w, a) <= Start(w, m - 1) /\ Start(w, m - 1) \in Nat
      BY <1>0, <3>1, StartIs
    <3>3. Offset(n, w, a) = Start(w, a) + a /\ Start(w, a) \in Nat
      BY <1>3, <3>1
    <3>4. QED
      BY <1>0, <1>1, <1>2, <2>3, <3>2, <3>3
  <2>4. QED
    BY <1>1, <1>7, <2>1, <2>2, <2>3
<1>8. Offset(n, w, 0) = 0
  BY <1>3, <1>4
<1>9. QED
  BY <1>1, <1>2, <1>5, <1>6, <1>7, <1>8 DEF Follow

\* Where the array a and its j-th block are in the log entry.
LEMMA PlaceIs ==
    ASSUME NEW n, NEW w, NEW m, NEW S, NEW seq, Cut(n, w, m, S, seq), NEW a \in 0..m - 1,
           NEW j \in 0..Len(Piece(seq, n, w, a)), NEW k, k = Offset(n, w, a) + 1 + j
    PROVE  k \in 1..n + m /\ (k - 1) \div (w + 1) = a /\ (k - 1) % (w + 1) = j
<1>0. n \in Nat \ {0} /\ w \in Nat \ {0}
  BY DEF Cut
<1> DEFINE l == Len(Piece(seq, n, w, a))
           x == Offset(n, w, a)
<1>1. l \in 1..w
  BY PieceIs
<1>2. Follow(n, w, m, seq) /\ m \in Nat \ {0}
  <2>1. Follow(n, w, m, seq)
    BY OffsetIs
  <2>2. QED
    BY <2>1 DEF Follow
<1>3. a \in 0..m /\ a + 1 \in 0..m /\ m \in 0..m /\ a + 1 <= m /\ a \in Nat
  BY <1>2
<1>4. /\ x = Start(w + 1, a) /\ x \in Nat
      /\ Offset(n, w, a + 1) = x + 1 + l
      /\ Offset(n, w, m) = n + m
  BY <1>2, <1>3 DEF Follow
<1>5. x + 1 + l + (m - (a + 1)) <= n + m
  <2>1. Offset(n, w, a + 1) + (m - (a + 1)) <= Offset(n, w, m)
    BY <1>2, <1>3 DEF Follow
  <2>2. QED
    BY <1>4, <2>1
<1>6. j \in 0..l /\ k = x + 1 + j
  OBVIOUS
<1>7. x \in Nat
  BY <1>4
<1> HIDE DEF l, x
<1>8. k \in 1..n + m /\ j \in 0..w
  BY <1>0, <1>1, <1>2, <1>3, <1>5, <1>6, <1>7
<1>9. PICK q \in Nat : q = k - 1
  BY <1>8
<1>10. q = Start(w + 1, a) + j
  BY <1>4, <1>6, <1>8, <1>9
<1>11. PICK v \in Nat \ {0} : v = w + 1
  <2>1. w + 1 \in Nat \ {0}
    BY <1>0
  <2>2. QED
    BY <2>1
<1>12. j \in 0..v - 1
  BY <1>0, <1>8, <1>11
<1>13. q \div v = a /\ q % v = j
  BY <1>3, <1>10, <1>11, <1>12, StartOnly
<1>14. QED
  BY <1>8, <1>9, <1>11, <1>13

\* Each block is in one array, once.
Parts(n, w, m, S, seq) ==
    /\ \A a, c \in 0..m - 1 : \A j \in 1..Len(Piece(seq, n, w, a)) :
        \A i \in 1..Len(Piece(seq, n, w, c)) :
            Piece(seq, n, w, a)[j] = Piece(seq, n, w, c)[i] => a = c /\ j = i
    /\ \A b \in S : \E a \in 0..m - 1 : \E j \in 1..Len(Piece(seq, n, w, a)) :
            Piece(seq, n, w, a)[j] = b

\* It is, if seq lists each block once.
LEMMA PiecesCover ==
    ASSUME NEW n, NEW w, NEW m, NEW S, NEW seq, Cut(n, w, m, S, seq),
           \A k, l \in 1..n : seq[k] = seq[l] => k = l,
           \A b \in S : \E k \in 1..n : seq[k] = b
    PROVE  Parts(n, w, m, S, seq)
<1>0. n \in Nat \ {0} /\ w \in Nat \ {0} /\ m = ArraysFor(n, w)
  BY DEF Cut
<1>1. m \in Nat \ {0} /\ n <= Start(w, m)
  BY <1>0, ArraysCover
<1>2. ASSUME NEW a \in 0..m - 1, NEW c \in 0..m - 1, NEW j \in 1..Len(Piece(seq, n, w, a)),
             NEW i \in 1..Len(Piece(seq, n, w, c)),
             Piece(seq, n, w, a)[j] = Piece(seq, n, w, c)[i]
      PROVE  a = c /\ j = i
  <2>1. /\ Start(w, a) + j \in 1..n /\ Piece(seq, n, w, a)[j] = seq[Start(w, a) + j]
        /\ Len(Piece(seq, n, w, a)) \in 1..w
    BY PieceIs
  <2>2. /\ Start(w, c) + i \in 1..n /\ Piece(seq, n, w, c)[i] = seq[Start(w, c) + i]
        /\ Len(Piece(seq, n, w, c)) \in 1..w
    BY PieceIs
  <2>3. Start(w, a) + j = Start(w, c) + i
    BY <1>2, <2>1, <2>2
  <2>4. a \in Nat /\ c \in Nat
    BY <1>1
  <2>5. Start(w, a) \in Nat /\ Start(w, c) \in Nat
    BY <1>0, <2>4, StartIs
  <2>6. j \in 1..w /\ i \in 1..w
    BY <1>0, <2>1, <2>2
  <2>7. PICK q \in Nat, s \in 0..w - 1, t \in 0..w - 1 :
            q = Start(w, a) + s /\ q = Start(w, c) + t /\ s = j - 1 /\ t = i - 1
    <3>1. /\ Start(w, a) + (j - 1) \in Nat /\ j - 1 \in 0..w - 1 /\ i - 1 \in 0..w - 1
          /\ Start(w, a) + (j - 1) = Start(w, c) + (i - 1)
      BY <1>0, <2>3, <2>5, <2>6
    <3>2. QED
      BY <3>1
  <2>8. q \div w = a /\ q % w = s
    <3>1. q = Start(w, a) + s
      BY <2>7
    <3>2. QED
      BY <1>0, <2>4, <3>1, StartOnly
  <2>9. q \div w = c /\ q % w = t
    BY <1>0, <2>4, <2>7, StartOnly
  <2>10. QED
    BY <2>6, <2>7, <2>8, <2>9
<1>3. ASSUME NEW b \in S
      PROVE  \E a \in 0..m - 1 : \E j \in 1..Len(Piece(seq, n, w, a)) :
                    Piece(seq, n, w, a)[j] = b
  <2>1. PICK k \in 1..n : seq[k] = b
    OBVIOUS
  <2>2. PICK q \in Nat : q = k - 1
    BY <1>0
  <2> DEFINE a == q \div w
             i == q % w
  <2>3. a \in Nat /\ i \in 0..w - 1 /\ q = Start(w, a) + i
    BY <1>0, StartDiv
  <2> HIDE DEF a, i
  <2>4. Start(w, a) \in Nat /\ Start(w, m) \in Nat /\ (m <= a => Start(w, m) <= Start(w, a))
    BY <1>0, <1>1, <2>3, StartIs
  <2>5. a \in 0..m - 1
    BY <1>0, <1>1, <2>2, <2>3, <2>4
  <2> DEFINE p == Piece(seq, n, w, a)
  <2>6. /\ Len(p) \in 1..w /\ (a < m - 1 => Len(p) = w)
        /\ (a = m - 1 => Len(p) = n - Start(w, a))
        /\ \A j \in 1..Len(p) : p[j] = seq[Start(w, a) + j]
    BY <2>5, PieceIs
  <2> HIDE DEF p
  <2>7. i + 1 \in 1..Len(p)
    <3>1. CASE a < m - 1
      BY <1>0, <2>3, <2>6, <3>1
    <3>2. CASE a = m - 1
      <4>1. Len(p) = n - Start(w, a) /\ k - 1 = Start(w, a) + i
        BY <2>2, <2>3, <2>6, <3>2
      <4>2. QED
        BY <1>0, <2>3, <2>4, <4>1
    <3>3. QED
      BY <1>1, <2>5, <3>1, <3>2
  <2>8. p[i + 1] = seq[Start(w, a) + (i + 1)] /\ Start(w, a) + (i + 1) = k
    BY <2>2, <2>3, <2>4, <2>6, <2>7
  <2>9. QED
    BY <2>1, <2>5, <2>7, <2>8 DEF p
<1>4. QED
  BY <1>2, <1>3 DEF Parts

\* The log entry of the running transaction consists of n arrays, each with its blocks
\* behind it; every block that is logged is in one of them, once.
Layout(n, runs, off) ==
    /\ n \in Nat \ {0} /\ runs \in [0..n - 1 -> Seq(Blocks)] /\ off \in [0..n -> Nat]
    /\ off[0] = 0 /\ off[n] = LogEntryLength
    /\ \A a \in 0..n - 1 :
        /\ off[a + 1] = off[a] + 1 + Len(runs[a]) /\ Len(runs[a]) > 0
        /\ LogEntryBlocks[off[a] + 1] = RunArray(runs[a])
        /\ \A j \in 1..Len(runs[a]) :
            /\ runs[a][j] \in Logged
            /\ LogEntryBlocks[off[a] + 1 + j] = LogData(block[runs[a][j]].current)
    /\ \A a, c \in 0..n : a <= c => off[a] + (c - a) <= off[c]
    /\ \A a, c \in 0..n - 1 : \A j \in 1..Len(runs[a]), i \in 1..Len(runs[c]) :
            runs[a][j] = runs[c][i] => a = c /\ j = i
    /\ \A b \in Logged : \E a \in 0..n - 1 : \E j \in 1..Len(runs[a]) : runs[a][j] = b

\* The number of blocks of the log entry.
LEMMA EntryLength ==
    /\ Logged \in SUBSET Blocks /\ Cardinality(Logged) \in Nat
    /\ Logged # {} => /\ Cardinality(Logged) \in Nat \ {0}
                      /\ LogEntryLength \in Nat \ {0, 1}
                      /\ LogEntryBlocks \in [1..LogEntryLength -> {LogEntryBlocks[k] : k \in 1..LogEntryLength}]
<1>1. Logged \in SUBSET Blocks
  BY DEF Logged, InTransaction
<1>2. Cardinality(Logged) \in Nat /\ (Logged # {} => Cardinality(Logged) # 0)
  BY <1>1, FiniteBlocks
<1>3. ArrayRuns \in Nat \ {0}
  BY JournalAssumption
<1>4. ASSUME Logged # {} PROVE LogEntryLength \in Nat \ {0, 1}
  <2>1. PICK n \in Nat \ {0} : n = Cardinality(Logged)
    BY <1>2, <1>4
  <2>2. ArraysFor(n, ArrayRuns) \in Nat \ {0}
    BY <1>3, ArraysCover
  <2>3. QED
    BY <2>1, <2>2 DEF LogEntryLength
<1>5. ASSUME Logged # {}
      PROVE  LogEntryBlocks \in [1..LogEntryLength -> {LogEntryBlocks[k] : k \in 1..LogEntryLength}]
  BY DEF LogEntryBlocks
<1>6. QED
  BY <1>1, <1>2, <1>4, <1>5

\* The log entry has such a layout.
LEMMA EntryLayout ==
    ASSUME Logged # {}
    PROVE  \E n, runs, off : Layout(n, runs, off)
<1> DEFINE c == Cardinality(Logged)
           w == ArrayRuns
           seq == ChangedBlocks
           m == ArraysFor(c, w)
           R(a) == Piece(seq, c, w, a)
           O(a) == Offset(c, w, a)
<1>1. /\ c \in Nat \ {0} /\ Logged \in SUBSET Blocks /\ IsFiniteSet(Logged)
      /\ w \in Nat \ {0}
  BY EntryLength, FiniteBlocks, JournalAssumption
<1>2. /\ seq \in [1..c -> Logged]
      /\ \A k, l \in 1..c : seq[k] = seq[l] => k = l
      /\ \A b \in Logged : \E k \in 1..c : seq[k] = b
  <2>1. /\ [b \in Logged |-> b] \in [Logged -> Nat]
        /\ \A i, j \in Logged : [b \in Logged |-> b][i] = [b \in Logged |-> b][j] => i = j
    BY <1>1, BlockCacheAssumption
  <2>2. PICK key \in [Logged -> Nat] :
            key = [b \in Logged |-> b] /\ \A i, j \in Logged : key[i] = key[j] => i = j
    BY <2>1
  <2>3. seq = InOrder(Logged, key)
    BY <2>2 DEF ChangedBlocks
  <2>4. Lists(InOrder(Logged, key), Logged)
    <3> HIDE DEF c, seq
    <3>1. QED
      BY <1>1, <2>2, InOrderIs
  <2>5. QED
    BY <2>3, <2>4 DEF Lists
<1> HIDE DEF c, w, seq, m
<1>3. Cut(c, w, m, Logged, seq)
  BY <1>1, <1>2 DEF Cut, m
<1>4. /\ m \in Nat \ {0} /\ O(0) = 0 /\ O(m) = c + m
      /\ \A a \in 0..m : O(a) \in Nat
      /\ \A a \in 0..m - 1 : O(a + 1) = O(a) + 1 + Len(R(a))
      /\ \A a, e \in 0..m : a <= e => O(a) + (e - a) <= O(e)
  <2>1. Follow(c, w, m, seq)
    BY <1>3, OffsetIs
  <2>2. QED
    BY <2>1 DEF Follow
<1>5. /\ \A a, e \in 0..m - 1 : \A j \in 1..Len(R(a)) : \A i \in 1..Len(R(e)) :
                R(a)[j] = R(e)[i] => a = e /\ j = i
      /\ \A b \in Logged : \E a \in 0..m - 1 : \E j \in 1..Len(R(a)) : R(a)[j] = b
  <2>1. Parts(c, w, m, Logged, seq)
    BY <1>2, <1>3, PiecesCover
  <2>2. QED
    BY <2>1 DEF Parts
<1>6. LogEntryLength = c + m
  BY DEF LogEntryLength, c, m, w
<1>7. ASSUME NEW k \in 1..LogEntryLength, NEW a, NEW j,
             (k - 1) \div (w + 1) = a, (k - 1) % (w + 1) = j
      PROVE  LogEntryBlocks[k] = IF j = 0 THEN RunArray(R(a))
                                 ELSE LogData(block[R(a)[j]].current)
  BY <1>7 DEF LogEntryBlocks, Piece, c, w, seq
<1> HIDE DEF R, O
<1>8. ASSUME NEW a \in 0..m - 1
      PROVE  /\ R(a) \in Seq(Logged) /\ Len(R(a)) > 0
             /\ LogEntryBlocks[O(a) + 1] = RunArray(R(a))
             /\ \A j \in 1..Len(R(a)) :
                    LogEntryBlocks[O(a) + 1 + j] = LogData(block[R(a)[j]].current)
  <2>1. R(a) \in Seq(Logged) /\ Len(R(a)) \in Nat /\ Len(R(a)) > 0
    <3>1. R(a) \in Seq(Logged) /\ Len(R(a)) \in 1..w
      BY <1>3, PieceIs DEF R
    <3>2. QED
      BY <1>1, <3>1
  <2>2. ASSUME NEW j \in 0..Len(R(a))
        PROVE  LogEntryBlocks[O(a) + 1 + j] = IF j = 0 THEN RunArray(R(a))
                                              ELSE LogData(block[R(a)[j]].current)
    <3>1. PICK k : k = O(a) + 1 + j
      OBVIOUS
    <3>2. k \in 1..c + m /\ (k - 1) \div (w + 1) = a /\ (k - 1) % (w + 1) = j
      BY <1>3, <3>1, PlaceIs DEF R, O
    <3>3. QED
      BY <1>6, <1>7, <3>1, <3>2
  <2>3. LogEntryBlocks[O(a) + 1] = RunArray(R(a))
    <3>1. PICK j \in 0..Len(R(a)) : j = 0
      BY <2>1
    <3>2. a \in 0..m
      BY <1>4
    <3>3. O(a) + 1 + j = O(a) + 1
      BY <1>4, <3>1, <3>2
    <3>4. QED
      BY <2>2, <3>1, <3>3
  <2>4. ASSUME NEW j \in 1..Len(R(a))
        PROVE  LogEntryBlocks[O(a) + 1 + j] = LogData(block[R(a)[j]].current)
    <3>1. j \in 0..Len(R(a)) /\ j # 0
      BY <2>1
    <3>2. QED
      BY <2>2, <3>1
  <2>5. QED
    BY <2>1, <2>3, <2>4
<1>9. PICK runs : runs = [a \in 0..m - 1 |-> R(a)]
  OBVIOUS
<1>10. PICK off : off = [a \in 0..m |-> O(a)]
  OBVIOUS
<1>11. \A a \in 0..m - 1 : a \in 0..m /\ a + 1 \in 0..m
  BY <1>4
<1>12. /\ runs \in [0..m - 1 -> Seq(Blocks)] /\ off \in [0..m -> Nat]
       /\ \A a \in 0..m - 1 : runs[a] = R(a)
       /\ \A a \in 0..m : off[a] = O(a)
  <2>1. \A a \in 0..m - 1 : R(a) \in Seq(Blocks)
    BY <1>1, <1>8, SeqSubset
  <2>2. QED
    BY <1>4, <1>9, <1>10, <2>1
<1>13. off[0] = 0 /\ off[m] = LogEntryLength
  <2>1. 0 \in 0..m /\ m \in 0..m
    BY <1>4
  <2>2. QED
    BY <1>4, <1>6, <1>12, <2>1
<1>14. ASSUME NEW a \in 0..m - 1
       PROVE  /\ off[a + 1] = off[a] + 1 + Len(runs[a]) /\ Len(runs[a]) > 0
              /\ LogEntryBlocks[off[a] + 1] = RunArray(runs[a])
              /\ \A j \in 1..Len(runs[a]) :
                    /\ runs[a][j] \in Logged
                    /\ LogEntryBlocks[off[a] + 1 + j] = LogData(block[runs[a][j]].current)
  <2>1. runs[a] = R(a) /\ off[a] = O(a) /\ off[a + 1] = O(a + 1)
    BY <1>11, <1>12
  <2>2. O(a + 1) = O(a) + 1 + Len(R(a))
    BY <1>4
  <2>3. QED
    BY <1>8, <2>1, <2>2
<1>15. \A a, e \in 0..m : a <= e => off[a] + (e - a) <= off[e]
  BY <1>4, <1>12
<1>16. /\ \A a, e \in 0..m - 1 : \A j \in 1..Len(runs[a]), i \in 1..Len(runs[e]) :
                runs[a][j] = runs[e][i] => a = e /\ j = i
       /\ \A b \in Logged : \E a \in 0..m - 1 : \E j \in 1..Len(runs[a]) : runs[a][j] = b
  BY <1>5, <1>12
<1>17. m \in Nat \ {0} /\ runs \in [0..m - 1 -> Seq(Blocks)] /\ off \in [0..m -> Nat]
  BY <1>4, <1>12
<1>18. Layout(m, runs, off)
  BY <1>13, <1>14, <1>15, <1>16, <1>17 DEF Layout
<1>19. QED
  BY <1>18

-----------------------------------------------------------------------------
(***************************************************************************)
(* The first invariant, about the memory: types, the client and its call,  *)
(* the transactions that have a log entry, and the writing of a log entry. *)
(***************************************************************************)
\* Where the client is while the blocks of its transaction are in the log, but still
\* in the transaction, and where it has a transaction.
Entering == {"super", "end", "flush", "add", "ending"}
Owning == {"inside", "write", "flush log", "space", "log", "failed"} \cup Entering
Kept == unwritten \/ pc \in Owning

LogBlocks == [runs : Seq(Blocks), data : Values \cup {NoData}]
Pointers == [start : 0..LogSize, end : 0..LogSize]
Entries == [id : Ids, start : 0..LogSize, length : 1..LogSize]

JournalTypes ==
    /\ log \in [0..LogSize - 1 -> LogBlocks]
    /\ super \in Pointers /\ superBlock \in Pointers
    /\ logStart \in 0..LogSize /\ logEnd \in 0..LogSize
    /\ entries \in Seq(Entries)
    /\ unwritten \in BOOLEAN /\ hasSub \in BOOLEAN /\ flaw \in BOOLEAN
    /\ pc \in {"free", "replay"} \cup Owning
    /\ hook \in {"none", "super", "start"}
    /\ at \in 0..LogSize /\ lastStart \in Int /\ stamp \in Values
    /\ pc = "log" => todo \in Seq(LogBlocks)
    /\ pc = "replay" => todo \in Seq(Blocks \X Values)

\* The calls in progress, and whether fTransactionID is that of an open transaction.
Control ==
    /\ call.op # "discard" /\ (call.op = "none" => call = NoCall)
    /\ call.op = "end" => ~Kept
    /\ call.op = "detach" => pc \in {"free", "failed"} /\ unwritten /\ id = nextId
    /\ Kept /\ call.op # "detach" => id \in Ids /\ Open(id) /\ id + 1 = nextId
    /\ pc \in (Owning \ {"failed", "space"}) \cup {"replay"} => call = NoCall
    /\ pc \in {"space", "log"} \cup Entering => Logged # {}
    /\ pc \in {"log", "super", "end", "flush", "add"} => LogEntryLength <= LogSize

\* While a mount replays the log.
Replaying ==
    pc = "replay" =>
        /\ EmptyCache /\ ~flaw /\ entries = <<>> /\ hook = "none" /\ ~unwritten
        /\ superBlock = super /\ logStart = super.start /\ logEnd = super.end
        /\ super.end = LogSize => super.start = super.end

\* The journal discards no blocks, and it reads a block before it changes it.
NoDiscards ==
    \A b \in Blocks : /\ ~block[b].discard
                      /\ block[b].transaction # NoId => block[b].original # NoData

\* The counts of a transaction with a sub transaction; what a client transaction has
\* changed holds its number.
SubOK ==
    \A i \in Ids : Open(i) /\ transaction[i].hasSub =>
        /\ Divided(Cache, i)
        /\ \A b \in InTransaction(Cache, i) :
                pc = "inside" /\ block[b].parent # Current => block[b].current = stamp

\* The transaction that is in the log and not ended yet, whether without its sub
\* transaction, and its blocks in the log.
Mover == IF pc \in Entering THEN id ELSE IF Committing(call.op) THEN call.arg ELSE NoId
Parting == IF pc \in Entering THEN Detaching ELSE call.op = "detach"
Moving == {b \in Blocks : /\ block[b].transaction # NoId /\ block[b].transaction = Mover
                          /\ Parting => block[b].parent # NoData}

InEntries(i) == \E k \in 1..Len(entries) : entries[k].id = i

\* A transaction with blocks to be written has a log entry, and the other way round;
\* it is notified once.
Waiting(c, i) == c.transaction[i].state = "closed" /\ c.transaction[i].hook
Pending(c, i) == \E k \in 1..Len(c.events) : c.events[k] = i
TrackedIn(c) ==
    /\ \A b \in Blocks : c.block[b].previous # NoId =>
                            c.transaction[c.block[b].previous].hook
    /\ \A i \in Ids : Waiting(c, i) \/ Pending(c, i) => InEntries(i)
    /\ \A k, l \in 1..Len(c.events) : c.events[k] = c.events[l] => k = l
    /\ notifying # NoId => ~Pending(c, notifying)
Tracked ==
    /\ TrackedIn(Cache)
    /\ notifying # NoId /\ hook = "none" => InEntries(notifying)
    /\ hook # "none" => notifying # NoId
    /\ \A k, l \in 1..Len(entries) : entries[k].id = entries[l].id => k = l

\* What a transaction i that ends leaves to be written; it has an entry if that is something.
Parted(c, op, i) == {b \in InTransaction(c, i) : op = "detach" => c.block[b].parent # NoData}
LeavingOK(c, op, i, listener) ==
    IF listener THEN InEntries(i) /\ Parted(c, op, i) # {}
    ELSE ~InEntries(i) /\ Parted(c, op, i) = {}

\* Why there is a log entry for transaction i.
ReasonIn(c, i) == (Waiting(c, i) /\ InPrevious(c, i) # {}) \/ Pending(c, i)
Reason(i) ==
    \/ ReasonIn(Cache, i)
    \/ notifying = i /\ hook = "none"
    \/ Mover = i /\ pc \notin {"super", "end", "flush", "add"}
Reasons ==
    /\ \A k \in 1..Len(entries) : Reason(entries[k].id)
    /\ pc = "ending" => InEntries(id)
    /\ pc \in {"super", "end", "flush", "add"} => ~InEntries(id)
    /\ Committing(call.op) => LeavingOK(Cache, call.op, call.arg, call.hook)

\* Without entries the log is empty.  The sync of _WriteTransactionToLog() leaves none.
NoPrevious == \A b \in Blocks : block[b].previous = NoId
SpaceOK ==
    /\ entries = <<>> /\ pc \notin {"flush", "add", "replay"} =>
            superBlock.start = logEnd /\ (hook = "none" => logStart = logEnd)
    /\ pc = "space" =>
        /\ Busy("background") = {}
        /\ \/ /\ call.op = "sync"
              /\ \A b \in Blocks : block[b].previous # NoId => b \in Busy("client")
           \/ call.op = "wait" /\ NoPrevious /\ events # <<>> /\ events[Len(events)] = Sync
           \/ call = NoCall /\ NoPrevious /\ events = <<>> /\ notifying = NoId

\* The part of the log entry that is in the log already, and the rest.
EntryWriting ==
    pc = "log" =>
        LET n == LogEntryLength - Len(todo) IN
        /\ n >= 0 /\ at = (logEnd + n) % LogSize
        /\ \A j \in 1..Len(todo) : todo[j] = LogEntryBlocks[n + j]
        /\ \A j \in 1..n : log[(logEnd + j - 1) % LogSize] = LogEntryBlocks[j]

Base ==
    /\ Inv1 /\ JournalTypes /\ Control /\ Replaying /\ NoDiscards /\ SubOK
    /\ Tracked /\ Reasons /\ SpaceOK /\ EntryWriting

-----------------------------------------------------------------------------
(***************************************************************************)
(* The second invariant, about the log.  All arrays ever written are       *)
(* numbered; the array k starts at pos[k], if the log was not circular,    *)
(* and belongs to the transaction chunk[k].owner.  The arrays from g.s to  *)
(* g.x are those that the superblock on the disk has in the log, those     *)
(* from g.sb to g.f those of the superblock in memory; logStart is at g.ls *)
(* and logEnd at g.e.  The entry of transaction i starts with array        *)
(* from[i].  A mount has replayed the arrays before g.r.                   *)
(***************************************************************************)
Chunks == [owner : Ids \cup {NoId}, runs : Seq(Blocks), data : Seq(Values)]
Logs == [chunk : [Nat -> Chunks], pos : [Nat -> Nat], from : [Ids -> Nat],
         ls : Nat, s : Nat, sb : Nat, e : Nat, f : Nat, x : Nat, r : Nat]

\* The same block of the log.
IsAt(p, q) == p % LogSize = q % LogSize

\* How much is used of the log, if it starts at a and ends at b; d is that.
Used(a, b) == IF a <= b THEN b - a ELSE LogSize + b - a
Span(a, b, d) == d = Used(a, b) /\ (d = 0 => a = b)

Order(g) ==
    /\ g.ls <= g.s /\ g.s <= g.sb /\ g.sb <= g.e /\ g.e <= g.f /\ g.s <= g.x
    /\ IF pc \in {"super", "end"} THEN g.e < g.f ELSE g.e = g.f
    /\ g.x = g.f \/ (pc = "super" /\ g.x = g.e)
    /\ hook = "start" => g.s = g.sb

\* The arrays follow one another; the log has room for all that are needed.
Laid(g) ==
    /\ \A k \in 0..g.f - 1 :
        /\ g.pos[k + 1] = g.pos[k] + 1 + Len(g.chunk[k].runs)
        /\ Len(g.chunk[k].data) = Len(g.chunk[k].runs) /\ Len(g.chunk[k].runs) > 0
        /\ \A i, j \in 1..Len(g.chunk[k].runs) : g.chunk[k].runs[i] = g.chunk[k].runs[j] => i = j
    /\ \A k, l \in 0..g.f : k <= l => g.pos[k] + (l - k) <= g.pos[l]
    /\ g.pos[g.f] - g.pos[g.ls] <= LogSize
    /\ pc = "log" => g.pos[g.e] - g.pos[g.ls] + LogEntryLength <= LogSize

\* They are on the disk.
Stored(g) ==
    \A k \in g.s..g.f - 1 :
        /\ log[g.pos[k] % LogSize].runs = g.chunk[k].runs
        /\ \A j \in 1..Len(g.chunk[k].runs) :
            log[(g.pos[k] + j) % LogSize].data = g.chunk[k].data[j]

\* All pointers into the log are where they should be.
Spans(g) ==
    /\ Span(logStart, logEnd, g.pos[g.e] - g.pos[g.ls])
    /\ Span(logStart, superBlock.end, g.pos[g.f] - g.pos[g.ls])
    /\ Span(superBlock.start, logEnd, g.pos[g.e] - g.pos[g.sb])
    /\ Span(superBlock.start, superBlock.end, g.pos[g.f] - g.pos[g.sb])
    /\ Span(logEnd, superBlock.end, g.pos[g.f] - g.pos[g.e])
    /\ Span(super.start, super.end, g.pos[g.x] - g.pos[g.s])
Places(g) ==
    LogSize > 0 =>
        /\ IsAt(logEnd, g.pos[g.e])
        /\ IsAt(superBlock.start, g.pos[g.sb]) /\ IsAt(superBlock.end, g.pos[g.f])
        /\ IsAt(super.start, g.pos[g.s]) /\ IsAt(super.end, g.pos[g.x])

\* The entries are in the log, in their order.
Placed(g) ==
    /\ \A k \in 1..Len(entries) : LET p == g.from[entries[k].id] IN
            g.sb <= p /\ p < g.e /\ IsAt(entries[k].start, g.pos[p])
    /\ \A k, l \in 1..Len(entries) : k < l => g.from[entries[k].id] < g.from[entries[l].id]
    /\ pc \in {"super", "end"} => g.from[id] = g.e
    /\ pc \in {"flush", "add"} =>
            /\ g.sb <= g.from[id] /\ g.from[id] < g.e /\ IsAt(at, g.pos[g.from[id]])
            /\ \A k \in 1..Len(entries) : g.from[entries[k].id] < g.from[id]

\* How far the replay is.
Replay(g) ==
    pc = "replay" =>
        /\ g.sb = g.s /\ g.ls = g.s /\ g.s <= g.r /\ g.r <= g.f
        /\ at = IF g.r = g.s THEN super.start ELSE g.pos[g.r] % LogSize
        /\ IF g.r = g.s THEN lastStart = -1
           ELSE lastStart >= 0 /\ IsAt(lastStart, g.pos[g.r - 1])
        /\ todo # <<>> =>
            LET c == g.chunk[g.r - 1]
                n == Len(c.runs) - Len(todo)
            IN /\ g.s < g.r /\ n >= 0
               /\ \A j \in 1..Len(todo) : todo[j] = <<c.runs[n + j], c.data[n + j]>>

Geometry(g) ==
    Order(g) /\ Laid(g) /\ Stored(g) /\ Spans(g) /\ Places(g) /\ Placed(g) /\ Replay(g)

JInv1 == Base /\ (~flaw => \E g \in Logs : Geometry(g))

-----------------------------------------------------------------------------
(* Positions in the circular log *)

\* A number is its remainder and a multiple of the divisor.
LEMMA Division ==
    ASSUME NEW n \in Nat \ {0}, NEW p \in Int
    PROVE  /\ p % n \in 0..n - 1 /\ p \div n \in Int
           /\ p = Start(n, p \div n) + (p % n)
<1>1. p % n \in 0..n - 1 /\ p \div n \in Int
  OBVIOUS
<1>2. p % n = p - n * (p \div n)
  OBVIOUS
<1>3. n * (p \div n) = (p \div n) * n
  BY <1>1
<1>4. QED
  BY <1>1, <1>2, <1>3 DEF Start

\* Quotient and remainder are unique, also of negative numbers.
LEMMA DivisionOnly ==
    ASSUME NEW n \in Nat \ {0}, NEW p \in Int, NEW a \in Int, NEW j \in 0..n - 1,
           p = Start(n, a) + j
    PROVE  p % n = j
<1>1. p = a * n + j
  BY DEF Start
<1>2. p \div n = a
  BY <1>1
<1>3. p % n = p - n * (p \div n)
  OBVIOUS
<1>4. n * a = a * n
  OBVIOUS
<1>5. QED
  BY <1>1, <1>2, <1>3, <1>4

\* Multiples are numbers.
LEMMA MultipleType ==
    ASSUME NEW n \in Nat, NEW a \in Int
    PROVE  Start(n, a) \in Int
BY DEF Start

\* They add up.
LEMMA Multiples ==
    ASSUME NEW n \in Nat, NEW a \in Int, NEW b \in Int, NEW c \in Int, c = a + b
    PROVE  Start(n, c) = Start(n, a) + Start(n, b)
BY DEF Start

\* Two places are the same if they differ by a multiple.
LEMMA SameRemainder ==
    ASSUME NEW n \in Nat \ {0}, NEW p \in Int, NEW q \in Int
    PROVE  p % n = q % n <=> \E a \in Int : p = q + Start(n, a)
<1> DEFINE i == p \div n
           j == q \div n
           u == p % n
           v == q % n
<1>1. /\ i \in Int /\ j \in Int /\ u \in 0..n - 1 /\ v \in 0..n - 1
      /\ p = Start(n, i) + u /\ q = Start(n, j) + v
  BY Division
<1> HIDE DEF i, j, u, v
<1>2. Start(n, i) \in Int /\ Start(n, j) \in Int
  BY <1>1, MultipleType
<1>3. ASSUME u = v PROVE \E a \in Int : p = q + Start(n, a)
  <2>1. PICK d \in Int : i = j + d
    <3>1. i = j + (i - j) /\ i - j \in Int
      BY <1>1
    <3>2. QED
      BY <3>1
  <2>2. Start(n, i) = Start(n, j) + Start(n, d) /\ Start(n, d) \in Int
    BY <1>1, <2>1, MultipleType DEF Start
  <2>3. p = q + Start(n, d)
    BY <1>1, <1>2, <1>3, <2>2
  <2>4. QED
    BY <2>3
<1>4. ASSUME NEW a \in Int, p = q + Start(n, a) PROVE u = v
  <2>1. PICK d \in Int : d = j + a
    BY <1>1
  <2>2. Start(n, a) \in Int /\ Start(n, d) = Start(n, j) + Start(n, a)
    BY <1>1, <2>1, MultipleType DEF Start
  <2>3. p = Start(n, d) + v
    BY <1>1, <1>2, <1>4, <2>2
  <2>4. p % n = v
    BY <1>1, <2>3, DivisionOnly
  <2>5. QED
    BY <2>4 DEF u
<1>5. QED
  BY <1>3, <1>4 DEF u, v

\* The same place in the log.
LEMMA AtIs ==
    ASSUME LogSize > 0, NEW p \in Int, NEW q \in Int
    PROVE  /\ IsAt(p, p) /\ (IsAt(p, q) => IsAt(q, p)) /\ IsAt(p % LogSize, p)
           /\ p % LogSize \in 0..LogSize - 1
           /\ IsAt(p + LogSize, p)
           /\ \A d \in Int : IsAt(p, q) => IsAt(p + d, q + d)
           /\ IsAt(p, q) /\ p <= q /\ q < p + LogSize => p = q
<1> DEFINE n == LogSize
<1>0. n \in Nat \ {0}
  BY JournalAssumption
<1>1. p % n \in 0..n - 1 /\ p \div n \in Int /\ p = Start(n, p \div n) + (p % n)
  BY <1>0, Division
<1>2. \A a, b \in Int : a % n = b % n <=> \E z \in Int : a = b + Start(n, z)
  BY <1>0, SameRemainder
<1>3. /\ \A a, b, c \in Int : c = a + b => Start(n, c) = Start(n, a) + Start(n, b)
      /\ \A a \in Int : Start(n, a) \in Int
  BY <1>0, Multiples, MultipleType
<1>4. Start(n, 0) = 0 /\ Start(n, 1) = n
  BY <1>0, StartIs DEF Start
<1>5. IsAt(p % n, p)
  <2> DEFINE u == p % n
             i == p \div n
  <2> HIDE DEF u, i
  <2>1. /\ u \in Int /\ i \in Int /\ p = Start(n, i) + u
    BY <1>0, <1>1 DEF u, i
  <2>2. PICK d \in Int : 0 = i + d
    <3>1. -i \in Int /\ 0 = i + (-i)
      BY <2>1
    <3>2. QED
      BY <3>1
  <2>3. Start(n, 0) = Start(n, i) + Start(n, d) /\ Start(n, i) \in Int /\ Start(n, d) \in Int
    BY <1>0, <2>1, <2>2, MultipleType DEF Start
  <2>4. u = p + Start(n, d)
    BY <1>4, <2>1, <2>3
  <2>5. u % n = p % n
    BY <1>2, <2>1, <2>2, <2>4
  <2>6. QED
    BY <2>5 DEF IsAt, u
<1>6. IsAt(p + n, p)
  <2>1. p + n = p + Start(n, 1) /\ p + n \in Int
    BY <1>0, <1>4
  <2>2. (p + n) % n = p % n
    BY <1>2, <2>1
  <2>3. QED
    BY <2>2 DEF IsAt
<1>7. ASSUME NEW d \in Int, IsAt(p, q) PROVE IsAt(p + d, q + d)
  <2>1. PICK z \in Int : p = q + Start(n, z)
    BY <1>2, <1>7 DEF IsAt
  <2>2. Start(n, z) \in Int
    BY <1>3, <2>1
  <2>3. p + d = (q + d) + Start(n, z) /\ p + d \in Int /\ q + d \in Int
    BY <2>1, <2>2
  <2>4. (p + d) % n = (q + d) % n
    BY <1>2, <2>1, <2>3
  <2>5. QED
    BY <2>4 DEF IsAt
<1>8. ASSUME IsAt(p, q), p <= q, q < p + n PROVE p = q
  <2>1. PICK z \in Int : p = q + Start(n, z)
    BY <1>2, <1>8 DEF IsAt
  <2>0. Start(n, z) \in Int
    BY <1>3
  <2>2. Start(n, z) \in Int /\ Start(n, z) <= 0 /\ Start(n, z) > -n
    BY <1>0, <1>8, <2>0, <2>1
  <2>3. ~(z >= 1)
    <3>1. SUFFICES ASSUME z >= 1 PROVE FALSE
      OBVIOUS
    <3>2. z - 1 \in Nat /\ z = 1 + (z - 1)
      BY <3>1
    <3>3. Start(n, z) = Start(n, 1) + Start(n, z - 1)
      BY <1>3, <3>2
    <3>4. Start(n, z - 1) >= 0
      BY <1>0, <3>2, StartIs
    <3>5. Start(n, z - 1) \in Int
      BY <1>3, <3>2
    <3>6. QED
      BY <1>0, <1>4, <2>2, <3>3, <3>4, <3>5
  <2>4. ~(z <= -1)
    <3>1. SUFFICES ASSUME z <= -1 PROVE FALSE
      OBVIOUS
    <3>2. -1 - z \in Nat /\ 0 = (1 + z) + (-1 - z) /\ 1 + z \in Int
      BY <3>1
    <3>3. Start(n, 0) = Start(n, 1 + z) + Start(n, -1 - z)
      BY <1>3, <3>2
    <3>4. Start(n, 1 + z) = Start(n, 1) + Start(n, z)
      BY <1>3, <3>2
    <3>5. Start(n, -1 - z) >= 0
      BY <1>0, <3>2, StartIs
    <3>6. Start(n, -1 - z) \in Int
      BY <1>3, <3>2
    <3>7. QED
      BY <1>0, <1>4, <2>2, <3>3, <3>4, <3>5, <3>6
  <2>5. z = 0
    BY <2>1, <2>3, <2>4
  <2>6. QED
    BY <1>4, <2>1, <2>5
<1>9. IsAt(p, p) /\ (IsAt(p, q) => IsAt(q, p))
  BY DEF IsAt
<1>10. QED
  BY <1>1, <1>5, <1>6, <1>7, <1>8, <1>9

\* Going on from the same place.
LEMMA AtPlus ==
    ASSUME LogSize > 0, NEW p \in Int, NEW q \in Int, IsAt(p, q),
           NEW u \in Int, NEW v \in Int, u - p = v - q
    PROVE  IsAt(u, v)
<1>1. PICK d \in Int : d = u - p
  OBVIOUS
<1>2. u = p + d /\ v = q + d
  BY <1>1
<1>3. IsAt(p + d, q + d)
  BY AtIs
<1>4. QED
  BY <1>2, <1>3

\* How much is used of the log.
LEMMA UsedIs ==
    ASSUME NEW a \in 0..LogSize, NEW b \in 0..LogSize
    PROVE  /\ Used(a, b) \in 0..LogSize
           /\ a <= b => Used(a, b) = b - a
           /\ a > b => Used(a, b) = LogSize + b - a
BY JournalAssumption DEF Used

\* Two pointers are apart as the positions they stand for.
LEMMA SpanOf ==
    ASSUME LogSize > 0, NEW a \in 0..LogSize, NEW b \in 0..LogSize,
           NEW p \in Int, NEW q \in Int, p < q, q < p + LogSize, IsAt(a, p), IsAt(b, q)
    PROVE  Span(a, b, q - p)
<1>0. LogSize \in Nat \ {0}
  BY JournalAssumption
<1>1. PICK d \in Int : d = q - p
  OBVIOUS
<1>2. PICK c \in Int : c = a + d
  BY <1>1
<1>3. IsAt(c, q)
  <2>1. a \in Int /\ c \in Int /\ c - a = q - p
    BY <1>0, <1>1, <1>2
  <2>2. QED
    BY <2>1, AtPlus, SMTT(30)
<1>4. IsAt(b, c) /\ IsAt(c, b)
  BY <1>3 DEF IsAt
<1>5. CASE c <= b
  <2>1. b < c + LogSize
    BY <1>0, <1>1, <1>2
  <2>2. c = b
    BY <1>0, <1>2, <1>4, <1>5, <2>1, AtIs
  <2>3. QED
    BY <1>0, <1>1, <1>2, <2>2 DEF Span, Used
<1>6. CASE b < c
  <2>1. CASE c < b + LogSize
    <3>1. b = c
      BY <1>0, <1>2, <1>4, <1>6, <2>1, AtIs
    <3>2. QED
      BY <1>6, <3>1
  <2>2. CASE b + LogSize <= c
    <3>1. PICK e \in Int : e = b + LogSize
      BY <1>0
    <3>2. IsAt(b + LogSize, b)
      BY <1>0, AtIs
    <3>3. IsAt(e, c)
      BY <1>4, <3>1, <3>2 DEF IsAt
    <3>4. e <= c /\ c < e + LogSize
      BY <1>0, <1>1, <1>2, <2>2, <3>1
    <3>5. e = c
      BY <1>0, <1>2, <3>3, <3>4, AtIs
    <3>6. b < a /\ d = LogSize + b - a /\ d > 0
      BY <1>0, <1>1, <1>2, <3>1, <3>5
    <3>7. QED
      BY <1>0, <1>1, <3>6 DEF Span, Used
  <2>3. QED
    BY <1>0, <1>2, <2>1, <2>2
<1>7. QED
  BY <1>2, <1>5, <1>6

\* The end of an entry.
LEMMA EndIs ==
    ASSUME NEW p \in 0..LogSize, NEW l \in 1..LogSize
    PROVE  /\ EndOf(p, l) \in 1..LogSize
           /\ EndOf(p, l) = IF p + l <= LogSize THEN p + l ELSE p + l - LogSize
           /\ IsAt(EndOf(p, l), p + l)
<1>0. LogSize \in Nat \ {0}
  BY JournalAssumption
<1>1. PICK m \in Int : m = p + l - 1
  BY <1>0
<1>2. EndOf(p, l) = (m % LogSize) + 1 /\ m % LogSize \in 0..LogSize - 1
  BY <1>0, <1>1 DEF EndOf
<1>3. EndOf(p, l) \in 1..LogSize
  BY <1>0, <1>2
<1>4. IsAt(m % LogSize, m)
  BY <1>0, AtIs
<1>5. PICK u \in 0..LogSize - 1 : u = m % LogSize
  BY <1>2
<1>6. EndOf(p, l) = IF p + l <= LogSize THEN p + l ELSE p + l - LogSize
  <2>1. CASE p + l <= LogSize
    <3>1. (u <= m /\ m < u + LogSize) \/ (m <= u /\ u < m + LogSize)
      BY <1>0, <1>1, <1>5, <2>1
    <3>2. IsAt(u, m) /\ IsAt(m, u)
      BY <1>4, <1>5 DEF IsAt
    <3>3. u = m
      <4>1. LogSize > 0 /\ u \in Int /\ m \in Int
        BY <1>0
      <4>2. CASE u <= m /\ m < u + LogSize
        BY <3>2, <4>1, <4>2, AtIs
      <4>3. CASE m <= u /\ u < m + LogSize
        BY <3>2, <4>1, <4>3, AtIs
      <4>4. QED
        BY <3>1, <4>2, <4>3
    <3>4. QED
      BY <1>0, <1>1, <1>2, <1>5, <2>1, <3>3
  <2>2. CASE p + l > LogSize
    <3>1. PICK w \in Int : w = m - LogSize
      BY <1>0
    <3>2. IsAt(w + LogSize, w)
      BY <1>0, AtIs
    <3>3. w + LogSize = m
      BY <1>0, <3>1
    <3>4. IsAt(u, w) /\ IsAt(w, u)
      BY <1>4, <1>5, <3>2, <3>3 DEF IsAt
    <3>5. (u <= w /\ w < u + LogSize) \/ (w <= u /\ u < w + LogSize)
      BY <1>0, <1>1, <1>5, <2>2, <3>1
    <3>6. u = w
      <4>1. LogSize > 0 /\ u \in Int /\ w \in Int
        BY <1>0
      <4>2. CASE u <= w /\ w < u + LogSize
        BY <3>4, <4>1, <4>2, AtIs
      <4>3. CASE w <= u /\ u < w + LogSize
        BY <3>4, <4>1, <4>3, AtIs
      <4>4. QED
        BY <3>5, <4>2, <4>3
    <3>7. QED
      BY <1>0, <1>1, <1>2, <1>5, <2>2, <3>1, <3>6
  <2>3. QED
    BY <1>0, <2>1, <2>2
<1>7. IsAt(EndOf(p, l), p + l)
  <2>1. IsAt((m % LogSize) + 1, m + 1)
    BY <1>0, <1>2, <1>4, AtIs
  <2>2. m + 1 = p + l
    BY <1>0, <1>1
  <2>3. QED
    BY <1>2, <2>1, <2>2
<1>8. QED
  BY <1>3, <1>6, <1>7

\* An entry that is added extends what is used, unless the log looks empty then.
LEMMA SpanGrows ==
    ASSUME NEW a \in 0..LogSize, NEW p \in 0..LogSize, NEW l \in 1..LogSize, NEW d \in Int,
           Span(a, p, d), d + l <= LogSize, EndOf(p, l) # a
    PROVE  Span(a, EndOf(p, l), d + l)
<1>0. LogSize \in Nat \ {0}
  BY JournalAssumption
<1>1. PICK c \in 1..LogSize : c = EndOf(p, l)
  BY EndIs
<1>2. c = IF p + l <= LogSize THEN p + l ELSE p + l - LogSize
  BY <1>1, EndIs
<1>3. d = IF a <= p THEN p - a ELSE LogSize + p - a
  BY DEF Span, Used
<1>4. c # a
  BY <1>1
<1>5. d + l = (IF a <= c THEN c - a ELSE LogSize + c - a) /\ d + l > 0
  BY <1>0, <1>2, <1>3, <1>4
<1>6. QED
  BY <1>1, <1>5 DEF Span, Used

\* The entry itself.
LEMMA SpanEntry ==
    ASSUME NEW p \in 0..LogSize, NEW l \in 1..LogSize, EndOf(p, l) # p
    PROVE  Span(p, EndOf(p, l), l)
<1>0. LogSize \in Nat \ {0}
  BY JournalAssumption
<1>1. PICK c \in 1..LogSize : c = EndOf(p, l)
  BY EndIs
<1>2. c = IF p + l <= LogSize THEN p + l ELSE p + l - LogSize
  BY <1>1, EndIs
<1>3. l = IF p <= c THEN c - p ELSE LogSize + c - p
  BY <1>0, <1>1, <1>2
<1>4. QED
  BY <1>1, <1>3 DEF Span, Used

\* Nothing is used from a place to itself.
LEMMA SpanNone ==
    ASSUME NEW a \in 0..LogSize
    PROVE  Span(a, a, 0)
BY JournalAssumption DEF Span, Used

\* Where there is enough space for an entry.
LEMMA FreeIs ==
    ASSUME logStart \in 0..LogSize, logEnd \in 0..LogSize
    PROVE  /\ FreeLogBlocks = LogSize - Used(logStart, logEnd)
           /\ FreeLogBlocks \in 0..LogSize
BY JournalAssumption DEF FreeLogBlocks, Used

-----------------------------------------------------------------------------
(* The blocks of the log entry, by their number *)

\* Which array a place of the log entry is in, and where.
LEMMA PlaceOf ==
    ASSUME NEW n, NEW w, NEW m, NEW S, NEW seq, Cut(n, w, m, S, seq), NEW k \in 1..n + m,
           NEW a, NEW j, a = (k - 1) \div (w + 1), j = (k - 1) % (w + 1)
    PROVE  a \in 0..m - 1 /\ j \in 0..Len(Piece(seq, n, w, a))
<1>0. n \in Nat \ {0} /\ w \in Nat \ {0} /\ m = ArraysFor(n, w)
  BY DEF Cut
<1>1. m \in Nat \ {0} /\ n <= Start(w, m)
  BY <1>0, ArraysCover
<1>2. PICK v \in Nat \ {0} : v = w + 1
  <2>1. w + 1 \in Nat \ {0}
    BY <1>0
  <2>2. QED
    BY <2>1
<1>3. PICK q \in Nat : q = k - 1
  <2>1. k - 1 \in Nat
    BY <1>0, <1>1
  <2>2. QED
    BY <2>1
<1>4. a \in Nat /\ j \in 0..v - 1 /\ q = Start(v, a) + j
  <2>1. a = q \div v /\ j = q % v
    BY <1>2, <1>3
  <2>2. QED
    BY <2>1, StartDiv
<1>5. q < n + m
  BY <1>0, <1>1, <1>3
<1>6. a < m
  <2>1. SUFFICES ASSUME m <= a PROVE FALSE
    BY <1>1, <1>4
  <2>2. Start(v, m) <= Start(v, a) /\ Start(v, m) \in Nat /\ Start(v, a) \in Nat
    BY <1>1, <1>2, <1>4, <2>1, StartIs
  <2>3. Start(w + 1, m) = Start(w, m) + m /\ Start(w, m) \in Nat
    BY <1>0, <1>1, StartIs
  <2>4. Start(v, m) = Start(w, m) + m
    BY <1>2, <2>3
  <2>5. QED
    BY <1>0, <1>1, <1>2, <1>4, <1>5, <2>2, <2>3, <2>4
<1>7. a \in 0..m - 1
  BY <1>1, <1>4, <1>6
<1> DEFINE l == Len(Piece(seq, n, w, a))
<1>8. l \in 1..w /\ (a < m - 1 => l = w)
  BY <1>7, PieceIs
<1>9. Follow(n, w, m, seq)
  BY OffsetIs
<1>10. /\ Offset(n, w, a + 1) = Offset(n, w, a) + 1 + l
       /\ Offset(n, w, a) = Start(w + 1, a) /\ Offset(n, w, m) = n + m
  BY <1>7, <1>9 DEF Follow
<1> HIDE DEF l
<1>11. CASE a < m - 1
  BY <1>0, <1>2, <1>4, <1>7, <1>8, <1>11 DEF l
<1>12. CASE a = m - 1
  <2>1. a + 1 = m
    BY <1>1, <1>12
  <2>2. n + m = Start(v, a) + 1 + l
    BY <1>2, <1>10, <2>1
  <2>3. Start(v, a) \in Nat
    BY <1>2, <1>4, StartIs
  <2>4. j <= l
    BY <1>0, <1>1, <1>2, <1>4, <1>5, <1>8, <2>2, <2>3
  <2>5. QED
    BY <1>0, <1>2, <1>4, <1>7, <1>8, <2>4 DEF l
<1>13. QED
  BY <1>1, <1>7, <1>11, <1>12

\* Where the place k is.
Array(k) == Piece(ChangedBlocks, Cardinality(Logged), ArrayRuns, (k - 1) \div (ArrayRuns + 1))
Place(k) == (k - 1) % (ArrayRuns + 1)

\* The blocks of the log entry are such blocks.
LEMMA EntryBlocks ==
    ASSUME Logged # {}, NEW k \in 1..LogEntryLength
    PROVE  /\ LogEntryBlocks[k] = IF Place(k) = 0 THEN RunArray(Array(k))
                                  ELSE LogData(block[Array(k)[Place(k)]].current)
           /\ Array(k) \in Seq(Blocks)
           /\ Place(k) # 0 => Array(k)[Place(k)] \in Logged
<1> DEFINE n == Cardinality(Logged)
           w == ArrayRuns
           m == ArraysFor(n, w)
           a == (k - 1) \div (w + 1)
           j == Place(k)
<1>1. Cut(n, w, m, Logged, ChangedBlocks) /\ Logged \in SUBSET Blocks
  <2>1. /\ Logged \in SUBSET Blocks /\ Cardinality(Logged) \in Nat \ {0}
        /\ IsFiniteSet(Logged) /\ ArrayRuns \in Nat \ {0}
    BY EntryLength, FiniteBlocks, JournalAssumption
  <2>2. /\ [b \in Logged |-> b] \in [Logged -> Nat]
        /\ \A i, l \in Logged : [b \in Logged |-> b][i] = [b \in Logged |-> b][l] => i = l
    BY <2>1, BlockCacheAssumption
  <2>3. PICK key \in [Logged -> Nat] :
            key = [b \in Logged |-> b] /\ \A i, l \in Logged : key[i] = key[l] => i = l
    BY <2>2
  <2>4. ChangedBlocks = InOrder(Logged, key)
    BY <2>3 DEF ChangedBlocks
  <2>5. Lists(InOrder(Logged, key), Logged)
    BY <2>1, <2>3, InOrderIs
  <2>6. ChangedBlocks \in [1..n -> Logged]
    BY <2>4, <2>5 DEF Lists
  <2>7. QED
    BY <2>1, <2>6 DEF Cut
<1>2. LogEntryLength = n + m
  BY DEF LogEntryLength
<1>3. /\ LogEntryBlocks[k] = IF j = 0 THEN RunArray(Array(k))
                             ELSE LogData(block[Array(k)[j]].current)
  BY DEF LogEntryBlocks, Array, Piece, Place
<1>4. a \in 0..m - 1 /\ j \in 0..Len(Array(k)) /\ Array(k) = Piece(ChangedBlocks, n, w, a)
  <2> HIDE DEF n, m
  <2>1. a \in 0..m - 1 /\ j \in 0..Len(Piece(ChangedBlocks, n, w, a))
    BY <1>1, <1>2, PlaceOf DEF Place
  <2>2. Array(k) = Piece(ChangedBlocks, n, w, a)
    BY DEF Array, n
  <2>3. QED
    BY <2>1, <2>2
<1> HIDE DEF n, m, w, a, j
<1>5. Array(k) \in Seq(Logged)
  BY <1>1, <1>4, PieceIs
<1>6. Array(k) \in Seq(Blocks)
  BY <1>1, <1>5, SeqSubset
<1>7. j # 0 => Array(k)[j] \in Logged
  BY <1>4, <1>5
<1>8. QED
  BY <1>3, <1>6, <1>7 DEF j

-----------------------------------------------------------------------------
(***************************************************************************)
(* Quiet steps: the writers, and what else does not touch the open         *)
(* transaction and its blocks, but for their waiting for earlier ones.     *)
(***************************************************************************)
SameBlock(r, s) ==
    /\ s.transaction = r.transaction /\ s.parent = r.parent /\ s.current = r.current
    /\ s.discard = r.discard /\ s.cached = r.cached
    /\ r.transaction # NoId => s.original = r.original
    /\ s.previous = r.previous \/ s.previous = NoId

SameOpen ==
    \A i \in Ids :
        /\ Open(i)' <=> Open(i)
        /\ Open(i) => /\ transaction'[i].num = transaction[i].num
                      /\ transaction'[i].main = transaction[i].main
                      /\ transaction'[i].sub = transaction[i].sub
                      /\ transaction'[i].hasSub = transaction[i].hasSub

Quiet == nextId' = nextId /\ SameOpen /\ \A b \in Blocks : SameBlock(block[b], block'[b])

\* A step that leaves blocks and transactions alone is quiet.
LEMMA QuietSame ==
    ASSUME UNCHANGED <<block, transaction, nextId>>
    PROVE  Quiet
BY DEF Quiet, SameOpen, SameBlock, Open

\* So is _BlockDone() of blocks that have been written.
LEMMA QuietDone ==
    ASSUME Inv1, NEW S \in SUBSET Blocks, NEW d, d = BlocksDone(Cache, S),
           block' = d.block, transaction' = d.transaction, nextId' = nextId
    PROVE  Quiet /\ \A b \in Blocks : block'[b] = IF b \in S THEN Done(block[b]) ELSE block[b]
<1>1. CacheOK(Cache, nextId) /\ Cache.block = block /\ Cache.transaction = transaction
  BY InvParts
<1>2. \A b \in Blocks : block'[b] = IF b \in S THEN Done(block[b]) ELSE block[b]
  BY <1>1, BlocksDoneParts
<1>3. \A b \in Blocks : SameBlock(block[b], block'[b])
  <2>1. TAKE b \in Blocks
  <2>2. block[b] \in BlockType
    BY InvParts
  <2>3. CASE b \in S
    <3>1. block'[b] = Done(block[b])
      BY <1>2, <2>3
    <3>2. QED
      BY <2>2, <3>1, DoneType DEF SameBlock
  <2>4. CASE b \notin S
    BY <1>2, <2>4 DEF SameBlock
  <2>5. QED
    BY <2>3, <2>4
<1>4. SameOpen
  <2>1. SUFFICES ASSUME NEW i \in Ids
                 PROVE  /\ Open(i)' <=> Open(i)
                        /\ Open(i) => /\ transaction'[i].num = transaction[i].num
                                      /\ transaction'[i].main = transaction[i].main
                                      /\ transaction'[i].sub = transaction[i].sub
                                      /\ transaction'[i].hasSub = transaction[i].hasSub
    BY DEF SameOpen
  <2>2. TransactionDone(Cache, d, S, i)
    BY <1>1, BlocksDoneParts
  <2>3. transaction[i] \in TransactionType
    BY InvParts
  <2>4. Open(i) => Cardinality(InPrevious(Cache, i) \cap S) = 0
    <3>1. InPrevious(Cache, i) # {} => transaction[i].state = "closed"
      BY <1>1, PointsTo
    <3>2. Open(i) => InPrevious(Cache, i) \cap S = {}
      BY <3>1 DEF Open
    <3>3. QED
      BY <3>2, FS_EmptySet
  <2>5. transaction[i].num \in Int
    BY <2>3 DEF TransactionType
  <2>6. QED
    BY <1>1, <2>2, <2>4, <2>5 DEF TransactionDone, SameButNum, IsGone, Open
<1>5. QED
  BY <1>2, <1>3, <1>4 DEF Quiet

\* The blocks of an open transaction stay its blocks.
LEMMA QuietBlocks ==
    ASSUME Quiet, NEW i \in Ids
    PROVE  /\ InTransaction(Cache, i)' = InTransaction(Cache, i)
           /\ SubPart(Cache, i)' = SubPart(Cache, i) /\ MainPart(Cache, i)' = MainPart(Cache, i)
           /\ Discarded(Cache, i)' = Discarded(Cache, i)
BY DEF Quiet, SameBlock, Cache, InTransaction, SubPart, MainPart, Discarded

\* What goes to the log stays the same.
SameEntry ==
    /\ Logged' = Logged /\ LogEntryLength' = LogEntryLength /\ (Detaching' <=> Detaching)
    /\ Logged # {} => \A k \in 1..LogEntryLength : LogEntryBlocks'[k] = LogEntryBlocks[k]

\* It does.
LEMMA QuietEntry ==
    ASSUME Quiet, id \in Ids, Open(id), id' = id
    PROVE  SameEntry
<1>1. transaction'[id].num = transaction[id].num
  BY DEF Quiet, SameOpen
<1>2. Detaching' <=> Detaching
  BY <1>1 DEF Detaching, TransactionSize, Size
<1>3. InTransaction(Cache, id)' = InTransaction(Cache, id)
  <2>1. InTransaction(Cache, id)' = InTransaction(Cache', id)
    BY DEF InTransaction
  <2>2. QED
    BY <2>1, QuietBlocks
<1>4. InTransaction(Cache, id) \in SUBSET Blocks
  BY DEF InTransaction
<1>5. Logged' = Logged
  BY <1>2, <1>3, <1>4 DEF Logged, Quiet, SameBlock
<1>6. ChangedBlocks' = ChangedBlocks /\ LogEntryLength' = LogEntryLength
  BY <1>5 DEF ChangedBlocks, LogEntryLength
<1>7. Logged \in SUBSET Blocks
  BY <1>4 DEF Logged
<1>8. ASSUME Logged # {}, NEW k \in 1..LogEntryLength
      PROVE  LogEntryBlocks'[k] = LogEntryBlocks[k]
  <2>1. /\ LogEntryBlocks[k] = IF Place(k) = 0 THEN RunArray(Array(k))
                               ELSE LogData(block[Array(k)[Place(k)]].current)
        /\ Place(k) # 0 => Array(k)[Place(k)] \in Logged
    BY <1>8, EntryBlocks
  <2>2. Array(k)' = Array(k)
    BY <1>5, <1>6 DEF Array
  <2>3. LogEntryBlocks'[k] = IF Place(k) = 0 THEN RunArray(Array(k)')
                             ELSE LogData(block'[Array(k)'[Place(k)]].current)
    BY <1>6 DEF LogEntryBlocks, Array, Piece, Place
  <2>4. Place(k) # 0 => block'[Array(k)[Place(k)]].current = block[Array(k)[Place(k)]].current
    BY <1>7, <2>1 DEF Quiet, SameBlock
  <2>5. QED
    BY <2>1, <2>2, <2>3, <2>4
<1>9. QED
  BY <1>2, <1>5, <1>6, <1>8 DEF SameEntry

\* The log entry is a sequence of log blocks.
LEMMA EntryType ==
    ASSUME Inv1, Logged # {}
    PROVE  /\ LogEntryBlocks \in Seq(LogBlocks) /\ Len(LogEntryBlocks) = LogEntryLength
           /\ LogEntryLength \in Nat \ {0, 1}
           /\ \A k \in 1..LogEntryLength : LogEntryBlocks[k] \in LogBlocks
<1>1. LogEntryLength \in Nat \ {0, 1} /\ Logged \in SUBSET Blocks
  BY EntryLength
<1>2. ASSUME NEW k \in 1..LogEntryLength PROVE LogEntryBlocks[k] \in LogBlocks
  <2>1. CASE Place(k) = 0
    <3>1. LogEntryBlocks[k] = RunArray(Array(k)) /\ Array(k) \in Seq(Blocks)
      BY <2>1, EntryBlocks
    <3>2. QED
      BY <3>1 DEF LogBlocks, RunArray
  <2>2. CASE Place(k) # 0
    <3>1. PICK b \in Logged : LogEntryBlocks[k] = LogData(block[b].current)
      BY <2>2, EntryBlocks
    <3>2. block[b].current \in Values \cup {NoData}
      BY <1>1, InvParts DEF BlockType
    <3>3. QED
      BY <3>1, <3>2 DEF LogBlocks, LogData
  <2>3. QED
    BY <2>1, <2>2
<1>3. LogEntryBlocks = [k \in 1..LogEntryLength |-> LogEntryBlocks[k]]
  BY DEF LogEntryBlocks
<1>4. LogEntryBlocks \in [1..LogEntryLength -> LogBlocks]
  BY <1>2, <1>3
<1>5. QED
  BY <1>1, <1>2, <1>4

\* How the call may go on during a quiet step.
CallFrame ==
    \/ call' = call
    \/ call.op \in {"sync", "wait"} /\ (call' = NoCall \/ call'.op = "wait")

\* Where the client has a transaction while no call is in progress, or a sync.
LEMMA OpenHere ==
    ASSUME Control, pc \in {"space", "log"} \cup Entering
    PROVE  id \in Ids /\ Open(id) /\ id + 1 = nextId /\ Logged # {} /\ ~Committing(call.op)
BY DEF Control, Kept, Owning, Entering, Committing, NoCall

\* A quiet step keeps the control, and what the log entry is.
LEMMA QuietControl ==
    ASSUME Control, Quiet, CallFrame, UNCHANGED <<id, pc, unwritten>>
    PROVE  /\ Control'
           /\ pc \in {"space", "log"} \cup Entering => SameEntry
<1>1. ASSUME pc \in {"space", "log"} \cup Entering PROVE SameEntry
  BY <1>1, OpenHere, QuietEntry
<1>2. NoCall.op = "none"
  BY DEF NoCall
<1>3. Kept' <=> Kept
  BY DEF Kept
<1>4. Kept /\ call.op # "detach" => id \in Ids /\ Open(id)' /\ id + 1 = nextId'
  BY DEF Control, Quiet, SameOpen
<1>5. call'.op # "discard" /\ (call'.op = "none" => call' = NoCall)
  BY <1>2 DEF Control, CallFrame
<1>6. /\ call'.op = "end" => ~Kept
      /\ call'.op = "detach" => pc \in {"free", "failed"} /\ unwritten /\ id = nextId'
      /\ Kept /\ call'.op # "detach" => call.op # "detach"
  BY <1>2 DEF Control, CallFrame, Quiet
<1>7. pc \in (Owning \ {"failed", "space"}) \cup {"replay"} => call' = NoCall
  BY <1>2 DEF Control, CallFrame
<1>8. pc \in {"space", "log"} \cup Entering => Logged' # {}
  BY <1>1 DEF SameEntry, Control
<1>9. pc \in {"log", "super", "end", "flush", "add"} => LogEntryLength' <= LogSize
  BY <1>1 DEF SameEntry, Control, Entering
<1>10. QED
  BY <1>1, <1>3, <1>4, <1>5, <1>6, <1>7, <1>8, <1>9 DEF Control

\* It keeps what is known about the blocks of open transactions.
LEMMA QuietOpen ==
    ASSUME Inv1, NoDiscards, SubOK, Quiet, UNCHANGED <<pc, stamp>>
    PROVE  NoDiscards' /\ SubOK'
<1>1. \A b \in Blocks : SameBlock(block[b], block'[b])
  BY DEF Quiet
<1>2. NoDiscards'
  BY <1>1 DEF NoDiscards, SameBlock
<1>3. ASSUME NEW i \in Ids, Open(i)', transaction'[i].hasSub
      PROVE  /\ Divided(Cache, i)'
             /\ \A b \in InTransaction(Cache, i)' :
                   pc' = "inside" /\ block'[b].parent # Current => block'[b].current = stamp'
  <2>1. /\ Open(i) /\ transaction[i].hasSub
        /\ transaction'[i].sub = transaction[i].sub /\ transaction'[i].main = transaction[i].main
    BY <1>3 DEF Quiet, SameOpen
  <2>2. /\ Divided(Cache, i)
        /\ \A b \in InTransaction(Cache, i) :
              pc = "inside" /\ block[b].parent # Current => block[b].current = stamp
    BY <2>1 DEF SubOK
  <2>3. /\ InTransaction(Cache, i)' = InTransaction(Cache, i)
        /\ SubPart(Cache, i)' = SubPart(Cache, i) /\ MainPart(Cache, i)' = MainPart(Cache, i)
        /\ Discarded(Cache, i)' = Discarded(Cache, i)
    BY QuietBlocks
  <2>4. \A b \in InTransaction(Cache, i) : b \in Blocks /\ block[b].transaction # NoId
    BY DEF InTransaction, Cache
  <2>5. \A b \in InTransaction(Cache, i) : DividedBlock(block'[b])
    BY <1>1, <2>2, <2>4 DEF Divided, DividedBlock, SameBlock, Cache
  <2>6. Divided(Cache, i)'
    BY <2>1, <2>2, <2>3, <2>5 DEF Divided, Cache
  <2>7. QED
    BY <1>1, <2>2, <2>3, <2>4, <2>6 DEF SameBlock
<1>4. QED
  BY <1>2, <1>3 DEF SubOK

\* It keeps the part of the log entry that is in the log.
LEMMA QuietWriting ==
    ASSUME EntryWriting, pc = "log" => SameEntry /\ Logged # {},
           UNCHANGED <<pc, log, logEnd, todo, at>>, pc = "log" => todo \in Seq(LogBlocks)
    PROVE  EntryWriting'
<1>1. SUFFICES ASSUME pc = "log" PROVE EntryWriting'
  BY DEF EntryWriting
<1>2. LogEntryLength \in Nat /\ Len(todo) \in Nat
  BY <1>1, EntryLength
<1>3. /\ LogEntryLength' = LogEntryLength
      /\ \A k \in 1..LogEntryLength : LogEntryBlocks'[k] = LogEntryBlocks[k]
  BY <1>1 DEF SameEntry
<1> DEFINE n == LogEntryLength - Len(todo)
<1>4. /\ n >= 0 /\ at = (logEnd + n) % LogSize
      /\ \A j \in 1..Len(todo) : todo[j] = LogEntryBlocks[n + j]
      /\ \A j \in 1..n : log[(logEnd + j - 1) % LogSize] = LogEntryBlocks[j]
  BY <1>1 DEF EntryWriting
<1>5. (\A j \in 1..Len(todo) : n + j \in 1..LogEntryLength) /\ \A j \in 1..n : j \in 1..LogEntryLength
  BY <1>2, <1>4
<1>6. /\ \A j \in 1..Len(todo) : todo[j] = LogEntryBlocks'[n + j]
      /\ \A j \in 1..n : log[(logEnd + j - 1) % LogSize] = LogEntryBlocks'[j]
  BY <1>3, <1>4, <1>5
<1>7. QED
  BY <1>1, <1>3, <1>4, <1>6 DEF EntryWriting

\* The blocks of the transaction that is in the log stay so.
LEMMA QuietMoving ==
    ASSUME Control, Quiet, CallFrame, UNCHANGED <<id, pc, unwritten>>
    PROVE  Mover' = Mover /\ (Parting' <=> Parting) /\ Moving' = Moving
<1>1. NoCall.op = "none"
  BY DEF NoCall
<1>2. (Committing(call.op) <=> Committing(call'.op)) /\ (Committing(call.op) => call' = call)
  BY <1>1 DEF Committing, CallFrame
<1>3. Mover' = Mover
  BY <1>2 DEF Mover
<1>4. Parting' <=> Parting
  <2>1. CASE pc \in Entering
    BY <2>1, QuietControl DEF SameEntry, Parting
  <2>2. CASE pc \notin Entering
    BY <1>1, <2>2 DEF Parting, CallFrame
  <2>3. QED
    BY <2>1, <2>2
<1>5. QED
  BY <1>3, <1>4 DEF Moving, Quiet, SameBlock

-----------------------------------------------------------------------------
(* The transactions that have a log entry *)

\* During a replay the cache is empty, and nothing of it is going on.
LEMMA NotReplaying ==
    ASSUME Replaying,
           \/ \E w \in Writers : toWrite[w] # {} \/ written[w] # {}
           \/ events # <<>>
           \/ notifying # NoId
           \/ call # NoCall
           \/ \E b \in Blocks : block[b].previous # NoId
    PROVE  pc # "replay"
BY DEF Replaying, EmptyCache, Absent, NewBlock

\* The events after _BlockDone(): the same, and the transactions that are written with it.
LEMMA EventsDone ==
    ASSUME Inv1, NEW S \in SUBSET Blocks, NEW d, d = BlocksDone(Cache, S)
    PROVE  /\ \A i : Pending(d, i) <=> Pending(Cache, i) \/ i \in Hooked(Cache, S)
           /\ (\A k, l \in 1..Len(events) : events[k] = events[l] => k = l) =>
                \A k, l \in 1..Len(d.events) : d.events[k] = d.events[l] => k = l
           /\ \A i \in Hooked(Cache, S) : i \in Ids /\ Waiting(Cache, i) /\ ~Pending(Cache, i)
<1>1. CacheOK(Cache, nextId) /\ Cache.events = events /\ events \in Seq(Ids \cup {Sync})
  BY InvParts
<1>2. PICK q : Lists(q, Hooked(Cache, S)) /\ d.events = Cache.events \o q
  <2>1. Notifies(Cache, d, S)
    BY <1>1, DoneEvents
  <2>2. QED
    BY <2>1 DEF Notifies
<1> DEFINE H == Hooked(Cache, S)
           n == Cardinality(H)
           m == Len(events)
<1>3. \A i \in H : i \in Ids /\ Waiting(Cache, i) /\ ~Pending(Cache, i)
  <2>1. TAKE i \in H
  <2>2. i \in Ids /\ Cache.transaction[i].state = "closed" /\ Cache.transaction[i].hook
    BY <1>1, FinishingIs DEF Hooked, Finishing
  <2>3. ~Pending(Cache, i)
    BY <1>1, <2>2, CacheParts DEF Transactions, Pending
  <2>4. QED
    BY <2>2, <2>3 DEF Waiting
<1> HIDE DEF H
<1>4. /\ n \in Nat /\ q \in [1..n -> H]
      /\ \A k, l \in 1..n : q[k] = q[l] => k = l
      /\ \A i \in H : \E k \in 1..n : q[k] = i
  BY <1>2 DEF Lists, H
<1> HIDE DEF n
<1>5. q \in Seq(H) /\ Len(q) = n
  BY <1>4
<1>6. m \in Nat /\ d.events = events \o q
  BY <1>1, <1>2
<1>7. PICK e \in Seq(Ids \cup {Sync} \cup H) : e = events /\ e \in Seq(Ids \cup {Sync})
  BY <1>1
<1>8. PICK r \in Seq(Ids \cup {Sync} \cup H) : r = q
  BY <1>5
<1>9. /\ Len(d.events) = m + n
      /\ \A k \in 1..m : d.events[k] = events[k]
      /\ \A k \in 1..n : d.events[m + k] = q[k]
  <2>1. /\ Len(e \o r) = Len(e) + Len(r)
        /\ \A k \in 1..Len(e) : (e \o r)[k] = e[k]
        /\ \A k \in 1..Len(r) : (e \o r)[Len(e) + k] = r[k]
    OBVIOUS
  <2>2. d.events = e \o r /\ Len(e) = m /\ Len(r) = n
    BY <1>5, <1>6, <1>7, <1>8
  <2>3. QED
    BY <1>7, <1>8, <2>1, <2>2
<1>10. \A k \in 1..m + n : k \in 1..m \/ \E l \in 1..n : k = m + l
  <2>1. TAKE k \in 1..m + n
  <2>2. k \in 1..m \/ k - m \in 1..n
    BY <1>4, <1>6
  <2>3. CASE k - m \in 1..n
    <3>1. PICK l \in 1..n : l = k - m
      BY <2>3
    <3>2. QED
      BY <1>6, <3>1
  <2>4. QED
    BY <2>2, <2>3
<1>11. \A l \in 1..n : m + l \in 1..m + n
  BY <1>4, <1>6
<1>12. \A i : Pending(d, i) <=> Pending(Cache, i) \/ i \in H
  <2>1. TAKE i
  <2>2. ASSUME Pending(d, i) PROVE Pending(Cache, i) \/ i \in H
    <3>1. PICK k \in 1..m + n : d.events[k] = i
      BY <1>9, <2>2 DEF Pending
    <3>2. CASE k \in 1..m
      BY <1>1, <1>9, <3>1, <3>2 DEF Pending
    <3>3. CASE \E l \in 1..n : k = m + l
      <4>1. PICK l \in 1..n : k = m + l
        BY <3>3
      <4>2. d.events[m + l] = q[l] /\ q[l] \in H
        BY <1>4, <1>9
      <4>3. QED
        BY <3>1, <4>1, <4>2
    <3>4. QED
      BY <1>10, <3>2, <3>3
  <2>3. ASSUME Pending(Cache, i) PROVE Pending(d, i)
    <3>1. PICK k \in 1..m : events[k] = i
      BY <1>1, <2>3 DEF Pending
    <3>2. k \in 1..Len(d.events) /\ d.events[k] = i
      BY <1>4, <1>6, <1>9, <3>1
    <3>3. QED
      BY <3>2 DEF Pending
  <2>4. ASSUME i \in H PROVE Pending(d, i)
    <3>1. PICK l \in 1..n : q[l] = i
      BY <1>4, <2>4
    <3>2. PICK k \in 1..Len(d.events) : k = m + l
      BY <1>9, <1>11
    <3>3. QED
      BY <1>9, <3>1, <3>2 DEF Pending
  <2>5. QED
    BY <2>2, <2>3, <2>4
<1>13. ASSUME \A k, l \in 1..Len(events) : events[k] = events[l] => k = l,
              NEW k \in 1..Len(d.events), NEW l \in 1..Len(d.events), d.events[k] = d.events[l]
       PROVE  k = l
  <2>1. \A i \in 1..m, j \in 1..n : events[i] # q[j]
    BY <1>1, <1>3, <1>4 DEF Pending
  <2>2. k \in 1..m \/ \E i \in 1..n : k = m + i
    BY <1>9, <1>10
  <2>3. l \in 1..m \/ \E i \in 1..n : l = m + i
    BY <1>9, <1>10
  <2>4. CASE k \in 1..m /\ l \in 1..m
    BY <1>9, <1>13, <2>4
  <2>5. CASE k \in 1..m /\ \E i \in 1..n : l = m + i
    BY <1>9, <1>13, <2>1, <2>5
  <2>6. CASE (\E i \in 1..n : k = m + i) /\ l \in 1..m
    BY <1>9, <1>13, <2>1, <2>6
  <2>7. CASE (\E i \in 1..n : k = m + i) /\ \E i \in 1..n : l = m + i
    <3>1. PICK i \in 1..n, j \in 1..n : k = m + i /\ l = m + j
      BY <2>7
    <3>2. d.events[k] = q[i] /\ d.events[l] = q[j]
      BY <1>9, <3>1
    <3>3. QED
      BY <1>4, <1>13, <3>1, <3>2
  <2>8. QED
    BY <2>2, <2>3, <2>4, <2>5, <2>6, <2>7
<1>14. QED
  BY <1>3, <1>12, <1>13 DEF H

\* _BlockDone() keeps that a transaction has an entry as long as there is a reason.
LEMMA TrackedDone ==
    ASSUME Inv1, TrackedIn(Cache), NEW S \in SUBSET Blocks, NEW d, d = BlocksDone(Cache, S)
    PROVE  /\ TrackedIn(d)
           /\ \A i \in Ids : ReasonIn(Cache, i) => ReasonIn(d, i)
<1>1. CacheOK(Cache, nextId) /\ Notified
  BY InvParts DEF Inv1
<1>2. /\ \A i : Pending(d, i) <=> Pending(Cache, i) \/ i \in Hooked(Cache, S)
      /\ (\A k, l \in 1..Len(events) : events[k] = events[l] => k = l) =>
            \A k, l \in 1..Len(d.events) : d.events[k] = d.events[l] => k = l
      /\ \A i \in Hooked(Cache, S) : i \in Ids /\ Waiting(Cache, i) /\ ~Pending(Cache, i)
  BY EventsDone
<1>3. /\ \A b \in Blocks : d.block[b] = IF b \in S THEN Done(Cache.block[b]) ELSE Cache.block[b]
      /\ \A i \in Ids : TransactionDone(Cache, d, S, i)
  BY <1>1, BlocksDoneParts
<1>4. \A b \in Blocks : Cache.block[b] \in BlockType
  BY <1>1, CacheParts
<1>5. Cache.events = events /\ Cache.transaction = transaction
  BY InvParts
<1>6. ASSUME NEW b \in Blocks, d.block[b].previous # NoId
      PROVE  d.transaction[d.block[b].previous].hook
  <2>1. b \notin S
    BY <1>3, <1>4, <1>6, DoneType
  <2>2. d.block[b] = Cache.block[b]
    BY <1>3, <2>1
  <2>3. PICK p \in Ids : p = Cache.block[b].previous
    BY <1>4, <1>6, <2>2 DEF BlockType
  <2>4. Cache.transaction[p].hook
    BY <1>6, <2>2, <2>3 DEF TrackedIn
  <2>5. b \in InPrevious(Cache, p)
    BY <2>3 DEF InPrevious
  <2>6. SameButNum(d.transaction[p], Cache.transaction[p])
    BY <1>3, <2>1, <2>5 DEF TransactionDone
  <2>7. QED
    BY <2>2, <2>3, <2>4, <2>6 DEF SameButNum
<1>7. ASSUME NEW i \in Ids, Waiting(d, i) PROVE Waiting(Cache, i)
  BY <1>3, <1>7 DEF TransactionDone, Waiting, SameButNum, IsGone
<1>8. \A i \in Ids : Waiting(d, i) \/ Pending(d, i) => InEntries(i)
  BY <1>2, <1>7 DEF TrackedIn
<1>9. \A k, l \in 1..Len(d.events) : d.events[k] = d.events[l] => k = l
  BY <1>2, <1>5 DEF TrackedIn
<1>10. notifying # NoId => ~Pending(d, notifying)
  BY <1>1, <1>2, <1>5 DEF TrackedIn, Notified, Waiting
<1>11. TrackedIn(d)
  BY <1>6, <1>8, <1>9, <1>10 DEF TrackedIn
<1>12. ASSUME NEW i \in Ids, ReasonIn(Cache, i) PROVE ReasonIn(d, i)
  <2>1. CASE Pending(Cache, i)
    BY <1>2, <2>1 DEF ReasonIn
  <2>2. CASE Waiting(Cache, i) /\ InPrevious(Cache, i) # {}
    <3>1. CASE InPrevious(Cache, i) \subseteq S
      <4>1. i \in Hooked(Cache, S)
        BY <1>1, <2>2, <3>1, FinishingIs DEF Hooked, Waiting
      <4>2. QED
        BY <1>2, <4>1 DEF ReasonIn
    <3>2. CASE ~(InPrevious(Cache, i) \subseteq S)
      <4>1. PICK b \in Blocks : b \notin S /\ Cache.block[b].previous = i
        BY <3>2 DEF InPrevious
      <4>2. b \in InPrevious(d, i)
        BY <1>3, <4>1 DEF InPrevious
      <4>3. SameButNum(d.transaction[i], Cache.transaction[i])
        BY <1>3, <3>2 DEF TransactionDone
      <4>4. QED
        BY <2>2, <4>2, <4>3 DEF ReasonIn, Waiting, SameButNum
    <3>3. QED
      BY <3>1, <3>2
  <2>3. QED
    BY <1>12, <2>1, <2>2 DEF ReasonIn
<1>13. QED
  BY <1>11, <1>12

-----------------------------------------------------------------------------
(* The first invariant, without the log: the writers and the hook *)

\* The parts of Base that a quiet step keeps for itself.
LEMMA QuietBase ==
    ASSUME Base, Inv1', Quiet, CallFrame, pc # "replay",
           UNCHANGED <<log, logEnd, unwritten, hasSub, id, pc, todo, at, lastStart, stamp>>,
           JournalTypes', Tracked', Reasons', SpaceOK'
    PROVE  Base'
<1>1. /\ Inv1 /\ JournalTypes /\ Control /\ NoDiscards /\ SubOK /\ EntryWriting
  BY DEF Base
<1>2. Control' /\ (pc \in {"space", "log"} \cup Entering => SameEntry)
  BY <1>1, QuietControl
<1>3. NoDiscards' /\ SubOK'
  BY <1>1, QuietOpen
<1>4. pc = "log" => SameEntry /\ Logged # {} /\ todo \in Seq(LogBlocks)
  BY <1>1, <1>2 DEF Control, JournalTypes
<1>5. EntryWriting'
  BY <1>1, <1>4, QuietWriting
<1>6. Replaying'
  BY DEF Replaying
<1>7. QED
  BY <1>2, <1>3, <1>5, <1>6 DEF Base

\* What a step leaves alone.
JournalSame == UNCHANGED journalVars

\* It leaves the types alone, if it is one of the cache.
LEMMA TypesSame ==
    ASSUME JournalTypes, JournalSame
    PROVE  JournalTypes'
BY DEF JournalTypes, JournalSame, journalVars

\* The entries have these parts.
LEMMA EntryTypes ==
    ASSUME NEW q \in Seq(Entries)
    PROVE  /\ Len(q) \in Nat
           /\ \A k \in 1..Len(q) : /\ q[k] \in Entries /\ q[k].id \in Ids
                                   /\ q[k].start \in 0..LogSize /\ q[k].length \in 1..LogSize
<1>1. Len(q) \in Nat /\ \A k \in 1..Len(q) : q[k] \in Entries
  OBVIOUS
<1>2. QED
  BY <1>1 DEF Entries

\* The reasons for entries of the log stay, if those in the cache do.
LEMMA ReasonsStay ==
    ASSUME Inv1, JournalTypes, Reasons, Control, Quiet, CallFrame,
           UNCHANGED <<id, pc, unwritten, entries>>,
           \A i \in Ids : ReasonIn(Cache, i) \/ (notifying = i /\ hook = "none") =>
                ReasonIn(Cache, i)' \/ (notifying' = i /\ hook' = "none")
    PROVE  Reasons'
<1>1. Mover' = Mover
  BY QuietMoving
<1>2. entries \in Seq(Entries)
  BY DEF JournalTypes
<1>3. \A i \in Ids : Reason(i) => Reason(i)'
  <2>1. pc' = pc
    OBVIOUS
  <2>2. ASSUME NEW i \in Ids, Reason(i) PROVE Reason(i)'
    <3>1. CASE Mover = i /\ pc \notin {"super", "end", "flush", "add"}
      BY <1>1, <2>1, <3>1 DEF Reason
    <3>2. CASE ReasonIn(Cache, i) \/ (notifying = i /\ hook = "none")
      <4>1. ReasonIn(Cache, i)' \/ (notifying' = i /\ hook' = "none")
        BY <3>2
      <4>2. QED
        BY <2>1, <4>1 DEF Reason
    <3>3. QED
      BY <2>2, <3>1, <3>2 DEF Reason
  <2>3. QED
    BY <2>2
<1>4. \A k \in 1..Len(entries) : entries[k].id \in Ids
  BY <1>2, EntryTypes
<1>5. \A k \in 1..Len(entries)' : Reason(entries[k].id)'
  BY <1>3, <1>4 DEF Reasons
<1>6. InEntries(id)' <=> InEntries(id)
  BY DEF InEntries
<1>7. NoCall.op = "none"
  BY DEF NoCall
<1>8. ASSUME Committing(call.op)'
      PROVE  LeavingOK(Cache, call.op, call.arg, call.hook)'
  <2>1. Committing(call.op) /\ call' = call
    BY <1>7, <1>8 DEF CallFrame, Committing
  <2>2. LeavingOK(Cache, call.op, call.arg, call.hook)
    BY <2>1 DEF Reasons
  <2>3. call.arg \in Ids
    BY <2>1 DEF Inv1, CallOK, Closing
  <2>4. \A b \in Blocks : /\ block'[b].transaction = block[b].transaction
                          /\ block'[b].parent = block[b].parent
    BY DEF Quiet, SameBlock
  <2>5. Parted(Cache, call.op, call.arg)' = Parted(Cache, call.op, call.arg)
    BY <2>1, <2>4 DEF Parted, InTransaction, Cache
  <2>6. InEntries(call.arg)' <=> InEntries(call.arg)
    BY <2>1 DEF InEntries
  <2>7. QED
    BY <2>1, <2>2, <2>5, <2>6 DEF LeavingOK
<1>9. QED
  BY <1>5, <1>6, <1>8 DEF Reasons

\* Both, if the cache stays the same, except for what is being written.
LEMMA TrackedSame ==
    ASSUME Base, UNCHANGED <<block, transaction, events, notifying, call>>, Quiet,
           UNCHANGED <<id, pc, unwritten, entries, hook>>
    PROVE  Tracked' /\ Reasons'
<1>1. Cache' = Cache
  BY DEF Cache
<1>2. Tracked'
  <2>1. TrackedIn(Cache)' <=> TrackedIn(Cache)
    BY DEF TrackedIn, Waiting, Pending, InEntries, Cache
  <2>2. InEntries(notifying)' <=> InEntries(notifying)
    BY DEF InEntries
  <2>3. QED
    BY <2>1, <2>2 DEF Base, Tracked
<1>3. \A i \in Ids : ReasonIn(Cache, i)' <=> ReasonIn(Cache, i)
  BY DEF ReasonIn, Waiting, Pending, InPrevious, Cache
<1>4. CallFrame
  BY DEF CallFrame
<1>5. Reasons'
  BY <1>3, <1>4, ReasonsStay DEF Base
<1>6. QED
  BY <1>2, <1>5

\* The space, if nothing of it changes.
LEMMA SpaceSame ==
    ASSUME SpaceOK, UNCHANGED <<entries, pc, superBlock, logEnd, logStart, hook>>,
           pc # "space"
    PROVE  SpaceOK'
BY DEF SpaceOK

\* A block is written.
LEMMA WriteBlockBase ==
    ASSUME Base, NEW w \in {"client", "background"}, WriteBlock(w), JournalSame
    PROVE  Base'
<1> w \in Writers
  BY DEF Writers
<1>1. Inv1'
  BY WriteBlockInv1 DEF Base
<1>2. /\ UNCHANGED <<block, transaction, nextId, events, notifying, call>>
      /\ toWrite[w] # {}
  BY DEF WriteBlock
<1>3. Quiet
  BY <1>2, QuietSame
<1>4. CallFrame
  BY <1>2 DEF CallFrame
<1>5. pc # "replay"
  BY <1>2, NotReplaying DEF Base
<1>6. /\ UNCHANGED <<log, logEnd, unwritten, hasSub, id, pc, todo, at, lastStart, stamp>>
      /\ UNCHANGED <<entries, hook, superBlock, logStart>>
  BY DEF JournalSame, journalVars
<1>7. JournalTypes'
  BY TypesSame DEF Base
<1>8. Tracked' /\ Reasons'
  BY <1>2, <1>3, <1>6, TrackedSame
<1>9. SpaceOK'
  <2>1. CASE pc = "space"
    <3>1. w = "client"
      BY <1>2, <2>1 DEF Base, SpaceOK, Busy, Writers
    <3>2. \A v \in Writers : Busy(v)' = Busy(v)
      <4>1. toWrite \in [Writers -> SUBSET Blocks] /\ written \in [Writers -> SUBSET Blocks]
        BY DEF Base, Inv1, Types, OtherTypes
      <4>2. PICK x \in toWrite[w] : x = Min(toWrite[w])
        <5>1. toWrite[w] \in SUBSET Nat /\ toWrite[w] # {}
          BY <1>2, <4>1, BlockCacheAssumption
        <5>2. QED
          BY <5>1, MinIn
      <4>3. /\ toWrite' = [toWrite EXCEPT ![w] = toWrite[w] \ {x}]
            /\ written' = [written EXCEPT ![w] = written[w] \cup {x}]
        BY <4>2 DEF WriteBlock
      <4>4. QED
        BY <4>1, <4>2, <4>3 DEF Busy
    <3>3. "client" \in Writers /\ "background" \in Writers
      BY DEF Writers
    <3>4. QED
      BY <1>2, <1>6, <2>1, <3>2, <3>3 DEF Base, SpaceOK, NoPrevious
  <2>2. CASE pc # "space"
    BY <1>6, <2>2, SpaceSame DEF Base
  <2>3. QED
    BY <2>1, <2>2
<1>10. QED
  BY <1>1, <1>3, <1>4, <1>5, <1>6, <1>7, <1>8, <1>9, QuietBase

\* The background writer takes blocks.
LEMMA BackgroundTakesBase ==
    ASSUME Base, BackgroundTakes, JournalSame
    PROVE  Base'
<1>1. Inv1'
  BY BackgroundTakesInv1 DEF Base
<1>2. /\ UNCHANGED <<block, transaction, nextId, events, notifying, call>>
      /\ \E b \in Blocks : block[b].previous # NoId /\ b \notin BusyWriting
  BY DEF BackgroundTakes, CanBeWritten
<1>3. Quiet
  BY <1>2, QuietSame
<1>4. CallFrame
  BY <1>2 DEF CallFrame
<1>5. pc # "replay"
  BY <1>2, NotReplaying DEF Base
<1>6. /\ UNCHANGED <<log, logEnd, unwritten, hasSub, id, pc, todo, at, lastStart, stamp>>
      /\ UNCHANGED <<entries, hook, superBlock, logStart>>
  BY DEF JournalSame, journalVars
<1>7. JournalTypes'
  BY TypesSame DEF Base
<1>8. Tracked' /\ Reasons'
  BY <1>2, <1>3, <1>6, TrackedSame
<1>9. pc # "space"
  BY <1>2 DEF Base, SpaceOK, BusyWriting, NoPrevious
<1>10. SpaceOK'
  BY <1>6, <1>9, SpaceSame DEF Base
<1>11. QED
  BY <1>1, <1>3, <1>4, <1>5, <1>6, <1>7, <1>8, <1>10, QuietBase

\* It has written them.
LEMMA BackgroundWrittenBase ==
    ASSUME Base, BackgroundWritten, JournalSame
    PROVE  Base'
<1> DEFINE S == written["background"]
<1>1. Inv1' /\ Inv1
  BY BackgroundWrittenInv1 DEF Base
<1>2. /\ S # {} /\ S \in SUBSET Blocks
      /\ UNCHANGED <<nextId, call, notifying>>
  BY <1>1 DEF BackgroundWritten, WriteEnds, Inv1, Types, OtherTypes, Writers
<1>3. PICK d : d = BlocksDone(Cache, S)
  OBVIOUS
<1> HIDE DEF S
<1>4. block' = d.block /\ transaction' = d.transaction /\ events' = d.events
  BY <1>3 DEF BackgroundWritten, Becomes, S
<1>5. Quiet
  BY <1>1, <1>2, <1>3, <1>4, QuietDone
<1>6. CallFrame
  BY <1>2 DEF CallFrame
<1>7. pc # "replay" /\ pc # "space"
  <2>1. "background" \in Writers /\ S # {}
    BY <1>2 DEF Writers
  <2>2. pc # "replay"
    BY <2>1, NotReplaying DEF Base, S
  <2>3. pc # "space"
    BY <2>1 DEF Base, SpaceOK, Busy, S
  <2>4. QED
    BY <2>2, <2>3
<1>8. /\ UNCHANGED <<log, logEnd, unwritten, hasSub, id, pc, todo, at, lastStart, stamp>>
      /\ UNCHANGED <<entries, hook, superBlock, logStart>>
  BY DEF JournalSame, journalVars
<1>9. JournalTypes'
  BY TypesSame DEF Base
<1>10. TrackedIn(d) /\ \A i \in Ids : ReasonIn(Cache, i) => ReasonIn(d, i)
  BY <1>1, <1>2, <1>3, TrackedDone DEF Base, Tracked
<1>11. Tracked'
  <2>1. TrackedIn(Cache)'
    BY <1>2, <1>4, <1>8, <1>10 DEF TrackedIn, Waiting, Pending, InEntries, Cache
  <2>2. InEntries(notifying)' <=> InEntries(notifying)
    BY <1>2, <1>8 DEF InEntries
  <2>3. QED
    BY <1>2, <1>8, <2>1, <2>2 DEF Base, Tracked
<1>12. \A i \in Ids : ReasonIn(Cache, i)' <=> ReasonIn(d, i)
  BY <1>4 DEF ReasonIn, Waiting, Pending, InPrevious, Cache
<1>13. Reasons'
  <2>1. JournalTypes /\ Reasons /\ Control
    BY DEF Base
  <2>2. \A i \in Ids : ReasonIn(Cache, i) \/ (notifying = i /\ hook = "none") =>
                       ReasonIn(Cache, i)' \/ (notifying' = i /\ hook = "none")
    BY <1>2, <1>10, <1>12
  <2>3. QED
    BY <1>1, <1>5, <1>6, <1>8, <2>1, <2>2, ReasonsStay
<1>14. SpaceOK'
  BY <1>7, <1>8, SpaceSame DEF Base
<1>15. QED
  BY <1>1, <1>5, <1>6, <1>7, <1>8, <1>9, <1>11, <1>13, <1>14, QuietBase

\* An event is taken.
LEMMA TakeEventBase ==
    ASSUME Base, TakeEvent, JournalSame
    PROVE  Base'
<1>1. Inv1' /\ Inv1
  BY TakeEventInv1 DEF Base
<1>2. /\ events # <<>> /\ notifying = NoId /\ events' = Tail(events)
      /\ UNCHANGED <<block, transaction, nextId, toWrite, written>>
      /\ \/ Head(events) = Sync /\ call' = NoCall /\ notifying' = notifying
         \/ Head(events) # Sync /\ notifying' = Head(events) /\ call' = call
  BY DEF TakeEvent
<1>3. Quiet
  BY <1>2, QuietSame
<1>4. events \in Seq(Ids \cup {Sync})
  BY <1>1, InvParts
<1>5. PICK n \in Nat \ {0} : n = Len(events)
  BY <1>2, <1>4, TailEntries
<1>6. /\ Len(events') = n - 1 /\ \A k \in 1..n - 1 : events'[k] = events[k + 1]
      /\ Head(events) = events[1] /\ Head(events) \in Ids \cup {Sync}
      /\ events' = <<>> <=> n = 1
  <2>1. /\ Tail(events) \in Seq(Ids \cup {Sync}) /\ Len(Tail(events)) = n - 1
        /\ \A k \in 1..n - 1 : Tail(events)[k] = events[k + 1]
        /\ Head(events) = events[1] /\ Head(events) \in Ids \cup {Sync}
    BY <1>2, <1>4, <1>5, TailEntries
  <2>2. PICK e \in Seq(Ids \cup {Sync}) : e = Tail(events)
    BY <2>1
  <2>3. e = <<>> <=> Len(e) = 0
    OBVIOUS
  <2>4. QED
    BY <1>2, <2>1, <2>2, <2>3
<1>7. SyncOK /\ Tracked /\ TrackedIn(Cache)
  BY <1>1 DEF Base, Tracked, Inv1
<1>8. Head(events) = Sync => call.op = "wait"
  BY <1>5, <1>6, <1>7 DEF SyncOK
<1>9. CallFrame
  BY <1>2, <1>8 DEF CallFrame
<1>10. pc # "replay"
  BY <1>2, NotReplaying DEF Base
<1>11. /\ UNCHANGED <<log, logEnd, unwritten, hasSub, id, pc, todo, at, lastStart, stamp>>
       /\ UNCHANGED <<entries, hook, superBlock, logStart>>
  BY DEF JournalSame, journalVars
<1>12. JournalTypes'
  BY TypesSame DEF Base
<1>13. \A k, l \in 1..n : events[k] = events[l] => k = l
  BY <1>5, <1>7 DEF TrackedIn, Cache
<1>14. \A i : Pending(Cache', i) <=> Pending(Cache, i) /\ i # Head(events)
  <2>1. TAKE i
  <2>2. ASSUME Pending(Cache', i) PROVE Pending(Cache, i) /\ i # Head(events)
    <3>1. PICK k \in 1..n - 1 : events'[k] = i
      BY <1>6, <2>2 DEF Pending, Cache
    <3>2. PICK l \in 1..n : l = k + 1
      BY <1>5
    <3>3. events[l] = i /\ l # 1
      BY <1>6, <3>1, <3>2
    <3>4. QED
      BY <1>5, <1>6, <1>13, <3>3 DEF Pending, Cache
  <2>3. ASSUME Pending(Cache, i), i # Head(events) PROVE Pending(Cache', i)
    <3>1. PICK l \in 1..n : events[l] = i
      BY <1>5, <2>3 DEF Pending, Cache
    <3>2. PICK k \in 1..n - 1 : l = k + 1
      <4>1. l - 1 \in 1..n - 1 /\ l = (l - 1) + 1
        BY <1>5, <1>6, <2>3, <3>1
      <4>2. QED
        BY <4>1
    <3>3. QED
      BY <1>6, <3>1, <3>2 DEF Pending, Cache
  <2>4. QED
    BY <2>2, <2>3
<1>15. Tracked'
  <2>1. \A k, l \in 1..Len(events') : events'[k] = events'[l] => k = l
    BY <1>6, <1>13
  <2>2. \A b \in Blocks : block'[b].previous # NoId => transaction'[block'[b].previous].hook
    BY <1>2, <1>7 DEF TrackedIn, Cache
  <2>3. \A i \in Ids : Waiting(Cache', i) \/ Pending(Cache', i) => InEntries(i)'
    <3>1. \A i \in Ids : Waiting(Cache', i) => Waiting(Cache, i)
      BY <1>2 DEF Waiting, Cache
    <3>2. \A i \in Ids : InEntries(i)' <=> InEntries(i)
      BY <1>11 DEF InEntries
    <3>3. QED
      BY <1>7, <1>14, <3>1, <3>2 DEF TrackedIn
  <2>4. notifying' # NoId => ~Pending(Cache', notifying')
    BY <1>2, <1>14
  <2>5. TrackedIn(Cache)'
    BY <2>1, <2>2, <2>3, <2>4 DEF TrackedIn, Waiting, Pending, Cache
  <2>6. notifying' # NoId /\ hook' = "none" => InEntries(notifying)'
    <3>1. CASE Head(events) = Sync
      BY <1>2, <3>1
    <3>2. CASE Head(events) # Sync
      <4>1. Head(events) \in Ids /\ Pending(Cache, Head(events))
        BY <1>5, <1>6, <3>2 DEF Pending, Cache
      <4>2. InEntries(Head(events))
        BY <1>7, <4>1 DEF TrackedIn
      <4>3. QED
        BY <1>2, <1>11, <3>2, <4>2 DEF InEntries
    <3>3. QED
      BY <3>1, <3>2
  <2>7. QED
    BY <1>2, <1>7, <1>11, <2>5, <2>6 DEF Tracked
<1>16. Reasons'
  <2>1. JournalTypes /\ Reasons /\ Control
    BY DEF Base
  <2>2. hook = "none"
    BY <1>2, <1>7 DEF Tracked, JournalTypes
  <2>3. ASSUME NEW i \in Ids, ReasonIn(Cache, i) \/ (notifying = i /\ hook = "none")
        PROVE  ReasonIn(Cache, i)' \/ (notifying' = i /\ hook = "none")
    <3>1. ReasonIn(Cache, i)
      BY <1>2, <2>3
    <3>2. CASE Waiting(Cache, i) /\ InPrevious(Cache, i) # {}
      BY <1>2, <3>2 DEF ReasonIn, Waiting, InPrevious, Cache
    <3>3. CASE Pending(Cache, i)
      <4>1. CASE i = Head(events)
        BY <1>2, <2>2, <4>1
      <4>2. CASE i # Head(events)
        <5>1. Pending(Cache', i)
          BY <1>14, <3>3, <4>2
        <5>2. QED
          BY <5>1 DEF ReasonIn, Pending, Cache
      <4>3. QED
        BY <4>1, <4>2
    <3>4. QED
      BY <3>1, <3>2, <3>3 DEF ReasonIn
  <2>4. QED
    BY <1>1, <1>3, <1>9, <1>11, <2>1, <2>3, ReasonsStay
<1>17. SpaceOK'
  <2>1. CASE pc = "space"
    <3>1. /\ Busy("background") = {}
          /\ \/ /\ call.op = "sync"
                /\ \A b \in Blocks : block[b].previous # NoId => b \in Busy("client")
             \/ call.op = "wait" /\ NoPrevious /\ events # <<>> /\ events[Len(events)] = Sync
             \/ call = NoCall /\ NoPrevious /\ events = <<>> /\ notifying = NoId
      BY <2>1 DEF Base, SpaceOK
    <3>2. Busy("background")' = Busy("background") /\ Busy("client")' = Busy("client")
      BY <1>2 DEF Busy
    <3>3. NoPrevious' <=> NoPrevious
      BY <1>2 DEF NoPrevious
    <3>4. CASE call.op = "sync"
      BY <1>2, <1>8, <1>11, <3>1, <3>2, <3>4 DEF SpaceOK, Base
    <3>5. CASE call.op = "wait"
      <4>1. NoPrevious /\ events[n] = Sync
        BY <1>5, <3>1, <3>5 DEF NoCall
      <4>2. CASE Head(events) = Sync
        <5>1. n = 1
          BY <1>5, <1>6, <1>13, <4>1, <4>2
        <5>2. QED
          BY <1>2, <1>6, <1>11, <3>1, <3>2, <3>3, <4>1, <4>2, <5>1 DEF SpaceOK, Base
      <4>3. CASE Head(events) # Sync
        <5>1. n # 1
          BY <1>6, <4>1, <4>3
        <5>2. events' # <<>> /\ events'[Len(events')] = Sync
          BY <1>5, <1>6, <4>1, <5>1
        <5>3. QED
          BY <1>2, <1>11, <3>1, <3>2, <3>3, <3>5, <4>1, <4>3, <5>2 DEF SpaceOK, Base
      <4>4. QED
        BY <4>2, <4>3
    <3>6. QED
      BY <1>2, <3>1, <3>4, <3>5
  <2>2. CASE pc # "space"
    BY <1>11, <2>2, SpaceSame DEF Base
  <2>3. QED
    BY <2>1, <2>2
<1>18. QED
  BY <1>1, <1>3, <1>9, <1>10, <1>11, <1>12, <1>15, <1>16, <1>17, QuietBase

\* A sequence without one of its elements.
Shorter(S, q, k, r) ==
    /\ r \in Seq(S) /\ Len(q) \in Nat \ {0} /\ Len(r) = Len(q) - 1
    /\ \A j \in 1..Len(q) - 1 : r[j] = IF j < k THEN q[j] ELSE q[j + 1]
    /\ r = <<>> <=> Len(q) = 1

\* RemoveAt() is that.
LEMMA RemoveAtIs ==
    ASSUME NEW S, NEW q \in Seq(S), NEW k \in 1..Len(q), NEW r, r = RemoveAt(q, k)
    PROVE  Shorter(S, q, k, r)
<1>1. Len(q) \in Nat \ {0} /\ k \in Nat \ {0} /\ k <= Len(q)
  OBVIOUS
<1>2. PICK u \in Seq(S) : u = SubSeq(q, 1, k - 1)
  <2>1. PICK u : u = SubSeq(q, 1, k - 1)
    OBVIOUS
  <2>2. u \in Seq(S)
    BY <1>1, <2>1
  <2>3. QED
    BY <2>1, <2>2
<1>3. Len(u) = k - 1 /\ \A j \in 1..k - 1 : u[j] = q[j]
  BY <1>1, <1>2
<1>4. PICK v \in Seq(S) : v = SubSeq(q, k + 1, Len(q))
  <2>1. PICK v : v = SubSeq(q, k + 1, Len(q))
    OBVIOUS
  <2>2. v \in Seq(S)
    BY <1>1, <2>1
  <2>3. QED
    BY <2>1, <2>2
<1>5. Len(v) = Len(q) - k /\ \A j \in 1..Len(q) - k : v[j] = q[k + j]
  BY <1>1, <1>4
<1>6. r = u \o v
  BY <1>2, <1>4 DEF RemoveAt
<1>7. /\ Len(u \o v) = Len(u) + Len(v) /\ u \o v \in Seq(S)
      /\ \A j \in 1..Len(u) : (u \o v)[j] = u[j]
      /\ \A j \in 1..Len(v) : (u \o v)[Len(u) + j] = v[j]
  OBVIOUS
<1>8. r \in Seq(S) /\ Len(r) = Len(q) - 1
  BY <1>1, <1>3, <1>5, <1>6, <1>7
<1>9. ASSUME NEW j \in 1..Len(q) - 1 PROVE r[j] = IF j < k THEN q[j] ELSE q[j + 1]
  <2>1. CASE j < k
    BY <1>1, <1>3, <1>6, <1>7, <2>1
  <2>2. CASE ~(j < k)
    <3>1. PICK i \in 1..Len(q) - k : j = (k - 1) + i
      <4>1. j - (k - 1) \in 1..Len(q) - k /\ j = (k - 1) + (j - (k - 1))
        BY <1>1, <2>2
      <4>2. QED
        BY <4>1
    <3>2. r[(k - 1) + i] = v[i] /\ v[i] = q[k + i]
      BY <1>3, <1>5, <1>6, <1>7
    <3>3. k + i = j + 1
      BY <1>1, <3>1
    <3>4. QED
      BY <2>2, <3>1, <3>2, <3>3
  <2>3. QED
    BY <2>1, <2>2
<1>10. r = <<>> <=> Len(r) = 0
  <2>1. \A x \in Seq(S) : x = <<>> <=> Len(x) = 0
    OBVIOUS
  <2>2. QED
    BY <1>8, <2>1
<1>11. r = <<>> <=> Len(q) = 1
  BY <1>1, <1>8, <1>10
<1>12. QED
  BY <1>1, <1>8, <1>9, <1>11 DEF Shorter

\* Which entry _TransactionWritten() removes, and what is left.
Removed(k) ==
    /\ k \in 1..Len(entries) /\ entries[k].id = notifying
    /\ k = CHOOSE i \in 1..Len(entries) : entries[i].id = notifying
    /\ entries' \in Seq(Entries) /\ entries' = RemoveAt(entries, k)
    /\ Len(entries) \in Nat \ {0} /\ Len(entries') = Len(entries) - 1
    /\ \A j \in 1..Len(entries) - 1 :
            entries'[j] = IF j < k THEN entries[j] ELSE entries[j + 1]
    /\ (entries' = <<>>) <=> (Len(entries) = 1)
    /\ \A i \in Ids : InEntries(i)' <=> InEntries(i) /\ i # notifying
    /\ \A j, l \in 1..Len(entries') : entries'[j].id = entries'[l].id => j = l
    /\ \A j \in 1..Len(entries') : \E l \in 1..Len(entries) :
            entries'[j] = entries[l] /\ entries[l].id # notifying

\* There is one.
LEMMA RemovedIs ==
    ASSUME JournalTypes, Tracked, EntryWritten
    PROVE  \E k : Removed(k)
<1> DEFINE P(i) == i \in 1..Len(entries) /\ entries[i].id = notifying
           k == CHOOSE i \in 1..Len(entries) : entries[i].id = notifying
<1>1. \E i \in 1..Len(entries) : entries[i].id = notifying
  BY DEF EntryWritten, Tracked, InEntries
<1>2. k \in 1..Len(entries) /\ entries[k].id = notifying
  BY <1>1
<1>3. entries' = RemoveAt(entries, k)
  BY DEF EntryWritten
<1> HIDE DEF k
<1>4. entries \in Seq(Entries)
  BY DEF JournalTypes
<1>5. PICK n \in Nat \ {0} : n = Len(entries)
  <2>1. Len(entries) \in Nat
    BY <1>4
  <2>2. QED
    BY <1>2, <2>1
<1>6. PICK r : r = entries'
  OBVIOUS
<1>7. /\ r \in Seq(Entries) /\ Len(r) = n - 1
      /\ \A j \in 1..n - 1 : r[j] = IF j < k THEN entries[j] ELSE entries[j + 1]
      /\ r = <<>> <=> n = 1
  <2>1. r = RemoveAt(entries, k)
    BY <1>3, <1>6
  <2>2. /\ r \in Seq(Entries) /\ Len(r) = Len(entries) - 1
        /\ \A j \in 1..Len(entries) - 1 : r[j] = IF j < k THEN entries[j] ELSE entries[j + 1]
        /\ r = <<>> <=> Len(entries) = 1
    <3>1. Shorter(Entries, entries, k, r)
      BY <1>2, <1>4, <2>1, RemoveAtIs
    <3>2. QED
      BY <3>1 DEF Shorter
  <2>3. QED
    BY <1>5, <2>2
<1>8. \A j, l \in 1..n : entries[j].id = entries[l].id => j = l
  BY <1>5 DEF Tracked
<1>9. ASSUME NEW j \in 1..n - 1
      PROVE  \E l \in 1..n : /\ r[j] = entries[l] /\ l # k
                             /\ l = IF j < k THEN j ELSE j + 1
  <2>1. k \in Nat /\ j \in Nat
    BY <1>2, <1>5
  <2>2. CASE j < k
    BY <1>7, <2>1, <2>2
  <2>3. CASE ~(j < k)
    <3>1. PICK l \in 1..n : l = j + 1
      BY <1>5
    <3>2. QED
      BY <1>7, <2>1, <2>3, <3>1
  <2>4. QED
    BY <2>2, <2>3
<1>10. ASSUME NEW i \in Ids
       PROVE  (\E j \in 1..n - 1 : r[j].id = i) <=> InEntries(i) /\ i # notifying
  <2>1. ASSUME NEW j \in 1..n - 1, r[j].id = i PROVE InEntries(i) /\ i # notifying
    <3>1. PICK l \in 1..n : r[j] = entries[l] /\ l # k
      BY <1>9
    <3>2. QED
      BY <1>2, <1>5, <1>8, <2>1, <3>1 DEF InEntries
  <2>2. ASSUME InEntries(i), i # notifying PROVE \E j \in 1..n - 1 : r[j].id = i
    <3>1. PICK l \in 1..n : entries[l].id = i
      BY <1>5, <2>2 DEF InEntries
    <3>2. l # k
      BY <1>2, <2>2, <3>1
    <3>3. CASE l < k
      <4>1. l \in 1..n - 1
        BY <1>2, <1>5, <3>3
      <4>2. QED
        BY <1>7, <3>1, <3>3, <4>1
    <3>4. CASE l > k
      <4>1. PICK j \in 1..n - 1 : l = j + 1
        <5>1. l - 1 \in 1..n - 1 /\ l = (l - 1) + 1
          BY <1>2, <1>5, <3>4
        <5>2. QED
          BY <5>1
      <4>2. ~(j < k)
        BY <1>2, <1>5, <3>4, <4>1
      <4>3. QED
        BY <1>7, <3>1, <4>1, <4>2
    <3>5. QED
      BY <1>2, <1>5, <3>2, <3>3, <3>4
  <2>3. QED
    BY <2>1, <2>2
<1>11. ASSUME NEW j \in 1..n - 1, NEW l \in 1..n - 1, r[j].id = r[l].id PROVE j = l
  <2>1. PICK x \in 1..n : r[j] = entries[x] /\ x = IF j < k THEN j ELSE j + 1
    BY <1>9
  <2>2. PICK y \in 1..n : r[l] = entries[y] /\ y = IF l < k THEN l ELSE l + 1
    BY <1>9
  <2>3. x = y
    BY <1>8, <1>11, <2>1, <2>2
  <2>4. QED
    BY <1>2, <1>5, <2>1, <2>2, <2>3
<1>12. \A j \in 1..n - 1 : \E l \in 1..n : r[j] = entries[l] /\ entries[l].id # notifying
  BY <1>2, <1>5, <1>8, <1>9
<1>13. \A i \in Ids : InEntries(i)' <=> \E j \in 1..n - 1 : r[j].id = i
  BY <1>6, <1>7 DEF InEntries
<1>14. Removed(k)
  <2>1. k = CHOOSE i \in 1..Len(entries) : entries[i].id = notifying
    BY DEF k
  <2>2. \A i \in Ids : InEntries(i)' <=> InEntries(i) /\ i # notifying
    BY <1>10, <1>13
  <2>3. \A j, l \in 1..n - 1 : r[j].id = r[l].id => j = l
    BY <1>11
  <2>4. /\ Len(entries') = n - 1 /\ entries' \in Seq(Entries) /\ entries' = RemoveAt(entries, k)
        /\ \A j \in 1..n - 1 : entries'[j] = IF j < k THEN entries[j] ELSE entries[j + 1]
        /\ (entries' = <<>>) <=> (n = 1)
        /\ \A j, l \in 1..Len(entries') : entries'[j].id = entries'[l].id => j = l
        /\ \A j \in 1..Len(entries') : \E l \in 1..n :
                entries'[j] = entries[l] /\ entries[l].id # notifying
    BY <1>3, <1>6, <1>7, <1>12, <2>3
  <2>5. QED
    BY <1>2, <1>5, <2>1, <2>2, <2>4 DEF Removed
<1>15. QED
  BY <1>14

\* The transactions of the cache that have an event, if that of the hook is over.
LEMMA TrackedHook ==
    ASSUME TrackedIn(Cache), UNCHANGED <<block, transaction, events>>,
           notifying' \in {notifying, NoId},
           \A i \in Ids : Waiting(Cache, i) \/ Pending(Cache, i) => InEntries(i)'
    PROVE  /\ TrackedIn(Cache)'
           /\ \A i \in Ids : ReasonIn(Cache, i)' <=> ReasonIn(Cache, i)
<1>1. TrackedIn(Cache)'
  BY DEF TrackedIn, Waiting, Pending, Cache
<1>2. \A i \in Ids : ReasonIn(Cache, i)' <=> ReasonIn(Cache, i)
  BY DEF ReasonIn, Waiting, Pending, InPrevious, Cache
<1>3. QED
  BY <1>1, <1>2

\* The entry that is removed has no reason left.
LEMMA RemovedTracked ==
    ASSUME Base, NEW k, Removed(k), notifying # NoId, hook = "none", Quiet,
           UNCHANGED <<block, transaction, events, call, id, pc, unwritten>>,
           \/ hook' # "none" /\ notifying' = notifying
           \/ hook' = hook /\ notifying' = NoId
    PROVE  Tracked' /\ Reasons'
<1>1. /\ Inv1 /\ JournalTypes /\ Control /\ Tracked /\ TrackedIn(Cache) /\ Reasons
  BY DEF Base, Tracked
<1>2. Notified /\ notifying \in Ids
  BY <1>1 DEF Inv1, Types, OtherTypes
<1>3. transaction[notifying].state = "gone" /\ ~Pending(Cache, notifying)
  BY <1>1, <1>2 DEF Notified, TrackedIn
<1>4. \A i \in Ids : Waiting(Cache, i) \/ Pending(Cache, i) => i # notifying
  BY <1>3 DEF Waiting, Cache
<1>5. \A i \in Ids : InEntries(i)' <=> InEntries(i) /\ i # notifying
  BY DEF Removed
<1>6. \A i \in Ids : Waiting(Cache, i) \/ Pending(Cache, i) => InEntries(i)'
  BY <1>1, <1>4, <1>5 DEF TrackedIn
<1>7. /\ TrackedIn(Cache)'
      /\ \A i \in Ids : ReasonIn(Cache, i)' <=> ReasonIn(Cache, i)
  <2>1. notifying' \in {notifying, NoId}
    OBVIOUS
  <2>2. QED
    BY <1>1, <1>6, <2>1, TrackedHook
<1>8. Tracked'
  <2>1. \A j, l \in 1..Len(entries)' : entries'[j].id = entries'[l].id => j = l
    BY DEF Removed
  <2>2. QED
    BY <1>7, <2>1 DEF Tracked
<1>9. CallFrame
  BY DEF CallFrame
<1>10. Mover' = Mover
  BY <1>1, <1>9, QuietMoving
<1>11. ASSUME NEW j \in 1..Len(entries') PROVE Reason(entries[j].id)'
  <2>1. PICK l \in 1..Len(entries) : entries'[j] = entries[l] /\ entries[l].id # notifying
    BY DEF Removed
  <2>2. PICK i \in Ids : i = entries[l].id
    BY <1>1, EntryTypes DEF JournalTypes
  <2>3. Reason(i)
    BY <1>1, <2>2 DEF Reasons
  <2>4. ReasonIn(Cache, i) \/ (Mover = i /\ pc \notin {"super", "end", "flush", "add"})
    BY <2>1, <2>2, <2>3 DEF Reason
  <2>5. CASE ReasonIn(Cache, i)
    <3>1. ReasonIn(Cache, i)'
      BY <1>7, <2>5
    <3>2. Reason(i)'
      BY <3>1 DEF Reason
    <3>3. QED
      BY <2>1, <2>2, <3>2
  <2>6. CASE Mover = i /\ pc \notin {"super", "end", "flush", "add"}
    <3>1. Reason(i)'
      BY <1>10, <2>6 DEF Reason
    <3>2. QED
      BY <2>1, <2>2, <3>1
  <2>7. QED
    BY <2>4, <2>5, <2>6
<1>12. \A i \in Ids : Open(i) => (InEntries(i)' <=> InEntries(i))
  BY <1>3, <1>5 DEF Open
<1>13. pc \in Entering => id \in Ids /\ Open(id)
  BY <1>1, OpenHere
<1>14. /\ pc = "ending" => InEntries(id)'
       /\ pc \in {"super", "end", "flush", "add"} => ~InEntries(id)'
  <2>1. /\ pc = "ending" => InEntries(id)
        /\ pc \in {"super", "end", "flush", "add"} => ~InEntries(id)
    BY <1>1 DEF Reasons
  <2>2. PICK i : i = id
    OBVIOUS
  <2>3. /\ pc = "ending" => InEntries(i)'
        /\ pc \in {"super", "end", "flush", "add"} => ~InEntries(i)'
    BY <1>12, <1>13, <2>1, <2>2 DEF Entering
  <2>4. QED
    BY <2>2, <2>3 DEF InEntries
<1>15. ASSUME Committing(call.op) PROVE LeavingOK(Cache, call.op, call.arg, call.hook)'
  <2>1. PICK i \in Ids : i = call.arg /\ Open(i)
    BY <1>1, <1>15, InvParts DEF Inv1, CallOK, Closing
  <2>2. LeavingOK(Cache, call.op, i, call.hook)
    BY <1>1, <1>15, <2>1 DEF Reasons
  <2>3. InEntries(i)' <=> InEntries(i)
    BY <1>12, <2>1
  <2>4. Parted(Cache, call.op, i)' = Parted(Cache, call.op, i)
    BY DEF Parted, InTransaction, Cache
  <2>5. LeavingOK(Cache, call.op, i, call.hook)'
    BY <2>2, <2>3, <2>4 DEF LeavingOK
  <2>6. QED
    BY <2>1, <2>5 DEF LeavingOK, Parted, InTransaction, InEntries
<1>16. Reasons'
  BY <1>11, <1>14, <1>15 DEF Reasons
<1>17. QED
  BY <1>8, <1>16

\* The entry of a written transaction is removed.
LEMMA EntryWrittenBase ==
    ASSUME Base, EntryWritten
    PROVE  Base'
<1>1. /\ Inv1 /\ JournalTypes /\ Control /\ Tracked /\ SpaceOK
  BY DEF Base
<1>2. /\ notifying # NoId /\ hook = "none"
      /\ UNCHANGED <<block, transaction, nextId, events, toWrite, written, call>>
      /\ UNCHANGED <<log, super, logStart, logEnd, unwritten, hasSub, id, pc, todo, at,
                     lastStart, stamp>>
  BY DEF EntryWritten, HookReturns, cacheVars
<1>3. PICK k : Removed(k)
  BY <1>1, RemovedIs
<1>4. \/ /\ OldestEntry(k) /\ hook' = "super" /\ UNCHANGED cacheVars
         /\ superBlock' = [superBlock EXCEPT !.start =
                IF Len(entries) > 1 THEN entries[2].start % LogSize ELSE logEnd]
         /\ flaw' \in BOOLEAN
      \/ ~OldestEntry(k) /\ HookReturns /\ UNCHANGED <<superBlock, hook, flaw>>
  <2>1. k = CHOOSE i \in 1..Len(entries) : entries[i].id = notifying
    BY <1>3 DEF Removed
  <2>2. flaw \in BOOLEAN
    BY <1>1 DEF JournalTypes
  <2>3. QED
    BY <2>1, <2>2 DEF EntryWritten
<1>5. Inv1'
  BY <1>1, <1>4, StutterInv1, HookReturnsInv1
<1>6. Quiet /\ CallFrame
  BY <1>2, QuietSame DEF CallFrame
<1>7. pc # "replay"
  BY <1>2, NotReplaying DEF Base
<1>8. Tracked' /\ Reasons'
  <2>1. \/ hook' # "none" /\ notifying' = notifying
        \/ hook' = hook /\ notifying' = NoId
    BY <1>4 DEF cacheVars, HookReturns
  <2>2. QED
    BY <1>2, <1>3, <1>6, <2>1, RemovedTracked
<1>9. JournalTypes'
  <2>1. entries' \in Seq(Entries)
    BY <1>3 DEF Removed
  <2>2. superBlock' \in Pointers
    <3>1. CASE UNCHANGED superBlock
      BY <1>1, <3>1 DEF JournalTypes
    <3>2. CASE OldestEntry(k)
      <4>1. PICK z \in 0..LogSize :
                z = IF Len(entries) > 1 THEN entries[2].start % LogSize ELSE logEnd
        <5>1. CASE Len(entries) > 1
          <6>1. LogSize \in Nat /\ entries[2].start \in 0..LogSize /\ entries[2].length \in 1..LogSize
            BY <1>1, <5>1, EntryTypes, JournalAssumption DEF JournalTypes
          <6>2. PICK e \in Nat : e = entries[2].start
            BY <6>1
          <6>3. LogSize > 0
            BY <6>1
          <6>4. e % LogSize \in 0..LogSize
            BY <6>1, <6>2, <6>3
          <6>5. QED
            BY <5>1, <6>2, <6>4
        <5>2. CASE ~(Len(entries) > 1)
          BY <1>1, <5>2 DEF JournalTypes
        <5>3. QED
          BY <5>1, <5>2
      <4>2. superBlock' = [superBlock EXCEPT !.start = z]
        BY <1>4, <3>2, <4>1
      <4>3. QED
        BY <1>1, <4>2 DEF JournalTypes, Pointers
    <3>3. QED
      BY <1>4, <3>1, <3>2
  <2>3. hook' \in {"none", "super", "start"} /\ flaw' \in BOOLEAN
    BY <1>1, <1>4 DEF JournalTypes
  <2>4. QED
    BY <1>1, <1>2, <2>1, <2>2, <2>3 DEF JournalTypes
<1>10. SpaceOK'
  <2>1. ASSUME entries' = <<>>
        PROVE  superBlock'.start = logEnd /\ hook' # "none"
    <3>1. Len(entries) = 1 /\ k = 1
      <4>1. k \in 1..Len(entries) /\ ((entries' = <<>>) <=> (Len(entries) = 1))
        BY <1>3 DEF Removed
      <4>2. Len(entries) = 1
        BY <2>1, <4>1
      <4>3. QED
        BY <4>1, <4>2
    <3>2. /\ OldestEntry(k) /\ hook' = "super"
          /\ superBlock' = [superBlock EXCEPT !.start = logEnd]
      BY <1>4, <3>1 DEF OldestEntry
    <3>3. QED
      BY <1>1, <3>2 DEF JournalTypes, Pointers
  <2>2. Busy("client")' = Busy("client") /\ Busy("background")' = Busy("background")
    BY <1>2 DEF Busy
  <2>3. NoPrevious' <=> NoPrevious
    BY <1>2 DEF NoPrevious
  <2>4. QED
    BY <1>1, <1>2, <2>1, <2>2, <2>3 DEF SpaceOK
<1>11. QED
  BY <1>2, <1>5, <1>6, <1>7, <1>8, <1>9, <1>10, QuietBase

\* The superblock is written.
LEMMA HookWritesSuperBase ==
    ASSUME Base, HookWritesSuper
    PROVE  Base'
<1>1. /\ Inv1 /\ JournalTypes /\ Control /\ Tracked /\ TrackedIn(Cache) /\ Reasons /\ SpaceOK
  BY DEF Base, Tracked
<1>2. /\ hook = "super" /\ hook' = "start" /\ super' = superBlock /\ UNCHANGED cacheVars
      /\ UNCHANGED <<block, transaction, nextId, events, notifying, toWrite, written, call>>
      /\ UNCHANGED <<log, superBlock, logStart, logEnd, entries, unwritten, hasSub, id, pc, todo,
                     at, lastStart, stamp, flaw>>
  BY DEF HookWritesSuper, cacheVars
<1>3. Inv1'
  BY <1>1, <1>2, StutterInv1
<1>4. Quiet /\ CallFrame
  BY <1>2, QuietSame DEF CallFrame
<1>5. pc # "replay"
  BY <1>1, <1>2, NotReplaying DEF Base, Tracked
<1>6. \A i \in Ids : InEntries(i)' <=> InEntries(i)
  BY <1>2 DEF InEntries
<1>7. /\ TrackedIn(Cache)'
      /\ \A i \in Ids : ReasonIn(Cache, i)' <=> ReasonIn(Cache, i)
  <2>1. \A i \in Ids : Waiting(Cache, i) \/ Pending(Cache, i) => InEntries(i)'
    BY <1>1, <1>6 DEF TrackedIn
  <2>2. QED
    BY <1>1, <1>2, <2>1, TrackedHook
<1>8. Tracked'
  BY <1>1, <1>2, <1>7 DEF Tracked
<1>9. Reasons'
  <2>1. \A i \in Ids : ReasonIn(Cache, i) \/ (notifying = i /\ hook = "none") =>
                       ReasonIn(Cache, i)' \/ (notifying' = i /\ hook' = "none")
    BY <1>2, <1>7
  <2>2. QED
    BY <1>1, <1>2, <1>4, <2>1, ReasonsStay
<1>10. JournalTypes'
  BY <1>1, <1>2 DEF JournalTypes
<1>11. SpaceOK'
  <2>1. Busy("client")' = Busy("client") /\ Busy("background")' = Busy("background")
    BY <1>2 DEF Busy
  <2>2. NoPrevious' <=> NoPrevious
    BY <1>2 DEF NoPrevious
  <2>3. QED
    BY <1>1, <1>2, <2>1, <2>2 DEF SpaceOK
<1>12. QED
  BY <1>2, <1>3, <1>4, <1>5, <1>8, <1>9, <1>10, <1>11, QuietBase

\* The log blocks are free again.
LEMMA HookSetsStartBase ==
    ASSUME Base, HookSetsStart
    PROVE  Base'
<1>1. /\ Inv1 /\ JournalTypes /\ Control /\ Tracked /\ TrackedIn(Cache) /\ Reasons /\ SpaceOK
  BY DEF Base, Tracked
<1>2. /\ hook = "start" /\ hook' = "none" /\ logStart' = superBlock.start
      /\ HookReturns /\ notifying' = NoId
      /\ UNCHANGED <<block, transaction, nextId, events, toWrite, written, call>>
      /\ UNCHANGED <<log, super, superBlock, logEnd, entries, unwritten, hasSub, id, pc, todo,
                     at, lastStart, stamp, flaw>>
  BY DEF HookSetsStart, HookReturns
<1>3. Inv1'
  BY <1>1, <1>2, HookReturnsInv1
<1>4. Quiet /\ CallFrame
  BY <1>2, QuietSame DEF CallFrame
<1>5. pc # "replay" /\ notifying # NoId
  BY <1>1, <1>2, NotReplaying DEF Base, Tracked
<1>6. \A i \in Ids : InEntries(i)' <=> InEntries(i)
  BY <1>2 DEF InEntries
<1>7. /\ TrackedIn(Cache)'
      /\ \A i \in Ids : ReasonIn(Cache, i)' <=> ReasonIn(Cache, i)
  <2>1. \A i \in Ids : Waiting(Cache, i) \/ Pending(Cache, i) => InEntries(i)'
    BY <1>1, <1>6 DEF TrackedIn
  <2>2. QED
    BY <1>1, <1>2, <2>1, TrackedHook
<1>8. Tracked'
  BY <1>1, <1>2, <1>7 DEF Tracked
<1>9. Reasons'
  <2>1. \A i \in Ids : ReasonIn(Cache, i) \/ (notifying = i /\ hook = "none") =>
                       ReasonIn(Cache, i)' \/ (notifying' = i /\ hook' = "none")
    BY <1>2, <1>7
  <2>2. QED
    BY <1>1, <1>2, <1>4, <2>1, ReasonsStay
<1>10. JournalTypes'
  <2>1. logStart' \in 0..LogSize
    BY <1>1, <1>2 DEF JournalTypes, Pointers
  <2>2. QED
    BY <1>1, <1>2, <2>1 DEF JournalTypes
<1>11. SpaceOK'
  <2>1. Busy("client")' = Busy("client") /\ Busy("background")' = Busy("background")
    BY <1>2 DEF Busy
  <2>2. NoPrevious' <=> NoPrevious
    BY <1>2 DEF NoPrevious
  <2>3. QED
    BY <1>1, <1>2, <1>5, <2>1, <2>2 DEF SpaceOK
<1>12. QED
  BY <1>2, <1>3, <1>4, <1>5, <1>8, <1>9, <1>10, <1>11, QuietBase

-----------------------------------------------------------------------------
(* The first invariant, without the log: the writing of a log entry *)

\* A place in the log.
LEMMA AtRange ==
    ASSUME LogSize > 0, NEW p \in Int
    PROVE  /\ p % LogSize \in 0..LogSize - 1 /\ p % LogSize \in 0..LogSize
           /\ IsAt(p % LogSize, p) /\ IsAt(p, p)
<1>1. /\ p % LogSize \in 0..LogSize - 1 /\ IsAt(p % LogSize, p) /\ IsAt(p, p)
  BY AtIs
<1>2. LogSize \in Nat
  BY JournalAssumption
<1>3. 0..LogSize - 1 \subseteq 0..LogSize
  BY <1>2
<1>4. QED
  BY <1>1, <1>3

\* An open transaction has no log entry before it is in the log.
LEMMA NoEntry ==
    ASSUME Inv1, JournalTypes, Reasons, NEW i \in Ids, Open(i),
           Mover # i \/ pc \in {"super", "end", "flush", "add"}
    PROVE  ~InEntries(i)
<1>1. SUFFICES ASSUME InEntries(i) PROVE FALSE
  OBVIOUS
<1>2. Reason(i)
  BY <1>1 DEF InEntries, Reasons
<1>3. CacheOK(Cache, nextId) /\ Notified /\ Cache.transaction = transaction
  BY InvParts DEF Inv1
<1>4. notifying # i /\ ~Waiting(Cache, i)
  BY <1>3 DEF Open, Notified, Waiting
<1>5. ~Pending(Cache, i)
  BY <1>3, CacheParts DEF Open, Pending, Transactions
<1>6. QED
  BY <1>2, <1>4, <1>5 DEF Reason, ReasonIn

\* What the log entry is depends on these.
LEMMA StayEntry ==
    ASSUME UNCHANGED <<block, transaction, events, id>>
    PROVE  /\ Logged' = Logged /\ LogEntryLength' = LogEntryLength
           /\ LogEntryBlocks' = LogEntryBlocks /\ (Detaching' <=> Detaching)
<1>1. Detaching' <=> Detaching
  BY DEF Detaching, TransactionSize, Size
<1>2. Logged' = Logged
  BY <1>1 DEF Logged, InTransaction, Cache
<1>3. LogEntryLength' = LogEntryLength /\ ChangedBlocks' = ChangedBlocks
  BY <1>2 DEF LogEntryLength, ChangedBlocks
<1>4. LogEntryBlocks' = LogEntryBlocks
  BY <1>2, <1>3 DEF LogEntryBlocks
<1>5. QED
  BY <1>1, <1>2, <1>3, <1>4

\* The step from one place of the journal's code to another, with the cache left alone.
Progress ==
    /\ UNCHANGED cacheVars /\ UNCHANGED <<entries, hook, id>> /\ call = NoCall
    /\ Kept' => Kept
    /\ pc' \notin {"inside", "replay", "ending"} /\ pc # "ending"
    /\ pc' \in {"space", "log"} \cup Entering => Logged # {}
    /\ pc' \in {"log", "super", "end", "flush", "add"} => LogEntryLength <= LogSize
    /\ pc' \in {"super", "end", "flush", "add"} => ~InEntries(id)

\* Most of the invariant does not notice.
LEMMA ProgressBase ==
    ASSUME Base, Progress, JournalTypes', SpaceOK', EntryWriting'
    PROVE  Base'
<1>1. /\ Inv1 /\ JournalTypes /\ Control /\ Tracked /\ TrackedIn(Cache) /\ Reasons
      /\ NoDiscards /\ SubOK
  BY DEF Base, Tracked
<1>2. /\ UNCHANGED cacheVars
      /\ UNCHANGED <<block, transaction, nextId, events, notifying, call, id, entries, hook>>
      /\ call = NoCall /\ NoCall.op = "none"
  BY DEF Progress, cacheVars, NoCall
<1>3. Inv1'
  BY <1>1, <1>2, StutterInv1
<1>4. Logged' = Logged /\ LogEntryLength' = LogEntryLength
  BY <1>2, StayEntry
<1>5. Control'
  BY <1>1, <1>2, <1>4 DEF Control, Progress, Open, Committing
<1>6. Replaying'
  BY DEF Replaying, Progress
<1>7. NoDiscards'
  BY <1>1, <1>2 DEF NoDiscards
<1>8. SubOK'
  <2>1. \A i \in Ids : /\ Open(i)' <=> Open(i)
                       /\ Divided(Cache, i)' <=> Divided(Cache, i)
    BY <1>2 DEF Open, Divided, DividedBlock, SubPart, MainPart, Discarded, InTransaction, Cache
  <2>2. QED
    BY <1>1, <1>2, <2>1 DEF SubOK, Progress, InTransaction, Cache
<1>9. \A i \in Ids : InEntries(i)' <=> InEntries(i)
  BY <1>2 DEF InEntries
<1>10. /\ TrackedIn(Cache)'
       /\ \A i \in Ids : ReasonIn(Cache, i)' <=> ReasonIn(Cache, i)
  <2>1. \A i \in Ids : Waiting(Cache, i) \/ Pending(Cache, i) => InEntries(i)'
    BY <1>1, <1>9 DEF TrackedIn
  <2>2. QED
    BY <1>1, <1>2, <2>1, TrackedHook
<1>11. Tracked'
  BY <1>1, <1>2, <1>10 DEF Tracked, InEntries
<1>12. ~Committing(call.op) /\ ~Committing(call'.op)
  BY <1>2 DEF Committing
<1>13. ASSUME NEW k \in 1..Len(entries) PROVE Reason(entries[k].id)'
  <2>1. PICK i \in Ids : i = entries[k].id
    BY <1>1, EntryTypes DEF JournalTypes
  <2>2. Reason(i)
    BY <1>1, <2>1 DEF Reasons
  <2>3. ~(Mover = i /\ pc \notin {"super", "end", "flush", "add"})
    BY <1>12 DEF Mover, Progress, Entering
  <2>4. ReasonIn(Cache, i) \/ (notifying = i /\ hook = "none")
    BY <2>2, <2>3 DEF Reason
  <2>5. ReasonIn(Cache, i)' \/ (notifying' = i /\ hook' = "none")
    BY <1>2, <1>10, <2>4
  <2>6. Reason(i)'
    BY <2>5 DEF Reason
  <2>7. QED
    BY <1>2, <2>1, <2>6
<1>14. Reasons'
  <2>1. pc' # "ending" /\ (pc' \in {"super", "end", "flush", "add"} => ~InEntries(id)')
    BY <1>2 DEF Progress, InEntries
  <2>2. \A k \in 1..Len(entries)' : Reason(entries[k].id)'
    BY <1>2, <1>13
  <2>3. QED
    BY <1>12, <2>1, <2>2 DEF Reasons
<1>15. QED
  BY <1>3, <1>5, <1>6, <1>7, <1>8, <1>11, <1>14 DEF Base

\* The pointers into the log, if none changes.
LEMMA ProgressSpace ==
    ASSUME SpaceOK, UNCHANGED <<entries, hook, logStart, logEnd>>,
           superBlock'.start = superBlock.start, pc' # "space",
           pc \in {"flush", "add", "replay"} => pc' \in {"flush", "add", "replay"}
    PROVE  SpaceOK'
BY DEF SpaceOK

\* A log is flushed, or what is too large for it is not written.
LEMMA FlushLogBase ==
    ASSUME Base, FlushLog \/ TooLarge
    PROVE  Base'
<1>1. JournalTypes /\ Control /\ SpaceOK
  BY DEF Base
<1>2. /\ UNCHANGED cacheVars
      /\ UNCHANGED <<entries, hook, id, logStart, logEnd, superBlock, super, log, unwritten,
                     hasSub, flaw, todo, at, lastStart, stamp>>
      /\ call = NoCall /\ pc' \in {"flush log", "failed", "free"}
      /\ pc \in {"free", "write", "flush log"}
      /\ Kept' => Kept
  BY DEF FlushLog, TooLarge, logVars, Idle, TransactionLock, Kept, Owning
<1>3. Progress
  BY <1>2 DEF Progress, Entering
<1>4. JournalTypes'
  BY <1>1, <1>2 DEF JournalTypes, Owning
<1>5. SpaceOK'
  BY <1>1, <1>2, ProgressSpace
<1>6. EntryWriting'
  BY <1>2 DEF EntryWriting
<1>7. QED
  BY <1>3, <1>4, <1>5, <1>6, ProgressBase

\* There is space for the log entry, whose writing starts.
EntryStarts ==
    /\ UNCHANGED cacheVars
    /\ UNCHANGED <<entries, hook, id, logStart, logEnd, superBlock, super, log, unwritten,
                   flaw, lastStart, stamp>>
    /\ hasSub' \in BOOLEAN /\ pc \in {"write", "flush log", "space"} /\ call = NoCall
    /\ pc' = "log" /\ Logged # {} /\ LogEntryLength <= FreeLogBlocks
    /\ todo' = LogEntryBlocks /\ at' = logEnd % LogSize

\* It does not yet change what is known of the log.
LEMMA EntryStartsBase ==
    ASSUME Base, EntryStarts
    PROVE  Base'
<1>1. Inv1 /\ JournalTypes /\ Control /\ SpaceOK
  BY DEF Base
<1>2. Logged # {} /\ todo' = LogEntryBlocks /\ pc' = "log"
  BY DEF EntryStarts
<1>3. /\ LogEntryBlocks \in Seq(LogBlocks) /\ Len(LogEntryBlocks) = LogEntryLength
      /\ LogEntryLength \in Nat \ {0, 1}
  BY <1>1, <1>2, EntryType
<1>4. LogEntryLength <= LogSize /\ LogSize > 0 /\ LogSize \in Nat
  <2>1. logStart \in 0..LogSize /\ logEnd \in 0..LogSize /\ LogSize \in Nat
    BY <1>1, JournalAssumption DEF JournalTypes
  <2>2. FreeLogBlocks \in 0..LogSize
    BY <2>1, FreeIs
  <2>3. LogEntryLength <= FreeLogBlocks
    BY DEF EntryStarts
  <2>4. QED
    BY <1>3, <2>1, <2>2, <2>3
<1>5. UNCHANGED <<block, transaction, events, id>>
  BY DEF EntryStarts, cacheVars
<1>6. Progress
  <2>1. /\ UNCHANGED cacheVars /\ UNCHANGED <<entries, hook, id>> /\ call = NoCall
        /\ pc \in {"write", "flush log", "space"}
    BY DEF EntryStarts
  <2>2. Kept' => Kept
    BY <2>1 DEF Kept, Owning
  <2>3. QED
    BY <1>2, <1>4, <2>1, <2>2 DEF Progress, Entering
<1>7. PICK e \in Nat : e = logEnd
  BY <1>1 DEF JournalTypes
<1>8. at' = e % LogSize /\ logEnd' = e
  BY <1>7 DEF EntryStarts
<1>9. JournalTypes'
  <2>1. at' \in 0..LogSize
    BY <1>4, <1>7, <1>8, AtRange
  <2>2. /\ UNCHANGED <<entries, hook, logStart, logEnd, superBlock, super, log, unwritten,
                       flaw, lastStart, stamp>>
        /\ hasSub' \in BOOLEAN
    BY DEF EntryStarts
  <2>3. QED
    BY <1>1, <1>2, <1>3, <2>1, <2>2 DEF JournalTypes, Owning
<1>10. SpaceOK'
  BY <1>1, ProgressSpace DEF EntryStarts
<1>11. LogEntryLength' = LogEntryLength /\ LogEntryBlocks' = LogEntryBlocks
  BY <1>5, StayEntry
<1>12. EntryWriting'
  <2>1. PICK n \in Nat : n = 0
    OBVIOUS
  <2>2. LogEntryLength' - Len(todo') = n
    BY <1>2, <1>3, <1>11, <2>1
  <2>3. at' = (logEnd' + n) % LogSize
    BY <1>7, <1>8, <2>1
  <2>4. \A j \in 1..Len(todo') : todo'[j] = LogEntryBlocks'[n + j]
    BY <1>2, <1>3, <1>11, <2>1
  <2>5. QED
    BY <2>1, <2>2, <2>3, <2>4 DEF EntryWriting
<1>13. QED
  BY <1>6, <1>9, <1>10, <1>12, ProgressBase

\* After the sync there is.
LEMMA HaveSpaceBase ==
    ASSUME Base, HaveSpace
    PROVE  Base'
<1>1. hasSub \in BOOLEAN /\ (pc = "space" => Logged # {})
  BY DEF Base, JournalTypes, Control
<1>2. EntryStarts
  BY <1>1 DEF HaveSpace, Idle, EntryStarts
<1>3. QED
  BY <1>2, EntryStartsBase

\* What is known while the log entry is written; n blocks of it are.
Writing(n) ==
    /\ pc = "log" /\ Logged # {} /\ call = NoCall
    /\ LogEntryLength \in Nat \ {0, 1} /\ LogEntryLength <= LogSize /\ LogSize \in Nat \ {0}
    /\ LogEntryBlocks \in Seq(LogBlocks) /\ Len(LogEntryBlocks) = LogEntryLength
    /\ logEnd \in 0..LogSize /\ id \in Ids /\ Open(id)
    /\ todo \in Seq(LogBlocks) /\ Len(todo) \in Nat /\ n = LogEntryLength - Len(todo)
    /\ n \in Nat /\ at = (logEnd + n) % LogSize /\ at \in 0..LogSize - 1
    /\ IsAt(at, logEnd + n)
    /\ \A j \in 1..Len(todo) : todo[j] = LogEntryBlocks[n + j]
    /\ \A j \in 1..n : log[(logEnd + j - 1) % LogSize] = LogEntryBlocks[j]

\* All that.
LEMMA WritingIs ==
    ASSUME Base, pc = "log"
    PROVE  \E n \in Nat : Writing(n)
<1>1. Inv1 /\ JournalTypes /\ Control /\ EntryWriting
  BY DEF Base
<1>2. id \in Ids /\ Open(id) /\ Logged # {} /\ LogEntryLength <= LogSize /\ call = NoCall
  BY <1>1, OpenHere DEF Control, Owning
<1>3. /\ LogEntryBlocks \in Seq(LogBlocks) /\ Len(LogEntryBlocks) = LogEntryLength
      /\ LogEntryLength \in Nat \ {0, 1}
  BY <1>1, <1>2, EntryType
<1>4. LogSize \in Nat \ {0} /\ LogSize > 0
  BY <1>2, <1>3, JournalAssumption
<1>5. todo \in Seq(LogBlocks) /\ Len(todo) \in Nat /\ logEnd \in 0..LogSize
  BY <1>1 DEF JournalTypes
<1>6. PICK n : n = LogEntryLength - Len(todo)
  OBVIOUS
<1>7. /\ n >= 0 /\ at = (logEnd + n) % LogSize
      /\ \A j \in 1..Len(todo) : todo[j] = LogEntryBlocks[n + j]
      /\ \A j \in 1..n : log[(logEnd + j - 1) % LogSize] = LogEntryBlocks[j]
  BY <1>1, <1>6 DEF EntryWriting
<1>8. n \in Nat
  <2>1. n >= 0
    BY <1>7
  <2>2. QED
    BY <1>3, <1>5, <1>6, <2>1
<1>9. PICK p \in Int : p = logEnd + n
  BY <1>5, <1>8
<1>10. p % LogSize \in 0..LogSize - 1 /\ IsAt(p % LogSize, p)
  BY <1>4, AtRange
<1>11. at \in 0..LogSize - 1 /\ IsAt(at, logEnd + n)
  <2>1. at = p % LogSize
    BY <1>7, <1>9
  <2>2. QED
    BY <1>9, <1>10, <2>1
<1>12. Writing(n)
  BY <1>2, <1>3, <1>4, <1>5, <1>6, <1>7, <1>8, <1>11 DEF Writing
<1>13. QED
  BY <1>8, <1>12

\* The place of the next block of the entry is not that of one before.
LEMMA NextPlace ==
    ASSUME NEW n \in Nat, Writing(n), todo # <<>>, NEW j \in 1..n
    PROVE  (logEnd + j - 1) % LogSize # at /\ (logEnd + j - 1) % LogSize \in 0..LogSize - 1
<1>1. /\ LogSize > 0 /\ LogSize \in Nat /\ logEnd \in Nat /\ LogEntryLength \in Nat
      /\ LogEntryLength <= LogSize /\ n = LogEntryLength - Len(todo) /\ Len(todo) \in Nat
      /\ todo \in Seq(LogBlocks)
  <2>1. /\ LogSize \in Nat \ {0} /\ logEnd \in 0..LogSize /\ LogEntryLength \in Nat
        /\ LogEntryLength <= LogSize /\ n = LogEntryLength - Len(todo) /\ Len(todo) \in Nat
        /\ todo \in Seq(LogBlocks)
    BY DEF Writing
  <2>2. QED
    BY <2>1
<1>2. Len(todo) >= 1
  BY <1>1
<1>3. PICK p \in Int : p = logEnd + j - 1
  BY <1>1
<1>4. PICK q \in Int : q = logEnd + n
  <2>1. logEnd + n \in Int
    BY <1>1
  <2>2. QED
    BY <2>1
<1>5. p < q /\ q < p + LogSize
  BY <1>1, <1>2, <1>3, <1>4
<1>6. ~IsAt(p, q)
  <2>1. IsAt(p, q) /\ p <= q /\ q < p + LogSize => p = q
    BY <1>1, AtIs
  <2>2. QED
    BY <1>5, <2>1
<1>7. at = q % LogSize
  BY <1>4 DEF Writing
<1>8. p % LogSize # at
  BY <1>6, <1>7 DEF IsAt
<1>9. p % LogSize \in 0..LogSize - 1
  BY <1>1, AtRange
<1>10. QED
  BY <1>3, <1>8, <1>9

\* One more block of it is written.
LEMMA WriteLogBlockBase ==
    ASSUME Base, WriteLogBlock
    PROVE  Base'
<1>1. Inv1 /\ JournalTypes /\ Control /\ SpaceOK /\ Reasons
  BY DEF Base
<1>2. pc = "log" /\ todo # <<>> /\ pc' = pc
  BY DEF WriteLogBlock
<1>3. PICK n \in Nat : Writing(n)
  BY <1>2, WritingIs
<1>4. UNCHANGED cacheVars /\ UNCHANGED <<block, transaction, events, id>>
  BY DEF WriteLogBlock, cacheVars
<1>5. Progress
  <2>1. UNCHANGED <<entries, hook, id, unwritten>>
    BY DEF WriteLogBlock
  <2>2. Kept' => Kept
    BY <1>2 DEF Kept, Owning
  <2>3. call = NoCall /\ Logged # {} /\ LogEntryLength <= LogSize
    BY <1>3 DEF Writing
  <2>4. QED
    BY <1>2, <1>4, <2>1, <2>2, <2>3 DEF Progress, Entering
<1>6. PICK x \in LogBlocks : /\ x = Head(todo) /\ x = todo[1]
                             /\ Tail(todo) \in Seq(LogBlocks) /\ Len(Tail(todo)) = Len(todo) - 1
                             /\ \A j \in 1..Len(todo) - 1 : Tail(todo)[j] = todo[j + 1]
  BY <1>2, <1>3, TailEntries DEF Writing
<1>7. log' = [log EXCEPT ![at] = x] /\ todo' = Tail(todo)
  BY <1>6 DEF WriteLogBlock
<1>8. PICK p \in Int, q \in Int : p = logEnd + n /\ q = logEnd + (n + 1)
  <2>1. logEnd \in Nat
    BY <1>1 DEF JournalTypes
  <2>2. logEnd + n \in Int /\ logEnd + (n + 1) \in Int
    BY <2>1
  <2>3. QED
    BY <2>2
<1>9. logEnd \in Nat
  BY <1>1 DEF JournalTypes
<1>10. PICK l \in Nat : l = at
  BY <1>3 DEF Writing
<1>11. LogSize > 0 /\ LogSize \in Nat
  BY <1>3 DEF Writing
<1>12. (l + 1) % LogSize = q % LogSize
  <2>1. IsAt(l, p)
    BY <1>3, <1>8, <1>10 DEF Writing
  <2>2. PICK u \in Int : u = l + 1
    OBVIOUS
  <2>3. u - l = q - p
    BY <1>3, <1>8, <1>9, <2>2 DEF Writing
  <2>4. IsAt(u, q)
    BY <1>11, <2>1, <2>3, AtPlus
  <2>5. QED
    BY <2>2, <2>4 DEF IsAt
<1>13. at' = q % LogSize
  BY <1>10, <1>12 DEF WriteLogBlock
<1>14. JournalTypes'
  <2>1. log' \in [0..LogSize - 1 -> LogBlocks]
    BY <1>1, <1>7 DEF JournalTypes
  <2>2. at' \in 0..LogSize
    BY <1>11, <1>13, AtRange
  <2>3. todo' \in Seq(LogBlocks)
    BY <1>6, <1>7
  <2>4. /\ UNCHANGED <<entries, hook, logStart, logEnd, superBlock, super, unwritten, hasSub,
                       flaw, lastStart, stamp>>
    BY DEF WriteLogBlock
  <2>5. QED
    BY <1>1, <1>2, <2>1, <2>2, <2>3, <2>4 DEF JournalTypes
<1>15. SpaceOK'
  <2>1. UNCHANGED <<entries, hook, logStart, logEnd, superBlock>>
    BY DEF WriteLogBlock
  <2>2. QED
    BY <1>1, <1>2, <2>1, ProgressSpace
<1>16. LogEntryLength' = LogEntryLength /\ LogEntryBlocks' = LogEntryBlocks
  BY <1>4, StayEntry
<1>17. PICK m \in Nat : m = n + 1
  OBVIOUS
<1>18. /\ \A j \in 1..Len(todo) : todo[j] = LogEntryBlocks[n + j]
       /\ Len(todo) \in Nat /\ n = LogEntryLength - Len(todo)
       /\ LogEntryLength \in Nat /\ Len(todo) >= 1
  BY <1>2, <1>3 DEF Writing
<1>19. \A j \in 1..Len(todo') : todo'[j] = LogEntryBlocks'[m + j]
  <2>1. TAKE j \in 1..Len(todo')
  <2>2. PICK i \in 1..Len(todo) : i = j + 1
    BY <1>6, <1>7, <1>18
  <2>3. todo'[j] = todo[i] /\ todo[i] = LogEntryBlocks[n + i]
    BY <1>6, <1>7, <1>18, <2>2
  <2>4. n + i = m + j
    BY <1>17, <1>18, <2>2
  <2>5. QED
    BY <1>16, <2>3, <2>4
<1>20. \A j \in 1..m : log'[(logEnd + j - 1) % LogSize] = LogEntryBlocks'[j]
  <2>1. TAKE j \in 1..m
  <2>2. CASE j \in 1..n
    <3>1. /\ (logEnd + j - 1) % LogSize # at /\ (logEnd + j - 1) % LogSize \in 0..LogSize - 1
      BY <1>2, <1>3, <2>2, NextPlace
    <3>2. log[(logEnd + j - 1) % LogSize] = LogEntryBlocks[j]
      BY <1>3, <2>2 DEF Writing
    <3>3. PICK v \in 0..LogSize - 1 : v = (logEnd + j - 1) % LogSize
      BY <3>1
    <3>4. log \in [0..LogSize - 1 -> LogBlocks]
      BY <1>1 DEF JournalTypes
    <3>5. log'[v] = log[v]
      BY <1>7, <3>1, <3>3, <3>4
    <3>6. QED
      BY <1>16, <3>2, <3>3, <3>5
  <2>3. CASE j = m
    <3>1. logEnd + j - 1 = p
      BY <1>3, <1>8, <1>17, <2>3 DEF Writing
    <3>2. p % LogSize = at
      BY <1>3, <1>8 DEF Writing
    <3>3. log'[at] = x
      BY <1>1, <1>3, <1>7 DEF JournalTypes, Writing
    <3>4. x = LogEntryBlocks[m]
      <4>1. PICK o \in 1..Len(todo) : o = 1
        BY <1>18
      <4>2. todo[o] = LogEntryBlocks[n + o]
        BY <1>18
      <4>3. QED
        BY <1>6, <1>17, <4>1, <4>2
    <3>5. QED
      BY <1>16, <2>3, <3>1, <3>2, <3>3, <3>4
  <2>4. QED
    BY <1>17, <2>2, <2>3
<1>21. EntryWriting'
  <2>1. LogEntryLength' - Len(todo') = m
    BY <1>6, <1>7, <1>16, <1>17, <1>18
  <2>2. logEnd' = logEnd
    BY DEF WriteLogBlock
  <2>3. at' = (logEnd' + m) % LogSize
    BY <1>8, <1>13, <1>17, <2>2
  <2>4. QED
    BY <1>19, <1>20, <2>1, <2>2, <2>3 DEF EntryWriting
<1>22. QED
  BY <1>5, <1>14, <1>15, <1>21, ProgressBase

\* The superblock gets the new end of the log.
LEMMA SetEndBase ==
    ASSUME Base, SetEnd
    PROVE  Base'
<1>1. Inv1 /\ JournalTypes /\ Control /\ SpaceOK /\ Reasons
  BY DEF Base
<1>2. /\ pc = "log" /\ pc' = "super" /\ UNCHANGED cacheVars
      /\ UNCHANGED <<entries, hook, id, logStart, logEnd, super, log, unwritten, hasSub,
                     todo, at, lastStart, stamp>>
      /\ superBlock' = [superBlock EXCEPT !.end = EndOf(logEnd, LogEntryLength)]
      /\ flaw' \in BOOLEAN
  BY DEF SetEnd
<1>3. PICK n \in Nat : Writing(n)
  BY <1>2, WritingIs
<1>4. /\ call = NoCall /\ Logged # {} /\ LogEntryLength \in 1..LogSize
      /\ logEnd \in 0..LogSize /\ id \in Ids /\ Open(id)
  BY <1>3 DEF Writing
<1>5. EndOf(logEnd, LogEntryLength) \in 0..LogSize
  <2>1. EndOf(logEnd, LogEntryLength) \in 1..LogSize
    BY <1>4, EndIs
  <2>2. QED
    BY <2>1
<1>6. Mover # id
  BY <1>2, <1>4 DEF Mover, Entering, Committing, NoCall
<1>7. ~InEntries(id)
  BY <1>1, <1>4, <1>6, NoEntry
<1>8. Progress
  BY <1>2, <1>4, <1>7 DEF Progress, Kept, Owning, Entering
<1>9. JournalTypes'
  <2>1. superBlock' \in Pointers
    BY <1>1, <1>2, <1>5 DEF JournalTypes, Pointers
  <2>2. QED
    BY <1>1, <1>2, <2>1 DEF JournalTypes, Owning, Entering
<1>10. SpaceOK'
  <2>1. superBlock'.start = superBlock.start
    BY <1>1, <1>2 DEF JournalTypes, Pointers
  <2>2. QED
    BY <1>1, <1>2, <2>1, ProgressSpace
<1>11. EntryWriting'
  BY <1>2 DEF EntryWriting
<1>12. QED
  BY <1>8, <1>9, <1>10, <1>11, ProgressBase

\* The superblock is written, logEnd is set, the drive is flushed.
LEMMA EntryEndsBase ==
    ASSUME Base, WriteSuperBlock \/ SetLogEnd \/ FlushDrive
    PROVE  Base'
<1>1. Inv1 /\ JournalTypes /\ Control /\ SpaceOK /\ Reasons
  BY DEF Base
<1>2. /\ pc \in {"super", "end", "flush"} /\ pc' \in {"end", "flush", "add"}
      /\ UNCHANGED cacheVars
      /\ UNCHANGED <<entries, hook, id, logStart, superBlock, log, unwritten, hasSub,
                     todo, lastStart, stamp, flaw>>
      /\ super' \in {super, superBlock}
      /\ logEnd' \in {logEnd, superBlock.end} /\ at' \in {at, logEnd}
      /\ logEnd' = logEnd \/ pc' = "flush"
      /\ pc = "flush" => pc' = "add"
  BY DEF WriteSuperBlock, SetLogEnd, FlushDrive
<1>3. call = NoCall /\ Logged # {} /\ LogEntryLength <= LogSize
  BY <1>1, <1>2 DEF Control, Owning, Entering
<1>4. ~InEntries(id)
  BY <1>1, <1>2 DEF Reasons
<1>5. Progress
  BY <1>2, <1>3, <1>4 DEF Progress, Kept, Owning, Entering
<1>6. JournalTypes'
  <2>1. super' \in Pointers /\ logEnd' \in 0..LogSize /\ at' \in 0..LogSize
    BY <1>1, <1>2 DEF JournalTypes, Pointers
  <2>2. QED
    BY <1>1, <1>2, <2>1 DEF JournalTypes, Owning, Entering
<1>7. SpaceOK'
  <2>1. CASE pc' = "flush"
    BY <2>1 DEF SpaceOK
  <2>2. CASE pc' # "flush"
    BY <1>1, <1>2, <2>2, ProgressSpace
  <2>3. QED
    BY <2>1, <2>2
<1>8. EntryWriting'
  BY <1>2 DEF EntryWriting
<1>9. QED
  BY <1>5, <1>6, <1>7, <1>8, ProgressBase

\* The log entry is listed.
LEMMA AddEntryBase ==
    ASSUME Base, AddEntry
    PROVE  Base'
<1>1. /\ Inv1 /\ JournalTypes /\ Control /\ Tracked /\ TrackedIn(Cache) /\ Reasons
      /\ NoDiscards /\ SubOK /\ SpaceOK
  BY DEF Base, Tracked
<1>2. /\ pc = "add" /\ pc' = "ending" /\ UNCHANGED cacheVars
      /\ UNCHANGED <<block, transaction, nextId, events, notifying, call>>
      /\ UNCHANGED <<hook, id, logStart, logEnd, super, superBlock, log, unwritten, hasSub,
                     todo, at, lastStart, stamp, flaw>>
      /\ entries' = Append(entries, [id |-> id, start |-> at, length |-> LogEntryLength])
  BY DEF AddEntry, cacheVars
<1>3. Inv1'
  BY <1>1, <1>2, StutterInv1
<1>4. /\ id \in Ids /\ Open(id) /\ Logged # {} /\ LogEntryLength <= LogSize /\ call = NoCall
      /\ ~InEntries(id) /\ ~Committing(call.op) /\ id + 1 = nextId
  BY <1>1, <1>2, OpenHere DEF Control, Entering, Owning, Reasons
<1>5. LogEntryLength \in 1..LogSize
  <2>1. LogEntryLength \in Nat \ {0, 1} /\ LogSize \in Nat
    BY <1>4, EntryLength, JournalAssumption
  <2>2. QED
    BY <1>4, <2>1
<1>6. PICK e \in Entries : e = [id |-> id, start |-> at, length |-> LogEntryLength]
  BY <1>1, <1>4, <1>5 DEF JournalTypes, Entries
<1>7. entries' = Append(entries, e) /\ e.id = id /\ entries \in Seq(Entries)
  BY <1>1, <1>2, <1>6 DEF JournalTypes
<1>8. PICK n \in Nat : n = Len(entries)
  BY <1>7
<1>9. /\ entries' \in Seq(Entries) /\ Len(entries') = n + 1 /\ entries'[n + 1] = e
      /\ \A k \in 1..n : entries'[k] = entries[k]
  BY <1>7, <1>8
<1>10. JournalTypes'
  BY <1>1, <1>2, <1>9 DEF JournalTypes, Owning, Entering
<1>11. \A i : InEntries(i)' <=> InEntries(i) \/ i = id
  <2>1. TAKE i
  <2>2. ASSUME InEntries(i)' PROVE InEntries(i) \/ i = id
    <3>1. PICK k \in 1..n + 1 : entries'[k].id = i
      BY <1>9, <2>2 DEF InEntries
    <3>2. CASE k = n + 1
      BY <1>7, <1>9, <3>1, <3>2
    <3>3. CASE k # n + 1
      BY <1>8, <1>9, <3>1, <3>3 DEF InEntries
    <3>4. QED
      BY <3>2, <3>3
  <2>3. ASSUME InEntries(i) PROVE InEntries(i)'
    <3>1. PICK k \in 1..n : entries[k].id = i
      BY <1>8, <2>3 DEF InEntries
    <3>2. k \in 1..n + 1
      BY <1>8
    <3>3. QED
      BY <1>9, <3>1, <3>2 DEF InEntries
  <2>4. ASSUME i = id PROVE InEntries(i)'
    <3>1. PICK k \in 1..n + 1 : k = n + 1
      BY <1>8
    <3>2. entries'[k].id = i
      BY <1>7, <1>9, <2>4, <3>1
    <3>3. QED
      BY <1>9, <3>2 DEF InEntries
  <2>5. QED
    BY <2>2, <2>3, <2>4
<1>12. Logged' = Logged /\ LogEntryLength' = LogEntryLength
  BY <1>2, StayEntry
<1>13. Kept' <=> Kept
  BY <1>2 DEF Kept, Owning, Entering
<1>14. Control'
  BY <1>1, <1>2, <1>4, <1>12, <1>13 DEF Control, Open, NoCall, Entering, Owning
<1>15. Replaying' /\ NoDiscards' /\ EntryWriting'
  BY <1>1, <1>2 DEF Replaying, NoDiscards, EntryWriting
<1>16. SubOK'
  <2>1. \A i \in Ids : /\ Open(i)' <=> Open(i)
                       /\ Divided(Cache, i)' <=> Divided(Cache, i)
    BY <1>2 DEF Open, Divided, DividedBlock, SubPart, MainPart, Discarded, InTransaction, Cache
  <2>2. QED
    BY <1>1, <1>2, <2>1 DEF SubOK, InTransaction, Cache
<1>17. /\ TrackedIn(Cache)'
       /\ \A i \in Ids : ReasonIn(Cache, i)' <=> ReasonIn(Cache, i)
  <2>1. \A i \in Ids : Waiting(Cache, i) \/ Pending(Cache, i) => InEntries(i)'
    BY <1>1, <1>11 DEF TrackedIn
  <2>2. notifying' \in {notifying, NoId}
    BY <1>2
  <2>3. QED
    BY <1>1, <1>2, <2>1, <2>2, TrackedHook
<1>18. Tracked'
  <2>1. ASSUME NEW k \in 1..n + 1, NEW l \in 1..n + 1, entries'[k].id = entries'[l].id
        PROVE  k = l
    <3>1. \A i \in 1..n : entries[i].id # id
      BY <1>4, <1>8 DEF InEntries
    <3>2. \A i, j \in 1..n : entries[i].id = entries[j].id => i = j
      BY <1>1, <1>8 DEF Tracked
    <3>3. (k \in 1..n \/ k = n + 1) /\ (l \in 1..n \/ l = n + 1)
      BY <1>8
    <3>4. QED
      BY <1>7, <1>9, <2>1, <3>1, <3>2, <3>3
  <2>2. notifying' # NoId /\ hook' = "none" => InEntries(notifying)'
    <3>1. PICK i : i = notifying
      OBVIOUS
    <3>2. notifying # NoId /\ hook = "none" => InEntries(i)'
      BY <1>1, <1>11, <3>1 DEF Tracked
    <3>3. QED
      BY <1>2, <3>1, <3>2 DEF InEntries
  <2>3. hook' # "none" => notifying' # NoId
    BY <1>1, <1>2 DEF Tracked
  <2>4. \A k, l \in 1..Len(entries') : entries'[k].id = entries'[l].id => k = l
    BY <1>9, <2>1
  <2>5. QED
    BY <1>17, <2>2, <2>3, <2>4 DEF Tracked
<1>19. Mover' = id
  BY <1>2 DEF Mover, Entering
<1>20. ASSUME NEW k \in 1..Len(entries') PROVE Reason(entries[k].id)'
  <2>1. PICK m \in 1..n + 1 : m = k
    BY <1>9
  <2>2. CASE m = n + 1
    <3>1. entries'[k].id = id
      BY <1>7, <1>9, <2>1, <2>2
    <3>2. Reason(id)'
      BY <1>2, <1>19 DEF Reason
    <3>3. QED
      BY <1>2, <3>1, <3>2
  <2>3. CASE m # n + 1
    <3>1. k \in 1..n
      BY <1>8, <2>1, <2>3
    <3>2. PICK i \in Ids : i = entries[k].id
      BY <1>7, <1>8, <3>1, EntryTypes
    <3>3. Reason(i)
      BY <1>1, <1>8, <3>1, <3>2 DEF Reasons
    <3>4. ReasonIn(Cache, i) \/ (notifying = i /\ hook = "none")
      BY <1>2, <3>3 DEF Reason
    <3>5. ReasonIn(Cache, i)' \/ (notifying' = i /\ hook' = "none")
      BY <1>2, <1>17, <3>4
    <3>6. Reason(i)'
      BY <3>5 DEF Reason
    <3>7. QED
      BY <1>9, <3>1, <3>2, <3>6
  <2>4. QED
    BY <2>2, <2>3
<1>21. Reasons'
  <2>1. InEntries(id)'
    <3>1. PICK i : i = id
      OBVIOUS
    <3>2. InEntries(i)'
      BY <1>11, <3>1
    <3>3. QED
      BY <1>2, <3>1, <3>2 DEF InEntries
  <2>2. ~Committing(call.op)'
    BY <1>2, <1>4 DEF Committing
  <2>3. QED
    BY <1>2, <1>20, <2>1, <2>2 DEF Reasons
<1>22. SpaceOK'
  <2>1. entries' # <<>>
    BY <1>8, <1>9
  <2>2. QED
    BY <1>2, <2>1 DEF SpaceOK
<1>23. QED
  BY <1>3, <1>10, <1>14, <1>15, <1>16, <1>18, <1>21, <1>22 DEF Base

-----------------------------------------------------------------------------
(* The first invariant, without the log: the calls of the client *)

\* What does not depend on the events.
LEMMA OpenSame ==
    ASSUME UNCHANGED <<block, transaction>>
    PROVE  \A i \in Ids : /\ Open(i)' <=> Open(i)
                          /\ Divided(Cache, i)' <=> Divided(Cache, i)
                          /\ InTransaction(Cache, i)' = InTransaction(Cache, i)
                          /\ InPrevious(Cache, i)' = InPrevious(Cache, i)
                          /\ Waiting(Cache, i)' <=> Waiting(Cache, i)
<1>1. TAKE i \in Ids
<1>2. /\ InTransaction(Cache, i)' = InTransaction(Cache, i)
      /\ InPrevious(Cache, i)' = InPrevious(Cache, i)
      /\ Open(i)' <=> Open(i)
      /\ Waiting(Cache, i)' <=> Waiting(Cache, i)
  BY DEF Open, InTransaction, InPrevious, Waiting, Cache
<1>3. Divided(Cache, i)' <=> Divided(Cache, i)
  BY DEF Divided, DividedBlock, SubPart, MainPart, Discarded, InTransaction, Cache
<1>4. QED
  BY <1>2, <1>3

\* A Sync behind the other events.
LEMMA SyncAppended ==
    ASSUME NEW c, NEW d, c.events \in Seq(Ids \cup {Sync}), NoSync(c), TrackedIn(c),
           notifying \in Ids \cup {NoId},
           d.block = c.block, d.transaction = c.transaction, d.events = Append(c.events, Sync)
    PROVE  /\ TrackedIn(d) /\ d.events # <<>> /\ d.events[Len(d.events)] = Sync
           /\ \A i \in Ids : ReasonIn(d, i) <=> ReasonIn(c, i)
<1>1. PICK n \in Nat : n = Len(c.events)
  OBVIOUS
<1>2. PICK e \in Seq(Ids \cup {Sync}) : e = c.events
  OBVIOUS
<1>3. /\ Len(d.events) = n + 1 /\ d.events[n + 1] = Sync
      /\ \A k \in 1..n : d.events[k] = c.events[k]
      /\ d.events # <<>>
  BY <1>1, <1>2
<1>4. \A k \in 1..n + 1 : k \in 1..n \/ k = n + 1
  BY <1>1
<1>5. \A k \in 1..n : k \in 1..n + 1
  BY <1>1
<1>6. \A i \in Ids : Pending(d, i) <=> Pending(c, i)
  <2>1. TAKE i \in Ids
  <2>2. i # Sync
    OBVIOUS
  <2>3. QED
    BY <1>1, <1>3, <1>4, <1>5, <2>2 DEF Pending
<1>7. \A k, l \in 1..Len(d.events) : d.events[k] = d.events[l] => k = l
  <2>1. \A k \in 1..n : d.events[k] # Sync
    BY <1>1, <1>3 DEF NoSync
  <2>2. \A k, l \in 1..n : d.events[k] = d.events[l] => k = l
    BY <1>1, <1>3 DEF TrackedIn
  <2>3. ASSUME NEW k \in 1..n + 1, NEW l \in 1..n + 1, d.events[k] = d.events[l]
        PROVE  k = l
    <3>1. (k \in 1..n \/ k = n + 1) /\ (l \in 1..n \/ l = n + 1)
      BY <1>4
    <3>2. QED
      BY <1>3, <2>1, <2>2, <2>3, <3>1
  <2>4. QED
    BY <1>3, <2>3
<1>8. \A i \in Ids : /\ Waiting(d, i) <=> Waiting(c, i)
                     /\ InPrevious(d, i) = InPrevious(c, i)
  BY DEF Waiting, InPrevious
<1>9. TrackedIn(d)
  <2>1. \A b \in Blocks : d.block[b].previous # NoId =>
                             d.transaction[d.block[b].previous].hook
    BY DEF TrackedIn
  <2>2. \A i \in Ids : Waiting(d, i) \/ Pending(d, i) => InEntries(i)
    BY <1>6, <1>8 DEF TrackedIn
  <2>3. notifying # NoId => ~Pending(d, notifying)
    BY <1>6 DEF TrackedIn
  <2>4. QED
    BY <1>7, <2>1, <2>2, <2>3 DEF TrackedIn
<1>10. QED
  BY <1>3, <1>6, <1>8, <1>9 DEF ReasonIn

\* The journal while the client makes a call.
Beside ==
    /\ UNCHANGED <<entries, hook, log, super, superBlock, logStart, logEnd, lastStart, flaw>>
    /\ unwritten' \in BOOLEAN /\ hasSub' \in BOOLEAN

\* The client starts a sync; what is to be written is marked, or nothing is.
SyncStarts(i, S) ==
    /\ Beside /\ UNCHANGED <<id, todo, at, stamp>>
    /\ call = NoCall /\ Call("sync", i, FALSE, S)
    /\ pc \in {"free", "inside", "write", "flush log"} /\ pc' \in {"free", "space"}
    /\ Kept' => Kept
    /\ pc' = "space" => Logged # {}

\* The call and the events then.
LEMMA SyncStartsIs ==
    ASSUME NEW i, NEW S, Call("sync", i, FALSE, S)
    PROVE  /\ UNCHANGED <<block, transaction, nextId, notifying, disk>>
           /\ \/ S = {} /\ call' = [NoCall EXCEPT !.op = "wait"] /\ events' = Append(events, Sync)
                 /\ UNCHANGED <<toWrite, written>>
              \/ S # {} /\ call' = [op |-> "sync", arg |-> i, hook |-> FALSE] /\ events' = events
                 /\ toWrite' = [toWrite EXCEPT !["client"] = S] /\ UNCHANGED written
           /\ call'.op \in {"sync", "wait"}
<1>1. CASE S = {}
  <2>1. /\ Becomes([Cache EXCEPT !.events = Append(@, Sync)])
        /\ call' = [NoCall EXCEPT !.op = "wait"] /\ UNCHANGED nextId
        /\ UNCHANGED <<toWrite, written, notifying, disk>>
    BY <1>1 DEF Call, Finish
  <2>2. QED
    BY <1>1, <2>1 DEF Becomes, Cache, NoCall
<1>2. CASE S # {}
  <2>1. /\ call' = [op |-> "sync", arg |-> i, hook |-> FALSE]
        /\ UNCHANGED <<block, transaction, nextId, events, written, notifying, disk>>
        /\ toWrite' = [toWrite EXCEPT !["client"] = S]
    BY <1>2, Zenon DEF Call
  <2>2. QED
    BY <1>2, <2>1
<1>3. QED
  BY <1>1, <1>2

\* The start of a sync.
LEMMA SyncStartsBase ==
    ASSUME Base, Inv1', NEW i, NEW S, SyncStarts(i, S),
           pc' = "space" =>
                /\ BusyWriting = {}
                /\ \A b \in Blocks : block[b].previous # NoId => b \in S
    PROVE  Base'
<1>1. /\ Inv1 /\ JournalTypes /\ Control /\ Tracked /\ TrackedIn(Cache) /\ Reasons
      /\ NoDiscards /\ SubOK /\ SpaceOK
  BY DEF Base, Tracked
<1>2. /\ UNCHANGED <<entries, hook, log, super, superBlock, logStart, logEnd, lastStart, flaw,
                     id, todo, at, stamp>>
      /\ unwritten' \in BOOLEAN /\ hasSub' \in BOOLEAN /\ call = NoCall
      /\ pc \in {"free", "inside", "write", "flush log"} /\ pc' \in {"free", "space"}
      /\ Kept' => Kept
      /\ pc' = "space" => Logged # {}
  BY DEF SyncStarts, Beside
<1>3. /\ UNCHANGED <<block, transaction, nextId, notifying>>
      /\ \/ S = {} /\ call' = [NoCall EXCEPT !.op = "wait"] /\ events' = Append(events, Sync)
            /\ UNCHANGED <<toWrite, written>>
         \/ S # {} /\ call' = [op |-> "sync", arg |-> i, hook |-> FALSE] /\ events' = events
            /\ toWrite' = [toWrite EXCEPT !["client"] = S] /\ UNCHANGED written
      /\ call'.op \in {"sync", "wait"}
  <2>1. Call("sync", i, FALSE, S)
    BY DEF SyncStarts
  <2>2. QED
    BY <2>1, SyncStartsIs
<1>4. NoSync(Cache) /\ events \in Seq(Ids \cup {Sync}) /\ notifying \in Ids \cup {NoId}
      /\ Cache.events = events
  <2>1. NoSync(Cache)
    BY <1>1, <1>2 DEF Inv1, SyncOK, NoSync, Cache, NoCall
  <2>2. QED
    BY <1>1, <2>1, InvParts DEF Inv1, Types, OtherTypes
<1>5. Quiet
  BY <1>3, QuietSame
<1>6. \A j \in Ids : Open(j)' <=> Open(j)
  BY <1>3, OpenSame
<1>7. Kept => id \in Ids /\ Open(id) /\ id + 1 = nextId
  BY <1>1, <1>2 DEF Control, NoCall
<1>8. pc' = "space" => Logged' # {}
  <2>1. ASSUME pc' = "space" PROVE Logged' = Logged
    <3>1. id \in Ids /\ Open(id)
      BY <1>2, <1>7, <2>1 DEF Kept, Owning
    <3>2. SameEntry
      BY <1>2, <1>5, <3>1, QuietEntry
    <3>3. QED
      BY <3>2 DEF SameEntry
  <2>2. QED
    BY <1>2, <2>1
<1>9. JournalTypes'
  BY <1>1, <1>2 DEF JournalTypes, Owning
<1>10. Control'
  <2>1. Kept' => id' \in Ids /\ Open(id)' /\ id' + 1 = nextId'
    <3>1. PICK j : j = id
      OBVIOUS
    <3>2. Kept => j \in Ids /\ Open(j) /\ j + 1 = nextId
      BY <1>7, <3>1
    <3>3. Kept' => j \in Ids /\ Open(j)' /\ j + 1 = nextId'
      BY <1>2, <1>3, <1>6, <3>2
    <3>4. QED
      BY <1>2, <3>1, <3>3 DEF Open
  <2>2. QED
    BY <1>2, <1>3, <1>8, <2>1 DEF Control, Owning, Entering
<1>11. Replaying' /\ EntryWriting' /\ NoDiscards'
  BY <1>1, <1>2, <1>3 DEF Replaying, EntryWriting, NoDiscards
<1>12. SubOK'
  <2>1. \A j \in Ids : /\ Divided(Cache, j)' <=> Divided(Cache, j)
                       /\ Open(j)' <=> Open(j)
    BY <1>3, OpenSame
  <2>2. pc' # "inside"
    BY <1>2
  <2>3. QED
    BY <1>1, <1>3, <2>1, <2>2 DEF SubOK
<1>13. /\ TrackedIn(Cache)' /\ \A j \in Ids : ReasonIn(Cache, j)' <=> ReasonIn(Cache, j)
       /\ S = {} => events' # <<>> /\ events'[Len(events')] = Sync
  <2>1. CASE S # {}
    <3>1. events' = events
      BY <1>3, <2>1
    <3>2. Cache' = Cache
      BY <1>3, <3>1 DEF Cache
    <3>6. UNCHANGED <<block, transaction, events, notifying, entries>>
      BY <1>2, <1>3, <3>1
    <3>3. TrackedIn(Cache)' <=> TrackedIn(Cache)
      BY <3>6 DEF TrackedIn, Waiting, Pending, InEntries, Cache
    <3>4. \A j \in Ids : ReasonIn(Cache, j)' <=> ReasonIn(Cache, j)
      BY <3>2 DEF ReasonIn, Waiting, Pending, InPrevious
    <3>5. QED
      BY <1>1, <2>1, <3>3, <3>4
  <2>2. CASE S = {}
    <3>1. events' = Append(events, Sync)
      BY <1>3, <2>2
    <3>2. PICK d : d = Cache'
      OBVIOUS
    <3>3. /\ d.block = Cache.block /\ d.transaction = Cache.transaction
          /\ d.events = Append(Cache.events, Sync) /\ d.events = events'
      BY <1>3, <3>1, <3>2 DEF Cache
    <3>4. /\ TrackedIn(d) /\ d.events # <<>> /\ d.events[Len(d.events)] = Sync
          /\ \A j \in Ids : ReasonIn(d, j) <=> ReasonIn(Cache, j)
      BY <1>1, <1>4, <3>3, SyncAppended
    <3>5. TrackedIn(Cache)'
      BY <1>2, <1>3, <3>2, <3>4 DEF TrackedIn, InEntries
    <3>6. QED
      BY <3>2, <3>3, <3>4, <3>5
  <2>3. QED
    BY <2>1, <2>2
<1>14. Tracked'
  <2>1. InEntries(notifying)' <=> InEntries(notifying)
    BY <1>2, <1>3 DEF InEntries
  <2>2. QED
    BY <1>1, <1>2, <1>3, <1>13, <2>1 DEF Tracked
<1>15. Reasons'
  <2>1. Mover = NoId
    BY <1>2 DEF Mover, Entering, Committing, NoCall
  <2>2. ASSUME NEW k \in 1..Len(entries) PROVE Reason(entries[k].id)'
    <3>1. PICK j \in Ids : j = entries[k].id
      BY <1>1, EntryTypes DEF JournalTypes
    <3>2. Reason(j)
      BY <1>1, <3>1 DEF Reasons
    <3>3. ReasonIn(Cache, j) \/ (notifying = j /\ hook = "none")
      BY <2>1, <3>2 DEF Reason
    <3>4. Reason(j)'
      BY <1>2, <1>3, <1>13, <3>3 DEF Reason
    <3>5. QED
      BY <1>2, <3>1, <3>4
  <2>3. ~Committing(call.op)'
    BY <1>3 DEF Committing
  <2>4. QED
    BY <1>2, <2>2, <2>3 DEF Reasons
<1>16. SpaceOK'
  <2>1. ASSUME pc' = "space"
        PROVE  /\ Busy("background")' = {}
               /\ \/ /\ call'.op = "sync"
                     /\ \A b \in Blocks : block'[b].previous # NoId => b \in Busy("client")'
                  \/ call'.op = "wait" /\ NoPrevious' /\ events' # <<>> /\ events'[Len(events')] = Sync
    <3>1. BusyWriting = {} /\ \A b \in Blocks : block[b].previous # NoId => b \in S
      BY <2>1
    <3>2. toWrite \in [Writers -> SUBSET Blocks] /\ "client" \in Writers
      BY <1>1 DEF Inv1, Types, OtherTypes, Writers
    <3>3. Busy("background")' = {}
      <4>1. toWrite["background"] = {} /\ written["background"] = {}
        BY <3>1 DEF Busy, BusyWriting
      <4>2. toWrite'["background"] = toWrite["background"] /\ written' = written
        BY <1>3, <3>2 DEF Writers
      <4>3. QED
        BY <4>1, <4>2 DEF Busy
    <3>4. CASE S = {}
      <4>1. NoPrevious'
        BY <1>3, <3>1, <3>4 DEF NoPrevious
      <4>2. call'.op = "wait"
        BY <1>3, <3>4 DEF NoCall
      <4>3. QED
        BY <1>13, <3>3, <3>4, <4>1, <4>2
    <3>5. CASE S # {}
      <4>1. call'.op = "sync" /\ toWrite' = [toWrite EXCEPT !["client"] = S]
        BY <1>3, <3>5
      <4>2. Busy("client")' = S \cup written["client"]
        BY <1>3, <3>2, <3>5, <4>1 DEF Busy
      <4>3. QED
        BY <1>3, <3>1, <3>3, <4>1, <4>2
    <3>6. QED
      BY <3>4, <3>5
  <2>2. entries' = <<>> => superBlock'.start = logEnd' /\ (hook' = "none" => logStart' = logEnd')
    BY <1>1, <1>2 DEF SpaceOK
  <2>3. pc' = "space" =>
        /\ Busy("background")' = {}
        /\ \/ /\ call'.op = "sync"
              /\ \A b \in Blocks : block'[b].previous # NoId => b \in Busy("client")'
           \/ call'.op = "wait" /\ NoPrevious' /\ events' # <<>> /\ events'[Len(events')] = Sync
    BY <2>1
  <2>4. QED
    BY <2>2, <2>3 DEF SpaceOK
<1>17. QED
  BY <1>9, <1>10, <1>11, <1>12, <1>14, <1>15, <1>16 DEF Base

\* The blocks of the volume are written.
LEMMA FlushBlocksBase ==
    ASSUME Base, FlushBlocks
    PROVE  Base'
<1>1. Inv1 /\ JournalTypes
  BY DEF Base
<1>2. pc = "free" /\ ~unwritten /\ SyncAll /\ UNCHANGED journalVars
  BY DEF FlushBlocks
<1>3. Inv1'
  BY <1>1, <1>2, SyncAllInv1
<1>4. PICK S : S = {b \in Blocks : CanBeWritten(b)}
  OBVIOUS
<1>5. SyncStarts(NoId, S)
  <2>1. Call("sync", NoId, FALSE, S) /\ call = NoCall
    BY <1>2, <1>4 DEF SyncAll, Idle
  <2>2. /\ UNCHANGED <<entries, hook, log, super, superBlock, logStart, logEnd, lastStart, flaw,
                       id, todo, at, stamp, pc, unwritten, hasSub>>
    BY <1>2 DEF journalVars
  <2>3. Kept' <=> Kept
    BY <2>2 DEF Kept
  <2>4. Beside
    BY <1>1, <2>2 DEF Beside, JournalTypes
  <2>5. QED
    BY <1>2, <2>1, <2>2, <2>3, <2>4 DEF SyncStarts
<1>6. pc' # "space"
  BY <1>2 DEF journalVars
<1>7. QED
  BY <1>3, <1>5, <1>6, SyncStartsBase

\* What the client's writer has written is done, and its sync waits.
LEMMA SyncWrittenBase ==
    ASSUME Base, ClientWritten, call.op = "sync", JournalSame
    PROVE  Base'
<1>1. /\ Inv1 /\ Inv1' /\ JournalTypes /\ Control /\ Tracked /\ TrackedIn(Cache) /\ Reasons /\ SpaceOK
  BY ClientWrittenInv1 DEF Base, Tracked
<1>2. PICK S : S = written["client"]
  OBVIOUS
<1>3. PICK d : d = BlocksDone(Cache, S)
  OBVIOUS
<1>4. CallMayFinish(d, S)
  BY <1>1, <1>2, <1>3, ClientWrittenParts
<1>5. /\ CacheOK(d, nextId) /\ Finish(d, call.op, call.arg, call.hook) /\ NoSync(d)
      /\ S \in SUBSET Blocks
      /\ Busy("client")' = {} /\ Busy("background")' = Busy("background")
      /\ \A b \in Blocks : d.block[b] = IF b \in S THEN Done(block[b]) ELSE block[b]
  BY <1>4 DEF CallMayFinish
<1>6. d \in CacheType /\ d.events \in Seq(Ids \cup {Sync})
  BY <1>5, CacheParts DEF CacheOK
<1>7. /\ block' = d.block /\ transaction' = d.transaction
      /\ events' = Append(d.events, Sync) /\ nextId' = nextId
      /\ call' = [NoCall EXCEPT !.op = "wait"]
  <2>1. Becomes([d EXCEPT !.events = Append(@, Sync)]) /\ UNCHANGED nextId
        /\ call' = [NoCall EXCEPT !.op = "wait"]
    BY <1>5 DEF Finish
  <2>2. QED
    BY <1>6, <2>1 DEF Becomes, CacheType
<1>8. /\ toWrite["client"] = {} /\ S # {} /\ UNCHANGED <<notifying, toWrite>>
  BY <1>2 DEF ClientWritten, WriteEnds
<1>9. /\ UNCHANGED <<log, logEnd, unwritten, hasSub, id, pc, todo, at, lastStart, stamp>>
      /\ UNCHANGED <<entries, hook, superBlock, logStart>>
  BY DEF JournalSame, journalVars
<1>10. Quiet
  BY <1>1, <1>3, <1>5, <1>7, QuietDone
<1>11. CallFrame /\ call'.op = "wait"
  BY <1>7 DEF CallFrame, NoCall
<1>12. pc # "replay"
  <2>1. "client" \in Writers
    BY DEF Writers
  <2>2. QED
    BY <1>2, <1>8, <2>1, NotReplaying DEF Base
<1>13. JournalTypes'
  BY TypesSame DEF Base
<1>14. /\ TrackedIn(d) /\ \A i \in Ids : ReasonIn(Cache, i) => ReasonIn(d, i)
  BY <1>1, <1>3, <1>5, TrackedDone
<1>15. PICK c : c = Cache'
  OBVIOUS
<1>16. /\ c.block = d.block /\ c.transaction = d.transaction /\ c.events = Append(d.events, Sync)
       /\ c.events = events'
  BY <1>7, <1>15 DEF Cache
<1>17. notifying \in Ids \cup {NoId}
  BY <1>1 DEF Inv1, Types, OtherTypes
<1>18. /\ TrackedIn(c) /\ c.events # <<>> /\ c.events[Len(c.events)] = Sync
       /\ \A i \in Ids : ReasonIn(c, i) <=> ReasonIn(d, i)
  BY <1>5, <1>6, <1>14, <1>16, <1>17, SyncAppended
<1>19. Tracked'
  <2>1. TrackedIn(Cache)'
    BY <1>8, <1>9, <1>15, <1>18 DEF TrackedIn, InEntries
  <2>2. InEntries(notifying)' <=> InEntries(notifying)
    BY <1>8, <1>9 DEF InEntries
  <2>3. QED
    BY <1>1, <1>8, <1>9, <2>1, <2>2 DEF Tracked
<1>20. Reasons'
  <2>1. \A i \in Ids : ReasonIn(Cache, i)' <=> ReasonIn(c, i)
    BY <1>15 DEF ReasonIn, Waiting, Pending, InPrevious
  <2>2. \A i \in Ids : ReasonIn(Cache, i) \/ (notifying = i /\ hook = "none") =>
                       ReasonIn(Cache, i)' \/ (notifying' = i /\ hook' = "none")
    BY <1>8, <1>9, <1>14, <1>18, <2>1
  <2>3. QED
    BY <1>1, <1>9, <1>10, <1>11, <2>2, ReasonsStay
<1>21. SpaceOK'
  <2>1. ASSUME pc = "space"
        PROVE  /\ Busy("background")' = {} /\ NoPrevious'
               /\ events' # <<>> /\ events'[Len(events')] = Sync
    <3>1. /\ Busy("background") = {}
          /\ \A b \in Blocks : block[b].previous # NoId => b \in S
      BY <1>1, <1>2, <1>8, <2>1 DEF SpaceOK, Busy, NoCall
    <3>2. \A b \in Blocks : block[b] \in BlockType
      BY <1>1, InvParts
    <3>3. NoPrevious'
      BY <1>5, <1>7, <3>1, <3>2, DoneType DEF NoPrevious
    <3>4. QED
      BY <1>5, <1>16, <1>18, <3>1, <3>3
  <2>2. entries' = <<>> /\ pc' \notin {"flush", "add", "replay"} =>
            superBlock'.start = logEnd' /\ (hook' = "none" => logStart' = logEnd')
    BY <1>1, <1>9 DEF SpaceOK
  <2>3. QED
    BY <1>9, <1>11, <2>1, <2>2 DEF SpaceOK
<1>22. QED
  BY <1>1, <1>9, <1>10, <1>11, <1>12, <1>13, <1>19, <1>20, <1>21, QuietBase

\* A client transaction is done: it waits for others, or is to be written.
LEMMA UnlockDoneBase ==
    ASSUME Base, UnlockDone
    PROVE  Base'
<1>1. Inv1 /\ JournalTypes /\ Control /\ SpaceOK
  BY DEF Base
<1>2. /\ pc = "inside" /\ TransactionLock /\ call = NoCall
      /\ UNCHANGED <<entries, hook, log, super, superBlock, logStart, logEnd, lastStart, flaw,
                     todo, at, id, hasSub, stamp>>
      /\ \/ pc' = "write" /\ UNCHANGED cacheVars /\ UNCHANGED unwritten
         \/ /\ unwritten' = TRUE /\ pc' = "free"
            /\ SyncTransaction(id) \/ UNCHANGED cacheVars
  BY DEF UnlockDone, TransactionLock, Idle, logVars
<1>3. Kept' => Kept
  BY <1>2 DEF Kept, Owning
<1>4. CASE UNCHANGED cacheVars
  <2>1. pc' \in {"write", "free"} /\ unwritten' \in BOOLEAN
    BY <1>1, <1>2 DEF JournalTypes
  <2>2. Progress
    BY <1>2, <1>3, <1>4, <2>1 DEF Progress, Entering
  <2>3. JournalTypes'
    BY <1>1, <1>2, <2>1 DEF JournalTypes, Owning
  <2>4. SpaceOK'
    BY <1>1, <1>2, <2>1, ProgressSpace
  <2>5. EntryWriting'
    BY <2>1 DEF EntryWriting
  <2>6. QED
    BY <2>2, <2>3, <2>4, <2>5, ProgressBase
<1>5. CASE SyncTransaction(id) /\ unwritten' = TRUE /\ pc' = "free"
  <2>1. id \in Ids
    BY <1>1, <1>2 DEF Control, Kept, Owning, NoCall
  <2>2. Inv1'
    BY <1>1, <1>5, <2>1, SyncTransactionInv1
  <2>3. PICK S : Call("sync", id, FALSE, S)
    BY <1>5 DEF SyncTransaction
  <2>4. SyncStarts(id, S)
    BY <1>1, <1>2, <1>3, <1>5, <2>3 DEF SyncStarts, Beside, JournalTypes
  <2>5. pc' # "space"
    BY <1>5
  <2>6. QED
    BY <2>2, <2>4, <2>5, SyncStartsBase
<1>6. QED
  BY <1>2, <1>4, <1>5

\* The journal syncs before it writes a transaction to the log, to have space for it.
LEMMA SyncSpaceBase ==
    ASSUME Base, PrepareEntry, pc' = "space"
    PROVE  Base'
<1>1. Inv1 /\ JournalTypes /\ Control
  BY DEF Base
<1>2. /\ pc \in {"write", "flush log"} /\ call = NoCall /\ BusyWriting = {}
      /\ UNCHANGED <<entries, hook, log, super, superBlock, logStart, logEnd, lastStart, flaw,
                     todo, at, id, unwritten, stamp>>
      /\ hasSub' = FALSE /\ Logged # {} /\ SyncTransaction(id)
  BY DEF PrepareEntry, TransactionLock, Idle
<1>3. id \in Ids /\ id + 1 = nextId
  BY <1>1, <1>2 DEF Control, Kept, Owning, NoCall
<1>4. Inv1'
  BY <1>1, <1>2, <1>3, SyncTransactionInv1
<1>5. PICK S : /\ S = UNION {InPrevious(Cache, j) : j \in {k \in 1..id : transaction[k].state = "closed"}}
               /\ Call("sync", id, FALSE, S)
  BY <1>2 DEF SyncTransaction
<1>6. Kept' => Kept
  BY <1>2 DEF Kept, Owning
<1>7. SyncStarts(id, S)
  BY <1>1, <1>2, <1>5, <1>6 DEF SyncStarts, Beside, JournalTypes
<1>8. ASSUME NEW b \in Blocks, block[b].previous # NoId PROVE b \in S
  <2>1. /\ CacheOK(Cache, nextId) /\ Cache.transaction = transaction /\ Cache.block = block
        /\ block[b] \in BlockType
    BY <1>1, InvParts
  <2>2. PICK p \in Ids : p = block[b].previous
    BY <1>8, <2>1 DEF BlockType
  <2>3. b \in InPrevious(Cache, p)
    BY <2>1, <2>2 DEF InPrevious
  <2>4. transaction[p].state = "closed"
    BY <2>1, <2>3, PointsTo
  <2>5. ~(p >= nextId)
    BY <2>1, <2>4, CacheParts DEF Transactions
  <2>6. p \in 1..id
    <3>1. id \in Nat /\ p \in Nat /\ p # 0
      BY <1>3
    <3>2. QED
      BY <1>3, <2>5, <3>1
  <2>7. QED
    BY <1>5, <2>3, <2>4, <2>6
<1>9. QED
  BY <1>2, <1>4, <1>7, <1>8, SyncStartsBase

-----------------------------------------------------------------------------
(* A transaction leaves the journal: it ends, or its sub transaction is detached *)

\* A state c of the cache in which this may be done with transaction i.
MayLeave(c, op, i, listener) ==
    /\ CacheOK(c, nextId) /\ nextId \in Nat /\ op \in {"end", "detach"} /\ i \in Ids
    /\ listener \in BOOLEAN /\ Closing(c, nextId, op, i, {})
    /\ LeavingOK(c, op, i, listener) /\ TrackedIn(c)
    /\ \A b \in Blocks : /\ ~c.block[b].discard
                         /\ c.block[b].transaction # NoId => c.block[b].original # NoData

\* What becomes of a block r of it: s.
LeftBehind(r, op, i, j, s) ==
    /\ s.current = r.current /\ s.cached = r.cached /\ ~s.discard /\ s.parent = NoData
    /\ s.previous = IF op = "detach" /\ r.parent = NoData THEN NoId ELSE i
    /\ s.transaction = IF op = "detach" /\ r.parent # Current THEN j ELSE NoId
    /\ s.transaction # NoId =>
            s.original = IF r.parent = NoData THEN r.original ELSE r.parent

\* What becomes of everything.
Leaves(c, op, i, listener) ==
    /\ events' = c.events /\ call' = NoCall
    /\ nextId' = IF op = "detach" THEN nextId + 1 ELSE nextId
    /\ \A b \in Blocks : IF c.block[b].transaction = i
                         THEN LeftBehind(c.block[b], op, i, nextId, block'[b])
                         ELSE block'[b] = c.block[b]
    /\ transaction'[i].state = "closed" /\ transaction'[i].hook = listener
    /\ op = "detach" => /\ nextId \in Ids /\ nextId # i /\ c.transaction[nextId].state = "gone"
                        /\ transaction'[nextId].state = "open" /\ ~transaction'[nextId].hasSub
    /\ \A j \in Ids \ {i} : (op = "detach" /\ j = nextId) \/ transaction'[j] = c.transaction[j]

\* It ends.
LEMMA LeavesEnd ==
    ASSUME NEW c, NEW i, NEW listener, MayLeave(c, "end", i, listener),
           Finish(c, "end", i, listener)
    PROVE  Leaves(c, "end", i, listener)
<1>1. /\ CacheOK(c, nextId) /\ nextId \in Nat /\ i \in Ids /\ listener \in BOOLEAN /\ IsOpen(c, i)
      /\ \A b \in Blocks : ~c.block[b].discard
      /\ \A b \in InTransaction(c, i) : c.block[b].previous = NoId
  BY DEF MayLeave, Closing
<1>2. PICK d : d = Ended(c, i, listener)
  OBVIOUS
<1>3. /\ block' = d.block /\ transaction' = d.transaction /\ events' = d.events
      /\ call' = NoCall /\ nextId' = nextId
  BY <1>2 DEF Finish, Becomes
<1>4. /\ d.events = c.events
      /\ \A b \in Blocks : d.block[b] = IF c.block[b].transaction = i
                                        THEN EndedBlock(c.block[b], i) ELSE c.block[b]
      /\ d.transaction[i].state = "closed"
      /\ \A j \in Ids : j # i => d.transaction[j] = c.transaction[j]
  <2>1. PICK next \in Nat : next = nextId
    BY <1>1
  <2>2. CacheOK(c, next)
    BY <1>1, <2>1
  <2>3. IsOpen(c, i) /\ listener \in BOOLEAN /\ i \in Ids
    BY <1>1
  <2>4. /\ d.events = c.events
        /\ \A b \in Blocks : d.block[b] = IF c.block[b].transaction = i
                                          THEN EndedBlock(c.block[b], i) ELSE c.block[b]
        /\ d.transaction[i].state = "closed"
        /\ d.transaction[i].num = c.transaction[i].num - Cardinality(Discarded(c, i))
        /\ \A j \in Ids : j # i => d.transaction[j] = c.transaction[j]
    BY <1>2, <2>2, <2>3, EndedParts
  <2>5. QED
    BY <2>4
<1>5. d.transaction[i].hook = listener
  <2>1. c.transaction \in [Ids -> TransactionType]
    BY <1>1, CacheParts
  <2>2. PICK n : n = c.transaction[i].num - Cardinality(Discarded(c, i))
    OBVIOUS
  <2>3. d.transaction = [c.transaction EXCEPT
            ![i] = [@ EXCEPT !.state = "closed", !.hook = listener, !.num = n]]
    BY <1>2, <2>2 DEF Ended
  <2>4. QED
    BY <1>1, <2>1, <2>3 DEF TransactionType
<1>6. ASSUME NEW b \in Blocks, c.block[b].transaction = i
      PROVE  LeftBehind(c.block[b], "end", i, nextId, block'[b])
  <2>1. c.block[b] \in BlockType /\ ShapeOf(c, c.block[b]) /\ ~c.block[b].discard
    BY <1>1, CacheParts
  <2>2. block'[b] = EndedBlock(c.block[b], i)
    BY <1>3, <1>4, <1>6
  <2>3. PICK r \in BlockType : r = c.block[b]
    BY <2>1
  <2>4. PICK s : s = EndedBlock(r, i)
    OBVIOUS
  <2>5. /\ s.transaction = NoId /\ s.previous = i /\ s.current = r.current /\ s.parent = NoData
        /\ s.cached = r.cached /\ ~s.discard
    BY <1>1, <1>4, <1>6, <2>1, <2>3, <2>4, EndedBlockIs
  <2>6. QED
    BY <2>2, <2>3, <2>4, <2>5 DEF LeftBehind
<1>7. QED
  BY <1>1, <1>3, <1>4, <1>5, <1>6 DEF Leaves

\* Its sub transaction is detached.
LEMMA LeavesDetached ==
    ASSUME NEW c, NEW i, NEW listener, MayLeave(c, "detach", i, listener),
           Finish(c, "detach", i, listener)
    PROVE  Leaves(c, "detach", i, listener)
<1>1. /\ CacheOK(c, nextId) /\ nextId \in Nat /\ i \in Ids /\ listener \in BOOLEAN /\ IsOpen(c, i)
      /\ \A b \in Blocks : ~c.block[b].discard
      /\ \A b \in InTransaction(c, i) : c.block[b].previous = NoId
      /\ nextId \in Ids /\ Divided(c, i)
  BY DEF MayLeave, Closing
<1>2. PICK d : d = DetachedSub(c, i, nextId, listener)
  OBVIOUS
<1>3. /\ block' = d.block /\ transaction' = d.transaction /\ events' = d.events
      /\ call' = NoCall /\ nextId' = nextId + 1
  BY <1>2 DEF Finish, Becomes
<1>4. /\ d = [block |-> d.block, transaction |-> d.transaction, events |-> c.events]
      /\ d.block = [b \in Blocks |-> IF c.block[b].transaction = i
                                     THEN Detached(c.block[b], i, nextId) ELSE c.block[b]]
      /\ Renewed(c, d, i, nextId)
  BY <1>1, <1>2, DetachedParts
<1>5. /\ d.events = c.events
      /\ nextId # i /\ c.transaction[nextId].state = "gone"
      /\ d.transaction[i].state = "closed" /\ IsOpen(d, nextId) /\ ~d.transaction[nextId].hasSub
      /\ \A k \in Ids : k \notin {i, nextId} => d.transaction[k] = c.transaction[k]
  BY <1>4 DEF Renewed
<1>6. d.transaction[i].hook = listener
  <2>1. c.transaction \in [Ids -> TransactionType]
    BY <1>1, CacheParts
  <2>2. PICK n, z, g : /\ n = c.transaction[i].main - Cardinality(Discarded(c, i)) /\ z = 0
                       /\ g = [Gone EXCEPT !.state = "open", !.num = c.transaction[i].sub]
    OBVIOUS
  <2>3. d.transaction = [c.transaction EXCEPT
            ![i] = [@ EXCEPT !.state = "closed", !.hook = listener, !.hasSub = FALSE, !.sub = z,
                             !.num = n],
            ![nextId] = g]
    BY <1>2, <2>2 DEF DetachedSub
  <2>4. QED
    BY <1>1, <1>5, <2>1, <2>3 DEF TransactionType
<1>7. ASSUME NEW b \in Blocks, c.block[b].transaction = i
      PROVE  LeftBehind(c.block[b], "detach", i, nextId, block'[b])
  <2>1. c.block[b] \in BlockType /\ ShapeOf(c, c.block[b]) /\ ~c.block[b].discard
    BY <1>1, CacheParts
  <2>2. block'[b] = Detached(c.block[b], i, nextId)
    BY <1>3, <1>4, <1>7
  <2>3. PICK r \in BlockType : r = c.block[b]
    BY <2>1
  <2>4. PICK s : s = Detached(r, i, nextId)
    OBVIOUS
  <2>5. b \in InTransaction(c, i) /\ DividedBlock(r) /\ r.previous = NoId
    BY <1>1, <1>7, <2>3 DEF InTransaction, Divided
  <2>6. /\ ShapeOf(d, s)
        /\ s.transaction = IF r.parent = Current THEN NoId ELSE nextId
        /\ s.previous = IF r.parent = NoData THEN NoId ELSE i
        /\ s.current = r.current /\ s.parent = NoData
        /\ s.original = IF r.parent = NoData THEN r.original
                        ELSE IF r.parent = Current THEN NoData ELSE r.parent
    BY <1>1, <1>5, <1>7, <2>1, <2>3, <2>4, <2>5, DetachedIs
  <2>7. s.cached = r.cached /\ s.discard = r.discard
    BY <2>1, <2>3, <2>4 DEF Detached, BlockType
  <2>8. QED
    BY <2>1, <2>2, <2>3, <2>4, <2>6, <2>7 DEF LeftBehind
<1>8. QED
  BY <1>1, <1>3, <1>4, <1>5, <1>6, <1>7 DEF Leaves, IsOpen

\* Either.
LEMMA LeavesIs ==
    ASSUME NEW c, NEW op, NEW i, NEW listener, MayLeave(c, op, i, listener),
           Finish(c, op, i, listener)
    PROVE  Leaves(c, op, i, listener)
<1>1. op = "end" \/ op = "detach"
  BY DEF MayLeave
<1>2. QED
  BY <1>1, LeavesEnd, LeavesDetached

\* The entries then: all have a reason but that of i, unless it leaves blocks to be written.
LEMMA LeavesTracked ==
    ASSUME NEW c, NEW op, NEW i, NEW listener, MayLeave(c, op, i, listener),
           Leaves(c, op, i, listener), UNCHANGED <<notifying, entries>>
    PROVE  /\ TrackedIn(Cache)'
           /\ \A j \in Ids : ReasonIn(c, j) => ReasonIn(Cache, j)'
           /\ InEntries(i) => ReasonIn(Cache, i)'
<1>1. /\ CacheOK(c, nextId) /\ nextId \in Nat /\ op \in {"end", "detach"} /\ i \in Ids
      /\ LeavingOK(c, op, i, listener) /\ TrackedIn(c) /\ IsOpen(c, i)
      /\ \A b \in InTransaction(c, i) : c.block[b].previous = NoId
      /\ listener \in BOOLEAN
  BY DEF MayLeave, Closing
<1>2. /\ events' = c.events
      /\ \A b \in Blocks : c.block[b].transaction = i =>
            block'[b].previous = IF op = "detach" /\ c.block[b].parent = NoData THEN NoId ELSE i
      /\ \A b \in Blocks : c.block[b].transaction # i => block'[b] = c.block[b]
      /\ transaction'[i].state = "closed" /\ transaction'[i].hook = listener
      /\ op = "detach" => /\ nextId \in Ids /\ nextId # i /\ c.transaction[nextId].state = "gone"
                          /\ transaction'[nextId].state = "open"
      /\ \A j \in Ids \ {i} : (op = "detach" /\ j = nextId) \/ transaction'[j] = c.transaction[j]
  BY DEF Leaves, LeftBehind
<1>3. Parted(c, op, i) # {} => listener
  BY <1>1 DEF LeavingOK
<1>4. ASSUME NEW b \in Blocks, block'[b].previous # NoId
      PROVE  transaction'[block'[b].previous].hook
  <2>1. CASE c.block[b].transaction = i
    <3>1. block'[b].previous = i /\ b \in Parted(c, op, i)
      BY <1>2, <1>4, <2>1 DEF Parted, InTransaction
    <3>2. QED
      BY <1>2, <1>3, <3>1
  <2>2. CASE c.block[b].transaction # i
    <3>1. block'[b] = c.block[b]
      BY <1>2, <2>2
    <3>2. PICK j \in Ids : j = c.block[b].previous
      <4>1. c.block[b] \in BlockType
        BY <1>1, CacheParts
      <4>2. QED
        BY <1>4, <3>1, <4>1 DEF BlockType
    <3>3. c.transaction[j].state = "closed"
      <4>1. b \in InPrevious(c, j)
        BY <3>2 DEF InPrevious
      <4>2. QED
        BY <1>1, <4>1, PointsTo
    <3>4. j # i /\ (op = "detach" => j # nextId)
      BY <1>1, <1>2, <3>3 DEF IsOpen
    <3>5. c.transaction[j].hook
      BY <1>1, <1>4, <3>1, <3>2 DEF TrackedIn
    <3>6. QED
      BY <1>2, <3>1, <3>2, <3>4, <3>5
  <2>3. QED
    BY <2>1, <2>2
<1>5. ASSUME NEW j \in Ids, transaction'[j].state = "closed", transaction'[j].hook PROVE InEntries(j)
  <2>1. CASE j = i
    BY <1>1, <1>2, <1>5, <2>1 DEF LeavingOK
  <2>2. CASE j # i
    <3>1. transaction'[j] = c.transaction[j]
      BY <1>2, <1>5, <2>2
    <3>2. Waiting(c, j)
      BY <1>5, <3>1 DEF Waiting
    <3>3. QED
      BY <1>1, <3>2 DEF TrackedIn
  <2>3. QED
    BY <2>1, <2>2
<1>6. PICK d : d = Cache'
  OBVIOUS
<1>7. d.events = c.events /\ d.block = block' /\ d.transaction = transaction'
  BY <1>2, <1>6 DEF Cache
<1>8. \A j : Pending(d, j) <=> Pending(c, j)
  BY <1>7 DEF Pending
<1>9. TrackedIn(d)
  <2>1. \A b \in Blocks : d.block[b].previous # NoId =>
                             d.transaction[d.block[b].previous].hook
    BY <1>4, <1>7
  <2>2. \A j \in Ids : Waiting(d, j) \/ Pending(d, j) => InEntries(j)
    <3>1. \A j \in Ids : Waiting(d, j) => InEntries(j)
      BY <1>5, <1>7 DEF Waiting
    <3>2. QED
      BY <1>1, <1>8, <3>1 DEF TrackedIn
  <2>3. /\ \A k, l \in 1..Len(d.events) : d.events[k] = d.events[l] => k = l
        /\ notifying # NoId => ~Pending(d, notifying)
    BY <1>1, <1>7, <1>8 DEF TrackedIn
  <2>4. QED
    BY <2>1, <2>2, <2>3 DEF TrackedIn
<1>10. TrackedIn(Cache)'
  BY <1>6, <1>9 DEF TrackedIn, InEntries
<1>11. ASSUME NEW j \in Ids, ReasonIn(c, j) PROVE ReasonIn(d, j)
  <2>1. CASE Pending(c, j)
    BY <1>8, <2>1 DEF ReasonIn
  <2>2. CASE Waiting(c, j) /\ InPrevious(c, j) # {}
    <3>1. PICK b \in Blocks : c.block[b].previous = j
      BY <2>2 DEF InPrevious
    <3>2. c.block[b].transaction # i
      BY <1>1, <3>1 DEF InTransaction
    <3>3. j # i /\ (op = "detach" => j # nextId)
      BY <1>1, <1>2, <2>2 DEF IsOpen, Waiting
    <3>4. Waiting(d, j)
      BY <1>2, <1>7, <2>2, <3>3 DEF Waiting
    <3>5. b \in InPrevious(d, j)
      BY <1>2, <1>7, <3>1, <3>2 DEF InPrevious
    <3>6. QED
      BY <3>4, <3>5 DEF ReasonIn
  <2>3. QED
    BY <1>11, <2>1, <2>2 DEF ReasonIn
<1>12. ASSUME InEntries(i) PROVE ReasonIn(d, i)
  <2>1. listener = TRUE /\ Parted(c, op, i) # {}
    BY <1>1, <1>12 DEF LeavingOK
  <2>2. PICK b \in Blocks : c.block[b].transaction = i /\ (op = "detach" => c.block[b].parent # NoData)
    BY <2>1 DEF Parted, InTransaction
  <2>3. block'[b].previous = i
    BY <1>2, <2>2
  <2>4. b \in InPrevious(d, i) /\ Waiting(d, i)
    BY <1>2, <1>7, <2>1, <2>3 DEF InPrevious, Waiting
  <2>5. QED
    BY <2>4 DEF ReasonIn
<1>13. \A j \in Ids : ReasonIn(Cache, j)' <=> ReasonIn(d, j)
  BY <1>6 DEF ReasonIn, Waiting, Pending, InPrevious
<1>14. QED
  BY <1>1, <1>10, <1>11, <1>12, <1>13

\* Where the client is then.
Left(op) ==
    /\ pc' \in {"free", "failed"}
    /\ op = "end" => ~Kept'
    /\ op = "detach" => unwritten' /\ id' = nextId

\* Whatever else is known before, the first invariant holds then.
LEMMA LeavesBase ==
    ASSUME Inv1', JournalTypes', SpaceOK', Tracked, entries \in Seq(Entries),
           NEW c, NEW op, NEW i, NEW listener, MayLeave(c, op, i, listener),
           Leaves(c, op, i, listener), Left(op), UNCHANGED <<notifying, entries, hook>>,
           \A k \in 1..Len(entries) : LET j == entries[k].id IN
                ReasonIn(c, j) \/ (notifying = j /\ hook = "none") \/ j = i
    PROVE  Base'
<1>1. /\ CacheOK(c, nextId) /\ nextId \in Nat /\ op \in {"end", "detach"} /\ i \in Ids
      /\ IsOpen(c, i)
      /\ \A b \in Blocks : /\ ~c.block[b].discard
                           /\ c.block[b].transaction # NoId => c.block[b].original # NoData
  BY DEF MayLeave, Closing
<1>2. /\ call' = NoCall
      /\ nextId' = IF op = "detach" THEN nextId + 1 ELSE nextId
      /\ \A b \in Blocks : IF c.block[b].transaction = i
                           THEN LeftBehind(c.block[b], op, i, nextId, block'[b])
                           ELSE block'[b] = c.block[b]
      /\ transaction'[i].state = "closed"
      /\ op = "detach" => /\ nextId \in Ids /\ c.transaction[nextId].state = "gone"
                          /\ transaction'[nextId].state = "open" /\ ~transaction'[nextId].hasSub
      /\ \A j \in Ids \ {i} : (op = "detach" /\ j = nextId) \/ transaction'[j] = c.transaction[j]
  BY DEF Leaves
<1>3. pc' \in {"free", "failed"} /\ (op = "end" => ~Kept') /\ (op = "detach" => unwritten' /\ id' = nextId)
  BY DEF Left
<1>4. NoCall.op = "none"
  BY DEF NoCall
<1>5. Control'
  <2>1. Kept' => id' \in Ids /\ Open(id)' /\ id' + 1 = nextId'
    BY <1>1, <1>2, <1>3 DEF Open
  <2>2. QED
    BY <1>2, <1>3, <1>4, <2>1 DEF Control, Owning, Entering
<1>6. Replaying' /\ EntryWriting'
  BY <1>3 DEF Replaying, EntryWriting
<1>7. NoDiscards'
  BY <1>1, <1>2, SMTT(20) DEF NoDiscards, LeftBehind
<1>8. SubOK'
  <2>1. ASSUME NEW j \in Ids, Open(j)', transaction'[j].hasSub PROVE FALSE
    <3>1. j # i
      BY <1>2, <2>1 DEF Open
    <3>2. ~(op = "detach" /\ j = nextId)
      BY <1>2, <2>1
    <3>3. IsOpen(c, j)
      BY <1>2, <2>1, <3>1, <3>2 DEF Open, IsOpen
    <3>4. QED
      BY <1>1, <3>1, <3>3, CacheParts DEF Transactions
  <2>2. QED
    BY <2>1 DEF SubOK
<1>9. /\ TrackedIn(Cache)'
      /\ \A j \in Ids : ReasonIn(c, j) => ReasonIn(Cache, j)'
      /\ InEntries(i) => ReasonIn(Cache, i)'
  BY LeavesTracked
<1>10. Tracked'
  <2>1. InEntries(notifying)' <=> InEntries(notifying)
    BY DEF InEntries
  <2>2. QED
    BY <1>9, <2>1 DEF Tracked
<1>11. Reasons'
  <2>1. ASSUME NEW k \in 1..Len(entries) PROVE Reason(entries[k].id)'
    <3>1. PICK j \in Ids : j = entries[k].id
      BY EntryTypes
    <3>2. ReasonIn(c, j) \/ (notifying = j /\ hook = "none") \/ j = i
      BY <3>1
    <3>3. InEntries(j)
      BY <3>1 DEF InEntries
    <3>4. Reason(j)'
      BY <1>9, <3>2, <3>3 DEF Reason
    <3>5. QED
      BY <3>1, <3>4
  <2>2. ~Committing(call.op)'
    BY <1>2, <1>4 DEF Committing
  <2>3. QED
    BY <1>3, <2>1, <2>2 DEF Reasons
<1>12. QED
  BY <1>5, <1>6, <1>7, <1>8, <1>10, <1>11 DEF Base

\* The call is one of these.
LeaveOp == IF Detaching THEN "detach" ELSE "end"

\* The journal calls cache_end_transaction() or cache_detach_sub_transaction().
LeaveStarts(listener) ==
    /\ Leave(listener) /\ listener \in BOOLEAN
    /\ pc \in {"write", "flush log", "ending"} /\ pc' \in {"free", "failed"}
    /\ pc' = "failed" => Detaching
    /\ UNCHANGED <<entries, hook, superBlock, logStart, logEnd>>
    /\ LeavingOK(Cache, LeaveOp, id, listener)
    /\ \A k \in 1..Len(entries) : LET j == entries[k].id IN
            ReasonIn(Cache, j) \/ (notifying = j /\ hook = "none") \/ j = id

\* What it does.
LEMMA LeaveStartsIs ==
    ASSUME Base, NEW listener, LeaveStarts(listener)
    PROVE  /\ Inv1' /\ id \in Ids /\ Open(id) /\ call = NoCall /\ Left(LeaveOp)
           /\ Call(LeaveOp, id, listener, InBoth(id)) /\ LeaveOp \in {"end", "detach"}
           /\ LeaveOp = "detach" => transaction[id].hasSub /\ nextId \in Ids
           /\ notifying' = notifying
<1>1. Inv1 /\ Control /\ SubOK /\ NoDiscards
  BY DEF Base
<1>2. /\ Leave(listener) /\ listener \in BOOLEAN
      /\ pc \in {"write", "flush log", "ending"} /\ pc' \in {"free", "failed"}
      /\ pc' = "failed" => Detaching
  BY DEF LeaveStarts
<1>3. call = NoCall
  BY <1>1, <1>2 DEF Control, Owning, Entering
<1>4. id \in Ids /\ Open(id)
  BY <1>1, <1>2, <1>3 DEF Control, Kept, Owning, Entering, NoCall
<1>5. CASE Detaching
  <2>1. LeaveOp = "detach"
    BY <1>5 DEF LeaveOp
  <2>2. DetachSubTransaction(id, listener) /\ id' = nextId /\ unwritten' = TRUE
    BY <1>2, <1>5 DEF Leave
  <2>3. /\ transaction[id].hasSub /\ nextId \in Ids /\ Call("detach", id, listener, InBoth(id))
    BY <2>2 DEF DetachSubTransaction
  <2>4. Divided(Cache, id)
    BY <1>1, <1>4, <2>3 DEF SubOK
  <2>5. Inv1'
    BY <1>1, <1>2, <1>4, <2>2, <2>4, DetachInv1
  <2>6. notifying' = notifying
    BY <2>3 DEF Call
  <2>7. Left(LeaveOp)
    BY <1>2, <2>1, <2>2 DEF Left
  <2>8. QED
    BY <1>3, <1>4, <2>1, <2>3, <2>5, <2>6, <2>7
<1>6. CASE ~Detaching
  <2>1. LeaveOp = "end"
    BY <1>6 DEF LeaveOp
  <2>2. EndTransaction(id, listener) /\ unwritten' = FALSE
    BY <1>2, <1>6 DEF Leave
  <2>3. Call("end", id, listener, InBoth(id))
    BY <2>2 DEF EndTransaction
  <2>4. Inv1'
    BY <1>1, <1>2, <1>4, <2>2, EndInv1
  <2>5. notifying' = notifying
    BY <2>3 DEF Call
  <2>6. Left(LeaveOp)
    BY <1>2, <1>6, <2>1, <2>2 DEF Left, Kept, Owning, Entering
  <2>7. QED
    BY <1>3, <1>4, <2>1, <2>3, <2>4, <2>5, <2>6
<1>7. QED
  BY <1>5, <1>6

\* Without blocks to be written first, this is all.
LEMMA LeavesNow ==
    ASSUME Base, NEW listener, LeaveStarts(listener), InBoth(id) = {}
    PROVE  MayLeave(Cache, LeaveOp, id, listener) /\ Leaves(Cache, LeaveOp, id, listener)
<1>1. Inv1 /\ NoDiscards /\ SubOK /\ TrackedIn(Cache)
  BY DEF Base, Tracked
<1>2. PICK op : op = LeaveOp
  OBVIOUS
<1>3. /\ id \in Ids /\ Open(id) /\ Call(op, id, listener, {}) /\ op \in {"end", "detach"}
      /\ op = "detach" => transaction[id].hasSub /\ nextId \in Ids
  BY <1>2, LeaveStartsIs
<1>4. LeavingOK(Cache, op, id, listener) /\ listener \in BOOLEAN
  BY <1>2 DEF LeaveStarts
<1>5. Finish(Cache, op, id, listener)
  BY <1>3 DEF Call
<1>6. Closing(Cache, nextId, op, id, {})
  <2>1. IsOpen(Cache, id)
    BY <1>1, <1>3, InvParts
  <2>2. \A b \in InTransaction(Cache, id) : Cache.block[b].previous = NoId
    BY DEF InBoth, InTransaction, Cache
  <2>3. op = "detach" => Divided(Cache, id) /\ Cache.transaction = transaction
    BY <1>1, <1>3 DEF SubOK, Cache
  <2>4. QED
    BY <1>3, <2>1, <2>2, <2>3 DEF Closing
<1>7. MayLeave(Cache, op, id, listener)
  <2>1. CacheOK(Cache, nextId) /\ nextId \in Nat /\ Cache.block = block
    BY <1>1, InvParts
  <2>2. QED
    BY <1>1, <1>3, <1>4, <1>6, <2>1 DEF MayLeave, NoDiscards
<1>8. QED
  BY <1>2, <1>5, <1>7, LeavesIs

\* The first invariant holds then, whether it has to write blocks first or not.
LEMMA LeaveStartsBase ==
    ASSUME Base, NEW listener, LeaveStarts(listener), JournalTypes'
    PROVE  Base'
<1>1. /\ Inv1 /\ JournalTypes /\ Control /\ Tracked /\ TrackedIn(Cache) /\ NoDiscards /\ SubOK
      /\ SpaceOK
  BY DEF Base, Tracked
<1>2. PICK op, S : op = LeaveOp /\ S = InBoth(id)
  OBVIOUS
<1>3. /\ Inv1' /\ id \in Ids /\ Open(id) /\ call = NoCall /\ Left(op)
      /\ Call(op, id, listener, S) /\ op \in {"end", "detach"}
      /\ op = "detach" => transaction[id].hasSub /\ nextId \in Ids
      /\ notifying' = notifying
  BY <1>2, LeaveStartsIs
<1>4. /\ pc \in {"write", "flush log", "ending"} /\ pc' \in {"free", "failed"}
      /\ UNCHANGED <<entries, hook, superBlock, logStart, logEnd>>
      /\ LeavingOK(Cache, op, id, listener) /\ listener \in BOOLEAN
      /\ \A k \in 1..Len(entries) : LET j == entries[k].id IN
            ReasonIn(Cache, j) \/ (notifying = j /\ hook = "none") \/ j = id
  BY <1>2 DEF LeaveStarts
<1>5. entries \in Seq(Entries)
  BY <1>1 DEF JournalTypes
<1>6. SpaceOK'
  BY <1>1, <1>4, ProgressSpace
<1>7. CASE S = {}
  <2>1. MayLeave(Cache, op, id, listener) /\ Leaves(Cache, op, id, listener)
    BY <1>2, <1>7, LeavesNow
  <2>2. PICK c, i : c = Cache /\ i = id
    OBVIOUS
  <2>3. /\ MayLeave(c, op, i, listener) /\ Leaves(c, op, i, listener)
        /\ \A k \in 1..Len(entries) : LET j == entries[k].id IN
            ReasonIn(c, j) \/ (notifying = j /\ hook = "none") \/ j = i
    BY <1>4, <2>1, <2>2
  <2>4. QED
    BY <1>1, <1>3, <1>4, <1>5, <1>6, <2>3, LeavesBase
<1>8. CASE S # {}
  <2>1. /\ call' = [op |-> op, arg |-> id, hook |-> listener]
        /\ UNCHANGED <<block, transaction, nextId, events, notifying>>
    BY <1>3, <1>8, Zenon DEF Call
  <2>2. call'.op = op /\ call'.arg = id /\ call'.hook = listener
    BY <2>1
  <2>3. Control'
    BY <1>3, <1>4, <2>1, <2>2 DEF Control, Left, Owning, Entering
  <2>4. Replaying' /\ EntryWriting' /\ NoDiscards'
    BY <1>1, <1>4, <2>1 DEF Replaying, EntryWriting, NoDiscards
  <2>5. SubOK'
    <3>1. \A j \in Ids : /\ Divided(Cache, j)' <=> Divided(Cache, j)
                         /\ Open(j)' <=> Open(j)
      BY <2>1, OpenSame
    <3>2. pc' # "inside"
      BY <1>4
    <3>3. QED
      BY <1>1, <2>1, <3>1, <3>2 DEF SubOK
  <2>6. Cache' = Cache
    BY <2>1 DEF Cache
  <2>7. TrackedIn(Cache)' <=> TrackedIn(Cache)
    BY <1>4, <2>1 DEF TrackedIn, Waiting, Pending, InEntries, Cache
  <2>8. Tracked'
    <3>1. InEntries(notifying)' <=> InEntries(notifying)
      BY <1>4, <2>1 DEF InEntries
    <3>2. QED
      BY <1>1, <1>4, <2>1, <2>7, <3>1 DEF Tracked
  <2>9. \A j \in Ids : ReasonIn(Cache, j)' <=> ReasonIn(Cache, j)
    BY <2>6 DEF ReasonIn, Waiting, Pending, InPrevious
  <2>10. Mover' = id
    BY <1>3, <1>4, <2>2 DEF Mover, Entering, Committing
  <2>11. Reasons'
    <3>1. ASSUME NEW k \in 1..Len(entries) PROVE Reason(entries[k].id)'
      <4>1. PICK j \in Ids : j = entries[k].id
        BY <1>5, EntryTypes
      <4>2. ReasonIn(Cache, j) \/ (notifying = j /\ hook = "none") \/ j = id
        BY <1>4, <4>1
      <4>3. Reason(j)'
        BY <1>4, <2>1, <2>9, <2>10, <4>2 DEF Reason
      <4>4. QED
        BY <1>4, <4>1, <4>3
    <3>2. LeavingOK(Cache, op, id, listener) <=> LeavingOK(Cache, call.op, call.arg, call.hook)'
      <4>1. PICK i : i = id
        OBVIOUS
      <4>2. InEntries(i)' <=> InEntries(i)
        BY <1>4 DEF InEntries
      <4>3. InEntries(call.arg)' <=> InEntries(i)'
        BY <2>2, <4>1 DEF InEntries
      <4>4. Parted(Cache, call.op, call.arg)' = Parted(Cache, op, i)
        BY <2>2, <2>6, <4>1 DEF Parted, InTransaction
      <4>5. QED
        BY <2>2, <4>1, <4>2, <4>3, <4>4 DEF LeavingOK
    <3>3. QED
      BY <1>4, <3>1, <3>2 DEF Reasons
  <2>12. QED
    BY <1>3, <1>6, <2>3, <2>4, <2>5, <2>8, <2>11 DEF Base
<1>9. QED
  BY <1>7, <1>8

\* What the ending transaction leaves is what has been logged.
LEMMA PartedIs ==
    ASSUME id \in Ids
    PROVE  Parted(Cache, LeaveOp, id) = Logged
<1>1. LeaveOp = "detach" <=> Detaching
  BY DEF LeaveOp
<1>2. Cache.block = block
  BY DEF Cache
<1>3. QED
  BY <1>1, <1>2 DEF Parted, Logged

\* The transaction whose entry is in the log leaves.
LEMMA EndEntryLeaves ==
    ASSUME Base, EndEntry
    PROVE  LeaveStarts(TRUE) /\ JournalTypes'
<1>1. /\ Inv1 /\ JournalTypes /\ Control /\ Reasons
  BY DEF Base
<1>2. /\ pc = "ending" /\ Leave(TRUE) /\ pc' \in {"free", "failed"}
      /\ pc' = "failed" => Detaching
      /\ UNCHANGED <<logVars, hasSub, stamp>>
  BY DEF EndEntry
<1>3. UNCHANGED <<log, super, superBlock, logStart, logEnd, entries, todo, at, lastStart, hook, flaw>>
  BY <1>2 DEF logVars
<1>4. id \in Ids /\ Logged # {}
  BY <1>1, <1>2, OpenHere DEF Entering
<1>5. InEntries(id) /\ Mover = id
  BY <1>1, <1>2 DEF Reasons, Mover, Entering
<1>6. LeavingOK(Cache, LeaveOp, id, TRUE)
  BY <1>4, <1>5, PartedIs DEF LeavingOK
<1>7. ASSUME NEW k \in 1..Len(entries)
      PROVE  LET j == entries[k].id IN
                ReasonIn(Cache, j) \/ (notifying = j /\ hook = "none") \/ j = id
  <2>1. PICK j : j = entries[k].id
    OBVIOUS
  <2>2. Reason(j)
    BY <1>1, <2>1 DEF Reasons
  <2>3. ReasonIn(Cache, j) \/ (notifying = j /\ hook = "none") \/ j = id
    BY <1>5, <2>2 DEF Reason
  <2>4. QED
    BY <2>1, <2>3
<1>8. LeaveStarts(TRUE)
  BY <1>2, <1>3, <1>6, <1>7 DEF LeaveStarts
<1>9. unwritten' \in BOOLEAN
  BY <1>2 DEF Leave
<1>10. JournalTypes'
  BY <1>1, <1>2, <1>3, <1>9 DEF JournalTypes, Owning
<1>11. QED
  BY <1>8, <1>10

\* EndEntry keeps the first invariant.
LEMMA EndEntryBase ==
    ASSUME Base, EndEntry
    PROVE  Base'
BY EndEntryLeaves, LeaveStartsBase

\* So does the one that has changed nothing.
LEMMA NothingLoggedLeaves ==
    ASSUME Base, PrepareEntry, pc' = "free"
    PROVE  LeaveStarts(FALSE) /\ JournalTypes'
<1>1. /\ Inv1 /\ JournalTypes /\ Control /\ Reasons
  BY DEF Base
<1>2. /\ pc \in {"write", "flush log"} /\ call = NoCall
      /\ UNCHANGED <<log, super, superBlock, logStart, logEnd, entries, lastStart, hook, stamp,
                     flaw, todo, at>>
      /\ hasSub' = FALSE /\ Logged = {} /\ Leave(FALSE)
  BY DEF PrepareEntry, TransactionLock, Idle
<1>3. id \in Ids /\ Open(id)
  BY <1>1, <1>2 DEF Control, Kept, Owning, Entering, NoCall
<1>4. Mover = NoId
  BY <1>2 DEF Mover, Entering, NoCall, Committing
<1>5. ~InEntries(id)
  BY <1>1, <1>3, <1>4, NoEntry
<1>6. LeavingOK(Cache, LeaveOp, id, FALSE)
  BY <1>2, <1>3, <1>5, PartedIs DEF LeavingOK
<1>7. ASSUME NEW k \in 1..Len(entries)
      PROVE  LET j == entries[k].id IN
                ReasonIn(Cache, j) \/ (notifying = j /\ hook = "none") \/ j = id
  <2>1. PICK j \in Ids : j = entries[k].id
    BY <1>1, EntryTypes DEF JournalTypes
  <2>2. Reason(j)
    BY <1>1, <2>1 DEF Reasons
  <2>3. ReasonIn(Cache, j) \/ (notifying = j /\ hook = "none")
    BY <1>4, <2>1, <2>2 DEF Reason
  <2>4. QED
    BY <2>1, <2>3
<1>8. LeaveStarts(FALSE)
  BY <1>2, <1>6, <1>7 DEF LeaveStarts
<1>9. unwritten' \in BOOLEAN
  BY <1>2 DEF Leave
<1>10. JournalTypes'
  BY <1>1, <1>2, <1>9 DEF JournalTypes
<1>11. QED
  BY <1>8, <1>10

\* PrepareEntry keeps the first invariant if nothing has changed.
LEMMA NothingLoggedBase ==
    ASSUME Base, PrepareEntry, pc' = "free"
    PROVE  Base'
BY NothingLoggedLeaves, LeaveStartsBase

\* PrepareEntry keeps it.
LEMMA PrepareEntryBase ==
    ASSUME Base, PrepareEntry
    PROVE  Base'
<1>1. pc' \in {"free", "log", "space"}
  BY DEF PrepareEntry
<1>2. ASSUME pc' = "log" PROVE EntryStarts
  <2>1. /\ pc \in {"write", "flush log"} /\ call = NoCall
        /\ UNCHANGED <<log, super, superBlock, logStart, logEnd, entries, lastStart, hook, stamp,
                       flaw, unwritten, id>>
        /\ UNCHANGED cacheVars
        /\ hasSub' = FALSE /\ Logged # {} /\ LogEntryLength <= FreeLogBlocks
    BY <1>2 DEF PrepareEntry, TransactionLock, Idle
  <2>2. todo' = LogEntryBlocks /\ at' = logEnd % LogSize
    BY <1>2 DEF PrepareEntry
  <2>3. QED
    BY <1>2, <2>1, <2>2 DEF EntryStarts
<1>3. QED
  BY <1>1, <1>2, EntryStartsBase, NothingLoggedBase, SyncSpaceBase

\* What is written in between does not matter for what a call leaves.
LEMMA PartedDone ==
    ASSUME Inv1, NoDiscards, NEW S \in SUBSET Blocks, NEW d,
           \A b \in Blocks : d.block[b] = IF b \in S THEN Done(block[b]) ELSE block[b]
    PROVE  /\ \A b \in Blocks : /\ ~d.block[b].discard
                                /\ d.block[b].transaction # NoId => d.block[b].original # NoData
           /\ \A op, i : Parted(d, op, i) = Parted(Cache, op, i)
<1>1. /\ block \in [Blocks -> BlockType] /\ Cache.block = block
      /\ \A b \in Blocks : block[b] \in BlockType
  BY InvParts
<1>2. ASSUME NEW b \in Blocks
      PROVE  /\ d.block[b].discard = block[b].discard
             /\ d.block[b].transaction = block[b].transaction
             /\ d.block[b].parent = block[b].parent
             /\ block[b].transaction # NoId => d.block[b].original = block[b].original
  <2>1. CASE b \in S
    <3>1. PICK r \in BlockType : r = block[b]
      BY <1>1
    <3>2. /\ Done(r).discard = r.discard /\ Done(r).transaction = r.transaction
          /\ Done(r).parent = r.parent
          /\ Done(r).original = IF r.previous # NoId /\ r.transaction = NoId
                                 THEN NoData ELSE r.original
      BY <3>1, DoneType
    <3>3. QED
      BY <2>1, <3>1, <3>2
  <2>2. CASE b \notin S
    BY <2>2
  <2>3. QED
    BY <2>1, <2>2
<1>3. QED
  BY <1>1, <1>2 DEF NoDiscards, Parted, InTransaction

LeaveGoesOn(S, d, op, i, listener) ==
    /\ S = written["client"] /\ d = BlocksDone(Cache, S)
    /\ op = call.op /\ i = call.arg /\ listener = call.hook

\* The call to end or to detach a transaction goes on after its writes.
LEMMA LeaveWritten ==
    ASSUME Base, ClientWritten, Committing(call.op), JournalSame,
           NEW S, NEW d, NEW op, NEW i, NEW listener, LeaveGoesOn(S, d, op, i, listener)
    PROVE  /\ MayLeave(d, op, i, listener) /\ Leaves(d, op, i, listener) /\ Left(op)
           /\ pc \in {"free", "failed"} /\ Mover = i /\ S \in SUBSET Blocks
           /\ \A b \in Blocks : d.block[b] = IF b \in S THEN Done(block[b]) ELSE block[b]
           /\ \A j \in Ids : ReasonIn(Cache, j) => ReasonIn(d, j)
<1>1. /\ Inv1 /\ JournalTypes /\ Control /\ Tracked /\ TrackedIn(Cache) /\ NoDiscards
      /\ Reasons /\ Replaying
  BY DEF Base, Tracked
<1>2. /\ S = written["client"] /\ d = BlocksDone(Cache, S)
      /\ op = call.op /\ i = call.arg /\ listener = call.hook
  BY DEF LeaveGoesOn
<1>3. op \in {"end", "detach"} /\ call # NoCall
  BY <1>2 DEF Committing, NoCall
<1>4. CallMayFinish(d, S)
  BY <1>1, <1>2, ClientWrittenParts
<1>5. /\ CacheOK(d, nextId) /\ listener \in BOOLEAN /\ Finish(d, op, i, listener)
      /\ CanFinish(d, nextId, op, i) /\ S \in SUBSET Blocks
      /\ \A b \in Blocks : d.block[b] = IF b \in S THEN Done(block[b]) ELSE block[b]
  BY <1>2, <1>4 DEF CallMayFinish
<1>6. TrackedIn(d) /\ \A j \in Ids : ReasonIn(Cache, j) => ReasonIn(d, j)
  BY <1>1, <1>2, <1>5, TrackedDone
<1>7. pc # "replay" /\ nextId \in Nat
  BY <1>1, <1>3, NotReplaying, InvParts
<1>8. pc \in {"free", "failed"} /\ Left(op)
  <2>1. /\ pc' = pc /\ unwritten' = unwritten /\ id' = id
    BY DEF JournalSame, journalVars
  <2>2. CASE op = "end"
    <3>1. ~Kept /\ ~Kept'
      BY <1>1, <1>2, <2>1, <2>2 DEF Control, Kept
    <3>2. pc = "free"
      BY <1>1, <1>7, <3>1 DEF Kept, JournalTypes
    <3>3. QED
      BY <2>1, <2>2, <3>1, <3>2 DEF Left
  <2>3. CASE op = "detach"
    BY <1>1, <1>2, <2>1, <2>3 DEF Control, Left
  <2>4. QED
    BY <1>3, <2>2, <2>3
<1>9. Closing(d, nextId, op, i, {}) /\ i \in Ids
  BY <1>3, <1>5 DEF CanFinish, Committing, Closing
<1>10. LeavingOK(d, op, i, listener)
  <2>1. LeavingOK(Cache, op, i, listener)
    BY <1>1, <1>2 DEF Reasons
  <2>2. Parted(d, op, i) = Parted(Cache, op, i)
    <3>1. \A o, j : Parted(d, o, j) = Parted(Cache, o, j)
      BY <1>1, <1>5, PartedDone
    <3>2. QED
      BY <3>1
  <2>3. QED
    BY <2>1, <2>2 DEF LeavingOK
<1>11. MayLeave(d, op, i, listener)
  <2>1. \A b \in Blocks : /\ ~d.block[b].discard
                          /\ d.block[b].transaction # NoId => d.block[b].original # NoData
    BY <1>1, <1>5, PartedDone
  <2>2. QED
    BY <1>3, <1>5, <1>6, <1>7, <1>9, <1>10, <2>1 DEF MayLeave
<1>12. Leaves(d, op, i, listener)
  BY <1>5, <1>11, LeavesIs
<1>13. Mover = i
  BY <1>2, <1>3, <1>8 DEF Mover, Entering, Committing
<1>14. QED
  BY <1>5, <1>6, <1>8, <1>11, <1>12, <1>13

\* The first invariant holds then.
LEMMA LeaveWrittenBase ==
    ASSUME Base, ClientWritten, Committing(call.op), JournalSame
    PROVE  Base'
<1>1. /\ Inv1 /\ JournalTypes /\ Tracked /\ SpaceOK /\ Reasons
  BY DEF Base
<1>2. PICK S, d, op, i, listener : LeaveGoesOn(S, d, op, i, listener)
  BY DEF LeaveGoesOn
<1>3. /\ MayLeave(d, op, i, listener) /\ Leaves(d, op, i, listener) /\ Left(op)
      /\ pc \in {"free", "failed"} /\ Mover = i
      /\ \A j \in Ids : ReasonIn(Cache, j) => ReasonIn(d, j)
  BY <1>2, LeaveWritten
<1>4. /\ UNCHANGED <<notifying, entries, hook>>
      /\ UNCHANGED <<pc, superBlock, logEnd, logStart>>
  BY DEF ClientWritten, WriteEnds, JournalSame, journalVars
<1>5. SpaceOK'
  <2>1. pc # "space"
    BY <1>3
  <2>2. QED
    BY <1>1, <1>4, <2>1, SpaceSame
<1>6. Inv1' /\ JournalTypes' /\ entries \in Seq(Entries)
  <2>1. Inv1'
    BY <1>1, ClientWrittenInv1
  <2>2. QED
    BY <1>1, <2>1, TypesSame DEF JournalTypes
<1>7. ASSUME NEW k \in 1..Len(entries)
      PROVE  LET j == entries[k].id IN
                ReasonIn(d, j) \/ (notifying = j /\ hook = "none") \/ j = i
  <2>1. PICK j \in Ids : j = entries[k].id
    BY <1>6, EntryTypes
  <2>2. Reason(j)
    BY <1>1, <2>1 DEF Reasons
  <2>3. ReasonIn(d, j) \/ (notifying = j /\ hook = "none") \/ j = i
    BY <1>3, <2>2 DEF Reason
  <2>4. QED
    BY <2>1, <2>3
<1>8. QED
  BY <1>1, <1>3, <1>4, <1>5, <1>6, <1>7, LeavesBase

\* A step that changes no more than the open transaction and its blocks.
OpenStep ==
    /\ UNCHANGED <<events, notifying, call, entries, hook, superBlock, logStart, logEnd>>
    /\ \A b \in Blocks : block'[b].previous = block[b].previous
    /\ \A j \in Ids : \/ transaction'[j] = transaction[j]
                      \/ transaction[j].state # "closed" /\ transaction'[j].state # "closed"

\* It changes nothing about which transactions are still to be written.
LEMMA OpenStepTracked ==
    ASSUME Inv1, TrackedIn(Cache), OpenStep
    PROVE  /\ TrackedIn(Cache)'
           /\ \A i \in Ids : ReasonIn(Cache, i)' <=> ReasonIn(Cache, i)
<1>1. /\ UNCHANGED <<events, notifying, entries>>
      /\ \A b \in Blocks : block'[b].previous = block[b].previous
      /\ \A j \in Ids : \/ transaction'[j] = transaction[j]
                        \/ transaction[j].state # "closed" /\ transaction'[j].state # "closed"
  BY DEF OpenStep
<1>2. PICK c : c = Cache'
  OBVIOUS
<1>3. /\ c.block = block' /\ c.transaction = transaction' /\ c.events = events'
      /\ Cache.block = block /\ Cache.transaction = transaction /\ Cache.events = events
  BY <1>2 DEF Cache
<1>4. ASSUME NEW i \in Ids
      PROVE  /\ Waiting(c, i) <=> Waiting(Cache, i)
             /\ Pending(c, i) <=> Pending(Cache, i)
             /\ InPrevious(c, i) = InPrevious(Cache, i)
             /\ InEntries(i)' <=> InEntries(i)
  BY <1>1, <1>3 DEF Waiting, Pending, InPrevious, InEntries
<1>5. ASSUME NEW b \in Blocks, c.block[b].previous # NoId
      PROVE  c.transaction[c.block[b].previous].hook
  <2>1. PICK i : i = block[b].previous
    OBVIOUS
  <2>2. /\ block[b] \in BlockType /\ ShapeOf(Cache, block[b])
    BY InvParts
  <2>3. c.block[b].previous = i /\ i # NoId
    BY <1>1, <1>3, <1>5, <2>1
  <2>4. i \in Ids
    BY <2>1, <2>2, <2>3 DEF BlockType
  <2>5. transaction[i].state = "closed" /\ transaction[i].hook
    BY <1>3, <2>1, <2>2, <2>3 DEF ShapeOf, TrackedIn
  <2>6. QED
    BY <1>1, <1>3, <2>3, <2>4, <2>5
<1>6. notifying # NoId => ~Pending(c, notifying)
  BY <1>1, <1>3 DEF TrackedIn, Pending
<1>7. \A k, l \in 1..Len(c.events) : c.events[k] = c.events[l] => k = l
  BY <1>1, <1>3 DEF TrackedIn
<1>8. \A i \in Ids : Waiting(c, i) \/ Pending(c, i) => InEntries(i)'
  BY <1>4 DEF TrackedIn
<1>9. TrackedIn(c)'
  <2>1. TrackedIn(c)' <=>
            /\ \A b \in Blocks : c.block[b].previous # NoId =>
                                    c.transaction[c.block[b].previous].hook
            /\ \A i \in Ids : Waiting(c, i) \/ Pending(c, i) => InEntries(i)'
            /\ \A k, l \in 1..Len(c.events) : c.events[k] = c.events[l] => k = l
            /\ notifying' # NoId => ~Pending(c, notifying')
    BY DEF TrackedIn, Waiting, Pending
  <2>2. QED
    BY <1>1, <1>5, <1>6, <1>7, <1>8, <2>1
<1>10. TrackedIn(Cache)' <=> TrackedIn(c)'
  BY <1>2
<1>11. \A i \in Ids : ReasonIn(Cache, i)' <=> ReasonIn(c, i)
  BY <1>2 DEF ReasonIn, Waiting, Pending, InPrevious
<1>12. QED
  BY <1>4, <1>9, <1>10, <1>11 DEF ReasonIn

\* The first invariant holds after such a step.
LEMMA OpenStepBase ==
    ASSUME Base, Inv1', OpenStep, call = NoCall,
           pc \in {"free", "inside", "failed"}, pc' \in {"free", "inside"},
           Kept' => id' \in Ids /\ Open(id)' /\ id' + 1 = nextId',
           NoDiscards', SubOK', JournalTypes'
    PROVE  Base'
<1>1. /\ JournalTypes /\ Tracked /\ TrackedIn(Cache) /\ SpaceOK /\ Reasons /\ Inv1
  BY DEF Base, Tracked
<1>2. UNCHANGED <<events, notifying, call, entries, hook, superBlock, logStart, logEnd>>
  BY DEF OpenStep
<1>3. TrackedIn(Cache)' /\ \A i \in Ids : ReasonIn(Cache, i)' <=> ReasonIn(Cache, i)
  BY <1>1, OpenStepTracked
<1>4. call'.op = "none"
  BY <1>2 DEF NoCall
<1>5. Control'
  BY <1>2, <1>4 DEF Control, Owning, Entering
<1>6. Replaying' /\ EntryWriting'
  BY DEF Replaying, EntryWriting
<1>7. Tracked'
  <2>1. InEntries(notifying)' <=> InEntries(notifying)
    BY <1>2 DEF InEntries
  <2>2. QED
    BY <1>1, <1>2, <1>3, <2>1 DEF Tracked
<1>8. SpaceOK'
  BY <1>1, <1>2, ProgressSpace
<1>9. Reasons'
  <2>1. Mover = NoId
    BY DEF Mover, Entering, Committing, NoCall
  <2>2. ASSUME NEW k \in 1..Len(entries) PROVE Reason(entries[k].id)'
    <3>1. PICK j \in Ids : j = entries[k].id
      BY <1>1, EntryTypes DEF JournalTypes
    <3>2. Reason(j)
      BY <1>1, <3>1 DEF Reasons
    <3>3. ReasonIn(Cache, j) \/ (notifying = j /\ hook = "none")
      BY <2>1, <3>1, <3>2 DEF Reason
    <3>4. Reason(j)'
      BY <1>2, <1>3, <3>3 DEF Reason
    <3>5. QED
      BY <1>2, <3>1, <3>4
  <2>3. ~Committing(call.op)'
    BY <1>4 DEF Committing
  <2>4. QED
    BY <1>2, <2>2, <2>3 DEF Reasons
<1>10. QED
  BY <1>3, <1>5, <1>6, <1>7, <1>8, <1>9 DEF Base

\* There is one open transaction at most.
LEMMA OneOpen ==
    ASSUME Inv1, NEW i \in Ids, Open(i), NEW j \in Ids, Open(j)
    PROVE  i = j
BY InvParts DEF CacheOK, Transactions

\* Lock, which starts a transaction, keeps the first invariant.
LEMMA LockStartsBase ==
    ASSUME Base, Lock, ~unwritten
    PROVE  Base'
<1>1. /\ Inv1 /\ JournalTypes /\ NoDiscards /\ nextId \in Nat
      /\ transaction \in [Ids -> TransactionType]
  BY InvParts DEF Base
<1>2. /\ pc = "free" /\ stamp < MaxStamp /\ stamp' = stamp + 1 /\ pc' = "inside"
      /\ StartTransaction /\ id' = nextId
      /\ UNCHANGED <<logVars, unwritten, hasSub>>
  BY DEF Lock
<1>3. /\ call = NoCall /\ nextId \in Ids /\ \A i \in Ids : ~Open(i)
      /\ transaction' = [transaction EXCEPT ![nextId] = [Gone EXCEPT !.state = "open"]]
      /\ nextId' = nextId + 1
      /\ UNCHANGED <<block, events, notifying, call>>
  BY <1>2 DEF StartTransaction, TransactionLock, Idle
<1>4. UNCHANGED <<log, super, superBlock, logStart, logEnd, entries, lastStart, hook, flaw, at, todo>>
  BY <1>2 DEF logVars
<1>5. /\ transaction'[nextId].state = "open" /\ ~transaction'[nextId].hasSub
      /\ \A j \in Ids : j # nextId => transaction'[j] = transaction[j]
  BY <1>1, <1>3 DEF Gone
<1>6. transaction[nextId].state # "closed"
  BY <1>1, <1>3, InvParts DEF CacheOK, Transactions, Cache
<1>7. OpenStep
  BY <1>3, <1>4, <1>5, <1>6 DEF OpenStep
<1>8. Inv1'
  BY <1>1, <1>2, StartInv1
<1>9. NoDiscards'
  BY <1>1, <1>3 DEF NoDiscards
<1>10. SubOK'
  <2>1. ASSUME NEW i \in Ids, Open(i)' PROVE i = nextId
    BY <1>3, <1>5, <2>1 DEF Open
  <2>2. \A i \in Ids : Open(i)' => ~transaction'[i].hasSub
    BY <1>5, <2>1
  <2>3. QED
    BY <2>2 DEF SubOK
<1>11. JournalTypes'
  BY <1>1, <1>2, <1>4, BlockCacheAssumption DEF JournalTypes, Owning, Values
<1>12. id' \in Ids /\ Open(id)' /\ id' + 1 = nextId'
  <2>1. id' = nextId /\ nextId' = nextId + 1
    BY <1>2, <1>3
  <2>2. Open(id)' <=> transaction'[id'].state = "open"
    BY DEF Open
  <2>3. QED
    BY <1>3, <1>5, <2>1, <2>2
<1>13. QED
  BY <1>2, <1>3, <1>7, <1>8, <1>9, <1>10, <1>11, <1>12, OpenStepBase

\* Right after the start of a sub transaction the whole transaction is its parent's part.
LEMMA StartedDivided ==
    ASSUME Inv1, NoDiscards, NEW i \in Ids, StartSubTransaction(i)
    PROVE  /\ Divided(Cache, i)' /\ NoDiscards'
           /\ \A b \in Blocks : /\ block'[b].transaction = block[b].transaction
                                /\ block'[b].previous = block[b].previous
           /\ \A b \in Blocks : block[b].transaction = i => block'[b].parent = Current
<1>1. /\ Open(i) /\ Inv1 /\ block \in [Blocks -> BlockType]
      /\ \A b \in Blocks : block[b] \in BlockType /\ ShapeOf(Cache, block[b])
      /\ Cache.block = block /\ Cache.transaction = transaction
      /\ CacheOK(Cache, nextId)
  BY InvParts DEF StartSubTransaction
<1>2. /\ transaction'[i].main = transaction[i].num /\ transaction'[i].sub = 0
  BY StartSubUpdates
<1>3. ASSUME NEW b \in Blocks
      PROVE  /\ block'[b].transaction = block[b].transaction
             /\ block'[b].previous = block[b].previous /\ ~block'[b].discard
             /\ block'[b].original = block[b].original
             /\ block[b].transaction = i => block'[b].parent = Current
  <2>1. ~block[b].discard
    BY DEF NoDiscards
  <2>2. block'[b] = IF block[b].transaction = i THEN StartedSub(block[b]) ELSE block[b]
    BY StartSubBlocks
  <2>3. CASE block[b].transaction = i
    <3>1. PICK r, s : r \in BlockType /\ r = block[b] /\ s = StartedSub(r) /\ ShapeOf(Cache, r)
      BY <1>1
    <3>2. /\ s.transaction = r.transaction /\ s.previous = r.previous
          /\ s.discard = r.discard
          /\ s.parent = IF r.discard THEN NoData ELSE Current
          /\ s.original = IF r.discard THEN NoData ELSE r.original
      BY <2>3, <3>1, StartedSubIs
    <3>3. QED
      BY <2>1, <2>2, <2>3, <3>1, <3>2
  <2>4. CASE block[b].transaction # i
    BY <2>1, <2>2, <2>4
  <2>5. QED
    BY <2>3, <2>4
<1>4. PICK c : c = Cache'
  OBVIOUS
<1>5. c.block = block' /\ c.transaction = transaction'
  BY <1>4 DEF Cache
<1>6. /\ InTransaction(c, i) = InTransaction(Cache, i)
      /\ SubPart(c, i) = {} /\ MainPart(c, i) = InTransaction(Cache, i)
      /\ Discarded(c, i) = {}
  BY <1>1, <1>3, <1>5 DEF InTransaction, SubPart, MainPart, Discarded
<1>7. transaction[i].num = Cardinality(InTransaction(Cache, i))
  BY <1>1 DEF CacheOK, Counts, IsOpen, Open
<1>8. \A b \in InTransaction(c, i) : DividedBlock(c.block[b])
  BY <1>3, <1>5 DEF InTransaction, DividedBlock
<1>9. Divided(c, i)
  <2>1. Cardinality({}) = 0 /\ InTransaction(Cache, i) \cup {} = InTransaction(Cache, i)
    BY FS_EmptySet
  <2>2. QED
    BY <1>2, <1>5, <1>6, <1>7, <1>8, <2>1 DEF Divided
<1>10. Divided(Cache, i)'
  BY <1>4, <1>9
<1>11. NoDiscards'
  BY <1>3 DEF NoDiscards
<1>12. QED
  BY <1>3, <1>10, <1>11

\* Lock, which starts a sub transaction, keeps the first invariant.
LEMMA LockSubBase ==
    ASSUME Base, Lock, unwritten
    PROVE  Base'
<1>1. /\ Inv1 /\ JournalTypes /\ NoDiscards /\ Control
  BY DEF Base
<1>2. /\ pc = "free" /\ stamp < MaxStamp /\ stamp' = stamp + 1 /\ pc' = "inside"
      /\ StartSubTransaction(id) /\ id' = id /\ hasSub' = TRUE
      /\ UNCHANGED <<logVars, unwritten>>
  BY DEF Lock
<1>3. call = NoCall /\ UNCHANGED <<nextId, events, notifying, call>>
  BY <1>2 DEF StartSubTransaction, TransactionLock, Idle
<1>4. UNCHANGED <<log, super, superBlock, logStart, logEnd, entries, lastStart, hook, flaw, at, todo>>
  BY <1>2 DEF logVars
<1>5. PICK i \in Ids : i = id /\ Open(i) /\ i + 1 = nextId /\ StartSubTransaction(i)
  BY <1>1, <1>2, <1>3 DEF Control, Kept, NoCall
<1>6. /\ transaction'[i].state = transaction[i].state
      /\ \A j \in Ids : j # i => transaction'[j] = transaction[j]
  BY <1>1, <1>5, StartSubUpdates
<1>7. /\ Divided(Cache, i)' /\ NoDiscards'
      /\ \A b \in Blocks : /\ block'[b].transaction = block[b].transaction
                           /\ block'[b].previous = block[b].previous
      /\ \A b \in Blocks : block[b].transaction = i => block'[b].parent = Current
  BY <1>1, <1>5, StartedDivided
<1>8. OpenStep
  BY <1>3, <1>4, <1>5, <1>6, <1>7 DEF OpenStep, Open
<1>9. Inv1'
  BY <1>1, <1>5, StartSubInv1
<1>10. \A j \in Ids : Open(j)' => j = i
  <2>1. \A j \in Ids : Open(j)' => Open(j)
    BY <1>6 DEF Open
  <2>2. QED
    BY <1>1, <1>5, <2>1, OneOpen
<1>11. SubOK'
  <2>1. PICK c : c = Cache'
    OBVIOUS
  <2>2. \A b \in InTransaction(c, i) : block'[b].parent = Current
    BY <1>7, <2>1 DEF InTransaction, Cache
  <2>3. SubOK' <=> \A j \in Ids : Open(j)' /\ transaction'[j].hasSub =>
        /\ Divided(Cache, j)'
        /\ \A b \in InTransaction(c, j) :
                pc' = "inside" /\ block'[b].parent # Current => block'[b].current = stamp'
    BY <2>1 DEF SubOK, InTransaction
  <2>4. QED
    BY <1>7, <1>10, <2>2, <2>3
<1>12. JournalTypes'
  BY <1>1, <1>2, <1>4, BlockCacheAssumption DEF JournalTypes, Owning, Values
<1>13. id' \in Ids /\ Open(id)' /\ id' + 1 = nextId'
  <2>1. Open(i)' /\ id' = i /\ nextId' = nextId
    BY <1>2, <1>3, <1>5, <1>6 DEF Open
  <2>2. Open(id)' <=> Open(i)'
    BY <2>1 DEF Open
  <2>3. QED
    BY <1>5, <2>1, <2>2
<1>14. QED
  BY <1>2, <1>3, <1>7, <1>8, <1>9, <1>11, <1>12, <1>13, OpenStepBase

\* Lock keeps the first invariant.
LEMMA LockBase ==
    ASSUME Base, Lock
    PROVE  Base'
BY LockStartsBase, LockSubBase

\* The count of the sub transaction after get_writable_cached_block().
LEMMA WriteSub ==
    ASSUME Inv1, NEW i \in Ids, NEW b \in Blocks, NEW data,
           GetWritable(b, i, FALSE, data), NEW r, r = Found(b, FALSE)
    PROVE  /\ transaction'[i].main = transaction[i].main
           /\ transaction'[i].sub =
                IF \/ r.parent = Current
                   \/ /\ transaction[i].hasSub /\ r.parent = NoData
                      /\ r.original = NoData \/ r.previous # NoId
                THEN transaction[i].sub + 1 ELSE transaction[i].sub
<1>1. transaction \in [Ids -> TransactionType] /\ transaction[i] \in TransactionType
  BY InvParts
<1> DEFINE joins == r.transaction = NoId
           wasUnchanged == r.original = NoData \/ r.previous # NoId
           forParent == r.parent = Current
           forSub == transaction[i].hasSub /\ r.parent = NoData /\ wasUnchanged
<1>2. transaction' = [transaction EXCEPT
          ![i].num = IF joins THEN @ + 1 ELSE @,
          ![i].sub = IF forParent \/ forSub THEN @ + 1 ELSE @]
  BY DEF GetWritable
<1>3. PICK n, s : /\ n = IF joins THEN transaction[i].num + 1 ELSE transaction[i].num
                  /\ s = IF forParent \/ forSub THEN transaction[i].sub + 1
                                              ELSE transaction[i].sub
  OBVIOUS
<1> HIDE DEF joins, forParent, forSub, wasUnchanged
<1>4. transaction' = [transaction EXCEPT ![i].num = n, ![i].sub = s]
  BY <1>1, <1>2, <1>3
<1>5. transaction'[i].main = transaction[i].main /\ transaction'[i].sub = s
  BY <1>1, <1>4 DEF TransactionType
<1>6. QED
  BY <1>3, <1>5 DEF forParent, forSub, wasUnchanged

\* What a client transaction does to a block of a transaction that is i.
ClientWrites(b, i, r, s) ==
    /\ block' = [block EXCEPT ![b] = s] /\ r \in BlockType /\ s \in BlockType
    /\ r.cached /\ r.current # NoData
    /\ block[b].cached => r = block[b]
    /\ ~block[b].cached => /\ block[b].transaction = NoId /\ block[b].parent = NoData
                           /\ block[b].previous = NoId
                           /\ r.original = NoData /\ r.parent = NoData
                           /\ r.transaction = NoId /\ r.previous = NoId
                           /\ r.current = disk[b]
    /\ s.transaction = i /\ s.previous = r.previous /\ ~s.discard /\ s.current = stamp
    /\ s.cached
    /\ s.original = IF r.original = NoData THEN r.current ELSE r.original
    /\ s.original # NoData
    /\ s.parent = IF r.parent = Current THEN r.current ELSE r.parent

\* The block before and after the write.
LEMMA WriteIs ==
    ASSUME Inv1, NEW data \in Values, data = stamp, NEW i \in Ids, NEW b \in Blocks,
           NEW cleared \in BOOLEAN, ~cleared, NEW isNew \in BOOLEAN, ~isNew,
           NEW r, r = Found(b, cleared), NEW s, s = WrittenBlock(r, isNew, i, data),
           block' = [block EXCEPT ![b] = s]
    PROVE  ClientWrites(b, i, r, s)
<1>1. /\ block \in [Blocks -> BlockType] /\ block[b] \in BlockType
      /\ ShapeOf(Cache, block[b]) /\ disk[b] \in Values
  BY InvParts DEF Inv1, Types, OtherTypes
<1>2. /\ r \in BlockType /\ r.cached /\ (block[b].cached => r = block[b])
      /\ ~block[b].cached =>
            /\ block[b] = Absent
            /\ r.current = IF cleared THEN NoData ELSE disk[b]
            /\ r.original = NoData /\ r.parent = NoData /\ r.transaction = NoId
            /\ r.previous = NoId /\ ~r.dirty /\ ~r.discard /\ ~r.unused
  BY <1>1, FoundIs
<1>3. /\ s \in BlockType /\ s.transaction = i /\ s.previous = r.previous
      /\ s.cached /\ ~s.discard /\ ~s.unused /\ s.dirty /\ s.current = data
      /\ s.original = IF r.original = NoData /\ ~isNew THEN r.current ELSE r.original
      /\ s.parent = IF r.parent = Current THEN r.current ELSE r.parent
  BY <1>2, WrittenIs
<1>4. s.original = IF r.original = NoData THEN r.current ELSE r.original
  BY <1>3
<1>5. ~block[b].cached => r.current = disk[b]
  BY <1>2
<1>6. r.current # NoData
  BY <1>1, <1>2, <1>5 DEF ShapeOf, Values
<1>7. /\ Absent.transaction = NoId /\ Absent.parent = NoData /\ Absent.previous = NoId
  BY AbsentIs
<1>8. s.original # NoData
  BY <1>4, <1>6
<1>9. QED
  BY <1>2, <1>3, <1>4, <1>5, <1>6, <1>7, <1>8 DEF ClientWrites

\* The block is in the sub transaction's part afterwards, and was not before.
LEMMA WrittenParts ==
    ASSUME Inv1, NoDiscards, NEW i \in Ids, Open(i), NEW b \in Blocks, NEW r, NEW s,
           ClientWrites(b, i, r, s), block[b].transaction \in {NoId, i},
           block[b].transaction = i => block[b].parent = Current,
           NEW c, c = Cache'
    PROVE  /\ SubPart(c, i) = SubPart(Cache, i) \cup {b} /\ b \notin SubPart(Cache, i)
           /\ MainPart(c, i) = MainPart(Cache, i)
           /\ Discarded(c, i) = Discarded(Cache, i)
           /\ (\A a \in InTransaction(Cache, i) : DividedBlock(block[a])) =>
                    \A a \in InTransaction(c, i) : DividedBlock(c.block[a])
<1>1. /\ block \in [Blocks -> BlockType] /\ block[b] \in BlockType
      /\ ShapeOf(Cache, block[b]) /\ Cache.block = block
  BY InvParts
<1>2. /\ block' = [block EXCEPT ![b] = s] /\ s.transaction = i /\ ~s.discard
      /\ s.original # NoData /\ r \in BlockType
      /\ s.parent = IF r.parent = Current THEN r.current ELSE r.parent
      /\ r.current # NoData
      /\ block[b].cached => r = block[b]
      /\ ~block[b].cached => r.parent = NoData /\ block[b].transaction = NoId
  BY DEF ClientWrites
<1>3. c.block = block'
  BY DEF Cache
<1>4. /\ c.block[b] = s /\ \A a \in Blocks : a # b => c.block[a] = block[a]
  BY <1>1, <1>2, <1>3
<1>5. s.parent # Current
  BY <1>2 DEF BlockType, Values
<1>6. block[b].transaction = NoId => s.parent = NoData
  BY <1>1, <1>2 DEF ShapeOf
<1>7. block[b].transaction = i => s.parent # NoData
  BY <1>2
<1>8. ~block[b].discard
  BY DEF NoDiscards
<1>9. SubPart(c, i) = SubPart(Cache, i) \cup {b} /\ b \notin SubPart(Cache, i)
  BY <1>1, <1>2, <1>4, <1>5 DEF SubPart, InTransaction
<1>10. MainPart(c, i) = MainPart(Cache, i)
  BY <1>1, <1>2, <1>4, <1>6, <1>7 DEF MainPart, InTransaction
<1>11. Discarded(c, i) = Discarded(Cache, i)
  BY <1>1, <1>2, <1>4, <1>8 DEF Discarded, InTransaction
<1>12. ASSUME \A a \in InTransaction(Cache, i) : DividedBlock(block[a])
       PROVE  \A a \in InTransaction(c, i) : DividedBlock(c.block[a])
  <2>1. DividedBlock(s)
    BY <1>2 DEF DividedBlock
  <2>2. QED
    BY <1>1, <1>4, <1>12, <2>1 DEF InTransaction
<1>13. QED
  BY <1>9, <1>10, <1>11, <1>12

\* Write keeps the first invariant.
LEMMA WriteBase ==
    ASSUME Base, NEW b \in Blocks, Write(b)
    PROVE  Base'
<1>1. /\ Inv1 /\ JournalTypes /\ NoDiscards /\ SubOK /\ Control
  BY DEF Base
<1>2. /\ pc = "inside" /\ block[b].current # stamp /\ GetWritable(b, id, FALSE, stamp)
      /\ UNCHANGED journalVars
  BY DEF Write
<1>3. UNCHANGED <<log, super, superBlock, logStart, logEnd, entries, lastStart, hook, flaw, at,
                  todo, id, pc, unwritten, hasSub, stamp>>
  BY <1>2 DEF journalVars
<1>4. call = NoCall
  BY <1>2 DEF GetWritable, Idle
<1>5. PICK i \in Ids : i = id /\ Open(i) /\ i + 1 = nextId
  BY <1>1, <1>2, <1>4 DEF Control, Kept, Owning, NoCall
<1>6. PICK data \in Values : data = stamp
  BY <1>1 DEF JournalTypes
<1>7. PICK cleared \in BOOLEAN, isNew \in BOOLEAN :
         cleared = FALSE /\ isNew = (cleared /\ ~block[b].cached)
  OBVIOUS
<1>8. PICK r, s : r = Found(b, cleared) /\ s = WrittenBlock(r, isNew, i, data)
  OBVIOUS
<1>9. GetWritable(b, i, cleared, data) /\ GetWritable(b, i, FALSE, data)
  BY <1>2, <1>5, <1>6, <1>7
<1>10. /\ block' = [block EXCEPT ![b] = s] /\ ~cleared /\ ~isNew
       /\ UNCHANGED <<nextId, events, notifying, call>>
  BY <1>7, <1>8, <1>9 DEF GetWritable, WrittenBlock
<1>11. ClientWrites(b, i, r, s)
  BY <1>1, <1>6, <1>8, <1>10, WriteIs
<1>12. /\ block \in [Blocks -> BlockType] /\ block[b] \in BlockType
       /\ ShapeOf(Cache, block[b]) /\ Cache.block = block
       /\ CacheOK(Cache, nextId) /\ IsOpen(Cache, i) /\ Cache.transaction = transaction
       /\ transaction[i] \in TransactionType
  BY <1>1, <1>5, InvParts
<1>13. block[b].transaction \in {NoId, i}
  BY <1>12, OnlyOpen
<1>14. /\ s.transaction = i /\ s.previous = r.previous /\ ~s.discard /\ s.current = stamp
       /\ s.original # NoData /\ r \in BlockType
       /\ s.parent = IF r.parent = Current THEN r.current ELSE r.parent
       /\ block[b].cached => r = block[b]
       /\ ~block[b].cached => /\ block[b].transaction = NoId /\ block[b].previous = NoId
                              /\ r.original = NoData /\ r.parent = NoData
                              /\ r.previous = NoId
  BY <1>11 DEF ClientWrites
<1>15. /\ block'[b] = s /\ \A a \in Blocks : a # b => block'[a] = block[a]
  BY <1>10, <1>12
<1>16. /\ transaction'[i].state = transaction[i].state
       /\ transaction'[i].hasSub = transaction[i].hasSub
       /\ \A j \in Ids : j # i => transaction'[j] = transaction[j]
  BY <1>1, <1>9, WriteUpdates
<1>17. Inv1'
  BY <1>1, <1>9, WriteInv1
<1>18. OpenStep
  BY <1>3, <1>5, <1>10, <1>14, <1>15, <1>16 DEF OpenStep, Open
<1>19. NoDiscards'
  BY <1>1, <1>14, <1>15 DEF NoDiscards
<1>20. \A j \in Ids : (Open(j)' => j = i) /\ (Open(j)' <=> Open(j))
  <2>1. \A j \in Ids : Open(j)' <=> Open(j)
    BY <1>16 DEF Open
  <2>2. QED
    BY <1>1, <1>5, <2>1, OneOpen
<1>21. SubOK'
  <2>1. SUFFICES ASSUME transaction[i].hasSub
                 PROVE  /\ Divided(Cache, i)'
                        /\ \A a \in Blocks : block'[a].transaction = i
                             /\ block'[a].parent # Current => block'[a].current = stamp
    <3>2. SubOK' <=> \A j \in Ids : Open(j)' /\ transaction'[j].hasSub =>
        /\ Divided(Cache, j)'
        /\ \A a \in Blocks : block'[a].transaction = j =>
                (pc' = "inside" /\ block'[a].parent # Current => block'[a].current = stamp')
      BY DEF SubOK, InTransaction, Cache
    <3>3. QED
      BY <1>3, <1>16, <1>20, <2>1, <3>2
  <2>2. /\ Divided(Cache, i)
        /\ \A a \in Blocks : block[a].transaction = i
             /\ block[a].parent # Current => block[a].current = stamp
    BY <1>1, <1>2, <1>5, <1>12, <2>1 DEF SubOK, InTransaction
  <2>3. block[b].transaction = i => block[b].parent = Current
    BY <1>2, <2>2
  <2>4. PICK c : c = Cache'
    OBVIOUS
  <2>5. /\ SubPart(c, i) = SubPart(Cache, i) \cup {b} /\ b \notin SubPart(Cache, i)
        /\ MainPart(c, i) = MainPart(Cache, i)
        /\ Discarded(c, i) = Discarded(Cache, i)
        /\ (\A a \in InTransaction(Cache, i) : DividedBlock(block[a])) =>
                    \A a \in InTransaction(c, i) : DividedBlock(c.block[a])
    BY <1>1, <1>5, <1>11, <1>13, <2>3, <2>4, WrittenParts
  <2>6. transaction'[i].main = transaction[i].main /\ transaction'[i].sub = transaction[i].sub + 1
    <3>1. /\ transaction'[i].main = transaction[i].main
          /\ transaction'[i].sub =
                IF \/ r.parent = Current
                   \/ /\ transaction[i].hasSub /\ r.parent = NoData
                      /\ r.original = NoData \/ r.previous # NoId
                THEN transaction[i].sub + 1 ELSE transaction[i].sub
      <4>1. r = Found(b, FALSE)
        BY <1>7, <1>8
      <4>2. QED
        BY <1>1, <1>9, <4>1, WriteSub
    <3>2. \/ r.parent = Current
          \/ r.parent = NoData /\ (r.original = NoData \/ r.previous # NoId)
      BY <1>12, <1>13, <1>14, <2>3 DEF ShapeOf
    <3>3. QED
      BY <2>1, <3>1, <3>2
  <2>7. Divided(c, i)
    <3>1. c.transaction = transaction' /\ c.block = block'
      BY <2>4 DEF Cache
    <3>2. SubPart(Cache, i) \in SUBSET Blocks
      BY DEF SubPart, InTransaction
    <3>3. Cardinality(SubPart(Cache, i) \cup {b}) = Cardinality(SubPart(Cache, i)) + 1
      BY <2>5, <3>2, FiniteBlocks, FS_AddElement
    <3>4. /\ transaction[i].sub = Cardinality(SubPart(Cache, i))
          /\ transaction[i].main = Cardinality(MainPart(Cache, i) \cup Discarded(Cache, i))
          /\ \A a \in InTransaction(Cache, i) : DividedBlock(block[a])
      BY <1>12, <2>2 DEF Divided
    <3>5. QED
      BY <2>5, <2>6, <3>1, <3>3, <3>4 DEF Divided
  <2>8. Divided(Cache, i)'
    BY <2>4, <2>7
  <2>9. QED
    BY <1>14, <1>15, <2>2, <2>8
<1>22. JournalTypes'
  BY <1>1, <1>3 DEF JournalTypes
<1>23. id' \in Ids /\ Open(id)' /\ id' + 1 = nextId'
  <2>1. Open(id)' <=> Open(i)'
    BY <1>3, <1>5 DEF Open
  <2>2. QED
    BY <1>3, <1>5, <1>10, <1>20, <2>1
<1>24. QED
  BY <1>2, <1>3, <1>4, <1>17, <1>18, <1>19, <1>21, <1>22, <1>23, OpenStepBase

\* The abort of a transaction keeps the first invariant.
LEMMA AbortBase ==
    ASSUME Base, UnlockFailed, ~hasSub
    PROVE  Base'
<1>1. /\ Inv1 /\ JournalTypes /\ NoDiscards /\ Control
  BY DEF Base
<1>2. /\ pc \in {"inside", "failed"} /\ AbortTransaction(id) /\ unwritten' = FALSE
      /\ pc' = "free" /\ UNCHANGED <<logVars, hasSub, id, stamp>>
  BY DEF UnlockFailed
<1>3. UNCHANGED <<log, super, superBlock, logStart, logEnd, entries, lastStart, hook, flaw, at, todo>>
  BY <1>2 DEF logVars
<1>4. /\ call = NoCall /\ UNCHANGED <<nextId, events, notifying, call>>
      /\ transaction' = [transaction EXCEPT ![id] = Gone]
  BY <1>2 DEF AbortTransaction, TransactionLock, Idle
<1>5. PICK i \in Ids : i = id /\ Open(i) /\ AbortTransaction(i)
  BY <1>1, <1>2, <1>4 DEF Control, Kept, Owning, NoCall
<1>6. /\ \A b \in Blocks : block[b] \in BlockType /\ ShapeOf(Cache, block[b])
      /\ transaction \in [Ids -> TransactionType]
  BY <1>1, InvParts
<1>7. /\ ~Open(i)' /\ transaction'[i].state = "gone"
      /\ \A j \in Ids : j # i => transaction'[j] = transaction[j]
  BY <1>4, <1>5, <1>6 DEF Open, Gone
<1>8. ASSUME NEW b \in Blocks
      PROVE  /\ block'[b].previous = block[b].previous
             /\ ~block'[b].discard
             /\ block'[b].transaction # NoId => block'[b].original # NoData
  <2>1. block'[b] = IF block[b].transaction = i THEN AbortedBlock(block[b]) ELSE block[b]
    BY <1>1, <1>5, AbortBlocks
  <2>2. CASE block[b].transaction = i
    <3>1. PICK r, s : r \in BlockType /\ r = block[b] /\ s = AbortedBlock(r) /\ ShapeOf(Cache, r)
      BY <1>6
    <3>2. s.transaction = NoId /\ s.previous = r.previous /\ ~s.discard
      BY <2>2, <3>1, AbortedIs
    <3>3. QED
      BY <2>1, <2>2, <3>1, <3>2
  <2>3. CASE block[b].transaction # i
    BY <1>1, <2>1, <2>3 DEF NoDiscards
  <2>4. QED
    BY <2>2, <2>3
<1>9. OpenStep
  BY <1>3, <1>4, <1>5, <1>7, <1>8 DEF OpenStep, Open
<1>10. Inv1'
  BY <1>1, <1>5, AbortInv1
<1>11. NoDiscards'
  BY <1>8 DEF NoDiscards
<1>12. SubOK'
  <2>1. \A j \in Ids : ~Open(j)'
    BY <1>1, <1>5, <1>7, OneOpen DEF Open
  <2>2. QED
    BY <2>1 DEF SubOK
<1>13. JournalTypes'
  BY <1>1, <1>2, <1>3 DEF JournalTypes
<1>14. ~Kept'
  BY <1>2 DEF Kept, Owning, Entering
<1>15. QED
  BY <1>2, <1>4, <1>9, <1>10, <1>11, <1>12, <1>13, <1>14, OpenStepBase

\* The abort of a sub transaction keeps the first invariant.
LEMMA AbortSubBase ==
    ASSUME Base, UnlockFailed, hasSub
    PROVE  Base'
<1>1. /\ Inv1 /\ JournalTypes /\ NoDiscards /\ Control
  BY DEF Base
<1>2. /\ pc \in {"inside", "failed"} /\ AbortSubTransaction(id) /\ unwritten' = unwritten
      /\ pc' = "free" /\ UNCHANGED <<logVars, hasSub, id, stamp>>
  BY DEF UnlockFailed
<1>3. UNCHANGED <<log, super, superBlock, logStart, logEnd, entries, lastStart, hook, flaw, at, todo>>
  BY <1>2 DEF logVars
<1>4. call = NoCall /\ UNCHANGED <<nextId, events, notifying, call>>
  BY <1>2 DEF AbortSubTransaction, TransactionLock, Idle
<1>5. PICK i \in Ids : i = id /\ Open(i) /\ i + 1 = nextId /\ AbortSubTransaction(i)
  BY <1>1, <1>2, <1>4 DEF Control, Kept, Owning, NoCall
<1>6. \A b \in Blocks : block[b] \in BlockType /\ ShapeOf(Cache, block[b])
  BY <1>1, InvParts
<1>7. /\ transaction'[i].state = transaction[i].state /\ ~transaction'[i].hasSub
      /\ \A j \in Ids : j # i => transaction'[j] = transaction[j]
  BY <1>1, <1>5, AbortSubUpdates
<1>8. ASSUME NEW b \in Blocks
      PROVE  /\ block'[b].previous = block[b].previous
             /\ ~block'[b].discard
             /\ block'[b].transaction # NoId => block'[b].original # NoData
  <2>1. block'[b] = IF block[b].transaction # i THEN block[b]
                    ELSE IF block[b].parent = NoData
                    THEN LeftBlock(block[b]) ELSE RestoredBlock(block[b])
    BY <1>1, <1>5, AbortSubBlocks
  <2>2. CASE block[b].transaction = i /\ block[b].parent = NoData
    <3>1. PICK r, s : r \in BlockType /\ r = block[b] /\ s = LeftBlock(r) /\ ShapeOf(Cache, r)
      BY <1>6
    <3>2. s.transaction = NoId /\ s.previous = r.previous /\ ~s.discard
      BY <2>2, <3>1, LeftIs
    <3>3. QED
      BY <2>1, <2>2, <3>1, <3>2
  <2>3. CASE block[b].transaction = i /\ block[b].parent # NoData
    <3>1. PICK r, s : r \in BlockType /\ r = block[b] /\ s = RestoredBlock(r) /\ ShapeOf(Cache, r)
      BY <1>6
    <3>2. /\ s.transaction = r.transaction /\ s.previous = r.previous /\ ~s.discard
          /\ s.original = r.original
      BY <2>3, <3>1, RestoredIs
    <3>3. block[b].original # NoData
      BY <1>1, <2>3 DEF NoDiscards
    <3>4. QED
      BY <2>1, <2>3, <3>1, <3>2, <3>3
  <2>4. CASE block[b].transaction # i
    BY <1>1, <2>1, <2>4 DEF NoDiscards
  <2>5. QED
    BY <2>2, <2>3, <2>4
<1>9. OpenStep
  BY <1>3, <1>4, <1>5, <1>7, <1>8 DEF OpenStep, Open
<1>10. Inv1'
  BY <1>1, <1>5, AbortSubInv1
<1>11. NoDiscards'
  BY <1>8 DEF NoDiscards
<1>12. SubOK'
  <2>1. \A j \in Ids : Open(j)' => j = i
    BY <1>1, <1>5, <1>7, OneOpen DEF Open
  <2>2. QED
    BY <1>7, <2>1 DEF SubOK
<1>13. JournalTypes'
  BY <1>1, <1>2, <1>3 DEF JournalTypes
<1>14. id' \in Ids /\ Open(id)' /\ id' + 1 = nextId'
  <2>1. Open(id)' <=> Open(i)'
    BY <1>2, <1>5 DEF Open
  <2>2. Open(i)'
    BY <1>5, <1>7 DEF Open
  <2>3. QED
    BY <1>2, <1>4, <1>5, <2>1, <2>2
<1>15. QED
  BY <1>2, <1>4, <1>9, <1>10, <1>11, <1>12, <1>13, <1>14, OpenStepBase

\* UnlockFailed keeps the first invariant.
LEMMA UnlockFailedBase ==
    ASSUME Base, UnlockFailed
    PROVE  Base'
BY AbortBase, AbortSubBase

\* An array is followed by the next one after its own block and its blocks.
LEMMA Further ==
    ASSUME NEW p \in Nat, NEW q \in Nat, NEW u \in Nat, NEW n \in Nat,
           q = p + 1 + n, n > 0, q <= u
    PROVE  p + 1 + n <= u /\ p < u
  OBVIOUS

\* The arrays are where they are because of the lengths of those before.
LEMMA Grows ==
    ASSUME NEW g \in Logs, Laid(g), NEW k \in Nat, NEW l \in Nat, k < l, l <= g.f
    PROVE  /\ g.pos[k] \in Nat /\ g.pos[l] \in Nat /\ Len(g.chunk[k].runs) \in Nat \ {0}
           /\ g.pos[k] + 1 + Len(g.chunk[k].runs) <= g.pos[l] /\ g.pos[k] < g.pos[l]
           /\ g.pos[k + 1] = g.pos[k] + 1 + Len(g.chunk[k].runs)
<1>1. g.pos \in [Nat -> Nat] /\ g.f \in Nat /\ g.chunk[k] \in Chunks
  BY DEF Logs
<1>2. g.chunk[k].runs \in Seq(Blocks)
  BY <1>1 DEF Chunks
<1>3. Len(g.chunk[k].runs) \in Nat
  BY <1>2
<1>4. k \in 0..g.f - 1 /\ k + 1 \in 0..g.f /\ l \in 0..g.f /\ k + 1 <= l
  BY <1>1
<1>5. /\ g.pos[k + 1] = g.pos[k] + 1 + Len(g.chunk[k].runs) /\ Len(g.chunk[k].runs) > 0
  BY <1>4 DEF Laid
<1>6. g.pos[k + 1] + (l - (k + 1)) <= g.pos[l]
  BY <1>4 DEF Laid
<1>7. g.pos[k] \in Nat /\ g.pos[l] \in Nat /\ g.pos[k + 1] \in Nat
  BY <1>1
<1>8. PICK p \in Nat, q \in Nat, u \in Nat, n \in Nat :
         p = g.pos[k] /\ q = g.pos[k + 1] /\ u = g.pos[l] /\ n = Len(g.chunk[k].runs)
  BY <1>3, <1>7
<1>9. q = p + 1 + n /\ n > 0 /\ q <= u
  BY <1>4, <1>5, <1>6, <1>8
<1>10. p + 1 + n <= u /\ p < u
  BY <1>9, Further
<1>11. QED
  BY <1>3, <1>5, <1>7, <1>8, <1>10

\* And in their order.
LEMMA Ordered ==
    ASSUME NEW g \in Logs, Laid(g), NEW k \in Nat, NEW l \in Nat, k <= l, l <= g.f
    PROVE  g.pos[k] \in Nat /\ g.pos[l] \in Nat /\ g.pos[k] <= g.pos[l]
<1>1. g.pos \in [Nat -> Nat] /\ g.f \in Nat
  BY DEF Logs
<1>2. k \in 0..g.f /\ l \in 0..g.f
  BY <1>1
<1>3. g.pos[k] + (l - k) <= g.pos[l]
  BY <1>2 DEF Laid
<1>4. PICK p \in Nat, q \in Nat : p = g.pos[k] /\ q = g.pos[l]
  BY <1>1
<1>5. p <= q
  BY <1>3, <1>4
<1>6. QED
  BY <1>4, <1>5

\* The order of the places, and the room between them.
LEMMA Room ==
    ASSUME NEW g \in Logs, Laid(g), Order(g), NEW k \in Nat, NEW l \in Nat,
           g.ls <= k, k <= l, l <= g.f
    PROVE  /\ g.pos[k] \in Nat /\ g.pos[l] \in Nat /\ g.pos[g.ls] \in Nat /\ g.pos[g.f] \in Nat
           /\ g.pos[g.ls] <= g.pos[k] /\ g.pos[k] <= g.pos[l] /\ g.pos[l] <= g.pos[g.f]
           /\ g.pos[g.f] <= g.pos[g.ls] + LogSize
           /\ k < l => g.pos[k] < g.pos[l] /\ LogSize > 0
<1>1. g.pos \in [Nat -> Nat] /\ g.f \in Nat /\ g.ls \in Nat
  BY DEF Logs
<1>2. /\ g.pos[k] \in Nat /\ g.pos[l] \in Nat /\ g.pos[g.ls] \in Nat /\ g.pos[g.f] \in Nat
  BY <1>1
<1>3. g.pos[g.ls] <= g.pos[k] /\ g.pos[k] <= g.pos[l] /\ g.pos[l] <= g.pos[g.f]
  <2>1. k <= g.f /\ g.f <= g.f
    BY <1>1
  <2>2. g.pos[g.ls] <= g.pos[k]
    BY <1>1, <2>1, Ordered
  <2>3. g.pos[k] <= g.pos[l]
    BY Ordered
  <2>4. g.pos[l] <= g.pos[g.f]
    BY <1>1, <2>1, Ordered
  <2>5. QED
    BY <2>2, <2>3, <2>4
<1>4. g.pos[g.f] - g.pos[g.ls] <= LogSize /\ LogSize \in Nat
  BY JournalAssumption DEF Laid
<1>5. k < l => g.pos[k] < g.pos[l]
  BY Grows
<1>6. QED
  BY <1>2, <1>3, <1>4, <1>5

\* Where a replay is before it comes to array r; a and last are its variables.
ReplayFrom(g, a, last, r) ==
    /\ g.s <= r /\ r <= g.x
    /\ a = IF r = g.s THEN super.start ELSE g.pos[r] % LogSize
    /\ IF r = g.s THEN last = -1 ELSE last >= 0 /\ IsAt(last, g.pos[r - 1])

\* Nothing of the log is hidden from a mount.
Mountable == super.end = LogSize => super.start = super.end

\* What the pointers of the superblock on the disk are.
LEMMA SuperIs ==
    ASSUME JournalTypes, NEW g \in Logs, Geometry(g), Mountable
    PROVE  /\ g.s \in Nat /\ g.x \in Nat /\ g.f \in Nat /\ g.ls \in Nat
           /\ g.ls <= g.s /\ g.s <= g.x /\ g.x <= g.f
           /\ super.start \in 0..LogSize /\ super.end \in 0..LogSize /\ LogSize \in Nat
           /\ g.s = g.x => super.start = super.end
           /\ g.s < g.x => /\ LogSize > 0 /\ super.end < LogSize /\ super.start # super.end
                           /\ super.end = g.pos[g.x] % LogSize
                           /\ IsAt(super.start, g.pos[g.s])
<1>1. /\ super.start \in 0..LogSize /\ super.end \in 0..LogSize /\ LogSize \in Nat
  BY JournalAssumption DEF JournalTypes, Pointers
<1>2. /\ g.s \in Nat /\ g.x \in Nat /\ g.f \in Nat /\ g.ls \in Nat /\ g.e \in Nat /\ g.sb \in Nat
      /\ g.pos \in [Nat -> Nat]
  BY DEF Logs
<1>3. /\ g.ls <= g.s /\ g.s <= g.x /\ g.e <= g.f /\ (g.x = g.f \/ g.x = g.e)
      /\ Order(g) /\ Laid(g) /\ Spans(g) /\ Places(g)
  BY DEF Geometry, Order
<1>4. g.x <= g.f
  BY <1>2, <1>3
<1>5. PICK d \in Int : d = g.pos[g.x] - g.pos[g.s]
  BY <1>2
<1>6. Span(super.start, super.end, d)
  BY <1>3, <1>5 DEF Spans
<1>7. ASSUME g.s = g.x PROVE super.start = super.end
  <2>1. d = 0
    BY <1>2, <1>5, <1>7
  <2>2. QED
    BY <1>6, <2>1 DEF Span
<1>8. ASSUME g.s < g.x
      PROVE  /\ LogSize > 0 /\ super.end < LogSize /\ super.start # super.end
             /\ super.end = g.pos[g.x] % LogSize
             /\ IsAt(super.start, g.pos[g.s])
  <2>1. LogSize > 0 /\ g.pos[g.s] < g.pos[g.x]
    BY <1>2, <1>3, <1>4, <1>8, Room
  <2>2. d > 0
    BY <1>2, <1>5, <2>1
  <2>3. super.start # super.end
    BY <1>1, <1>6, <2>2 DEF Span, Used
  <2>4. super.end < LogSize
    BY <1>1, <2>3 DEF Mountable
  <2>5. IsAt(super.start, g.pos[g.s]) /\ IsAt(super.end, g.pos[g.x])
    BY <1>3, <2>1 DEF Places
  <2>6. super.end % LogSize = super.end
    BY <1>1, <2>1, <2>4
  <2>7. QED
    BY <2>1, <2>3, <2>4, <2>5, <2>6 DEF IsAt
<1>9. QED
  BY <1>1, <1>2, <1>3, <1>4, <1>7, <1>8

\* The replay is done exactly if it is at the end.
LEMMA ReplayDone ==
    ASSUME JournalTypes, NEW g \in Logs, Geometry(g), Mountable,
           NEW a, NEW last, NEW r \in Nat, ReplayFrom(g, a, last, r)
    PROVE  a = super.end <=> r = g.x
<1>1. /\ g.s \in Nat /\ g.x \in Nat /\ g.f \in Nat /\ g.ls \in Nat
      /\ g.ls <= g.s /\ g.s <= g.x /\ g.x <= g.f
      /\ g.s = g.x => super.start = super.end
      /\ g.s < g.x => /\ LogSize > 0 /\ super.start # super.end
                      /\ super.end = g.pos[g.x] % LogSize
  BY SuperIs
<1>2. /\ g.s <= r /\ r <= g.x /\ a = IF r = g.s THEN super.start ELSE g.pos[r] % LogSize
  BY DEF ReplayFrom
<1>3. CASE g.s = g.x
  BY <1>1, <1>2, <1>3
<1>4. CASE g.s < g.x /\ r = g.s
  BY <1>1, <1>2, <1>4
<1>5. CASE g.s < g.x /\ r = g.x
  BY <1>1, <1>2, <1>5
<1>6. CASE g.s < r /\ r < g.x
  <2>1. a = g.pos[r] % LogSize /\ super.end = g.pos[g.x] % LogSize /\ LogSize > 0
    BY <1>1, <1>2, <1>6
  <2>2. PICK p \in Nat, q \in Nat : p = g.pos[r] /\ q = g.pos[g.x] /\ p < q /\ q < p + LogSize
    <3>1. /\ g.pos[r] \in Nat /\ g.pos[g.x] \in Nat /\ g.pos[r] < g.pos[g.x]
          /\ g.pos[g.x] <= g.pos[g.f] /\ g.pos[g.f] <= g.pos[g.ls] + LogSize
          /\ g.pos[g.ls] \in Nat /\ g.pos[g.f] \in Nat
      BY <1>1, <1>6, Room DEF Geometry
    <3>2. g.pos[g.ls] < g.pos[r]
      BY <1>1, <1>6, Room DEF Geometry
    <3>3. QED
      BY <3>1, <3>2, JournalAssumption
  <2>3. ~IsAt(p, q)
    BY <2>1, <2>2, AtIs
  <2>4. QED
    BY <1>6, <2>1, <2>2, <2>3 DEF IsAt
<1>7. QED
  BY <1>1, <1>2, <1>3, <1>4, <1>5, <1>6

\* What a chunk is.
LEMMA ChunkType ==
    ASSUME NEW g \in Logs, NEW k \in Nat
    PROVE  /\ g.chunk[k] \in Chunks
           /\ g.chunk[k].runs \in Seq(Blocks) /\ g.chunk[k].data \in Seq(Values)
           /\ Len(g.chunk[k].runs) \in Nat
           /\ \A j \in 1..Len(g.chunk[k].runs) : g.chunk[k].runs[j] \in Blocks
<1>1. g.chunk[k] \in Chunks
  BY DEF Logs
<1>2. PICK c \in Chunks : c = g.chunk[k]
  BY <1>1
<1>3. c.runs \in Seq(Blocks) /\ c.data \in Seq(Values)
  BY DEF Chunks
<1>4. PICK q \in Seq(Blocks) : q = c.runs
  BY <1>3
<1>5. Len(q) \in Nat /\ \A j \in 1..Len(q) : q[j] \in Blocks
  OBVIOUS
<1>6. QED
  BY <1>2, <1>3, <1>4, <1>5

\* What the replay finds: array r, its data, and then the next one.
ReplayFinds(g, a, last, r) ==
    /\ LogSize > 0 /\ a \in 0..LogSize /\ a # last /\ g.s <= r /\ r < g.x /\ g.x <= g.f
    /\ log[a % LogSize].runs = g.chunk[r].runs
    /\ Len(g.chunk[r].runs) \in Nat \ {0} /\ Len(g.chunk[r].data) = Len(g.chunk[r].runs)
    /\ \A j \in 1..Len(g.chunk[r].runs) :
            log[(a + j) % LogSize].data = g.chunk[r].data[j]
    /\ (a + 1 + Len(g.chunk[r].runs)) % LogSize \in 0..LogSize
    /\ ReplayFrom(g, (a + 1 + Len(g.chunk[r].runs)) % LogSize, a, r + 1)

\* That is so if it is not at the end.
LEMMA ReplayStep ==
    ASSUME JournalTypes, NEW g \in Logs, Geometry(g), Mountable,
           NEW a, NEW last, NEW r \in Nat, ReplayFrom(g, a, last, r), a # super.end
    PROVE  ReplayFinds(g, a, last, r)
<1>1. r # g.x
  BY ReplayDone
<1>2. /\ g.s \in Nat /\ g.x \in Nat /\ g.f \in Nat /\ g.ls \in Nat
      /\ g.ls <= g.s /\ g.s <= g.x /\ g.x <= g.f
      /\ super.start \in 0..LogSize /\ LogSize \in Nat
      /\ g.s < g.x => LogSize > 0 /\ IsAt(super.start, g.pos[g.s])
  BY SuperIs
<1>3. /\ g.s <= r /\ r < g.x /\ a = IF r = g.s THEN super.start ELSE g.pos[r] % LogSize
      /\ IF r = g.s THEN last = -1 ELSE last >= 0 /\ IsAt(last, g.pos[r - 1])
  BY <1>1, <1>2 DEF ReplayFrom
<1>4. LogSize > 0 /\ IsAt(super.start, g.pos[g.s])
  BY <1>2, <1>3
<1>5. PICK c \in Chunks, n \in Nat : c = g.chunk[r] /\ n = Len(c.runs)
  BY ChunkType
<1>6. PICK t \in Nat : t = r + 1 /\ t # g.s /\ t <= g.x /\ t - 1 = r
  BY <1>2, <1>3
<1>7. PICK p \in Nat, q \in Nat : /\ p = g.pos[r] /\ q = g.pos[t] /\ q = p + 1 + n /\ n # 0
  <2>1. r < t /\ t <= g.f
    BY <1>2, <1>6
  <2>2. /\ g.pos[r] \in Nat /\ g.pos[t] \in Nat /\ n \in Nat \ {0}
        /\ g.pos[r + 1] = g.pos[r] + 1 + Len(g.chunk[r].runs)
    BY <1>5, <2>1, Grows DEF Geometry
  <2>3. QED
    BY <1>5, <1>6, <2>2
<1>8. a \in 0..LogSize /\ IsAt(a, p)
  <2>1. p % LogSize \in 0..LogSize /\ IsAt(p % LogSize, p)
    BY <1>4, AtRange
  <2>2. QED
    BY <1>2, <1>3, <1>4, <1>7, <2>1
<1>9. a # last
  <2>1. CASE r = g.s
    BY <1>3, <1>8, <2>1
  <2>2. CASE r # g.s
    <3>1. PICK u \in Nat : u = r - 1 /\ g.s <= u /\ u < r
      BY <1>2, <1>3, <2>2
    <3>2. PICK v \in Nat : v = g.pos[u] /\ v < p /\ p < v + LogSize /\ IsAt(last, v)
      <4>1. g.ls <= u /\ u <= r /\ r <= g.f /\ r < t /\ t <= g.f /\ g.ls <= r /\ r <= t
        BY <1>2, <1>3, <1>6, <3>1
      <4>2. /\ g.pos[u] \in Nat /\ g.pos[u] < g.pos[r] /\ g.pos[g.ls] <= g.pos[u]
            /\ g.pos[g.ls] \in Nat /\ g.pos[g.f] \in Nat
            /\ g.pos[g.f] <= g.pos[g.ls] + LogSize
        BY <3>1, <4>1, Room DEF Geometry
      <4>3. g.pos[r] < g.pos[t] /\ g.pos[t] <= g.pos[g.f]
        BY <4>1, Room DEF Geometry
      <4>4. IsAt(last, g.pos[u])
        BY <1>3, <2>2, <3>1
      <4>5. QED
        BY <1>2, <1>7, <4>2, <4>3, <4>4
    <3>3. ~IsAt(v, p)
      BY <1>4, <3>2, AtIs
    <3>4. QED
      BY <1>8, <3>2, <3>3 DEF IsAt
  <2>3. QED
    BY <2>1, <2>2
<1>10. /\ log[p % LogSize].runs = c.runs /\ Len(c.data) = n
       /\ \A j \in 1..n : log[(p + j) % LogSize].data = c.data[j]
  <2>1. r \in g.s..g.f - 1 /\ r \in 0..g.f - 1
    BY <1>2, <1>3
  <2>2. /\ log[g.pos[r] % LogSize].runs = g.chunk[r].runs
        /\ \A j \in 1..Len(g.chunk[r].runs) :
              log[(g.pos[r] + j) % LogSize].data = g.chunk[r].data[j]
    BY <2>1 DEF Geometry, Stored
  <2>3. Len(g.chunk[r].data) = Len(g.chunk[r].runs)
    BY <2>1 DEF Geometry, Laid
  <2>4. QED
    BY <1>5, <1>7, <2>2, <2>3
<1>11. \A j \in 1..n : log[(a + j) % LogSize].data = c.data[j]
  <2>1. TAKE j \in 1..n
  <2>2. PICK u \in Int, v \in Int : u = a + j /\ v = p + j
    BY <1>8
  <2>3. u - a = v - p
    BY <1>8, <2>2
  <2>4. IsAt(u, v)
    BY <1>4, <1>8, <2>3, AtPlus
  <2>5. QED
    BY <1>10, <2>2, <2>4 DEF IsAt
<1>12. PICK z : z = (a + 1 + n) % LogSize /\ z \in 0..LogSize /\ z = q % LogSize
  <2>1. PICK u \in Int : u = a + 1 + n
    BY <1>8
  <2>2. u - a = q - p
    BY <1>7, <1>8, <2>1
  <2>3. IsAt(u, q)
    BY <1>4, <1>8, <2>2, AtPlus
  <2>4. u % LogSize \in 0..LogSize
    BY <1>4, AtRange
  <2>5. QED
    BY <2>1, <2>3, <2>4 DEF IsAt
<1>13. ReplayFrom(g, z, a, t)
  BY <1>2, <1>3, <1>6, <1>7, <1>8, <1>12 DEF ReplayFrom
<1>14. log[a % LogSize].runs = c.runs
  BY <1>8, <1>10 DEF IsAt
<1>15. QED
  BY <1>2, <1>3, <1>4, <1>5, <1>6, <1>7, <1>8, <1>9, <1>10, <1>11, <1>12, <1>13, <1>14
     DEF ReplayFinds

\* Nothing is cached, and the log is being replayed, or empty.
Unused ==
    /\ EmptyCache /\ JournalTypes /\ Replaying /\ pc \in {"free", "replay"}
    /\ entries = <<>> /\ hook = "none" /\ ~unwritten
    /\ pc = "free" => superBlock.start = logEnd /\ logStart = logEnd

\* The first invariant holds then.
LEMMA UnusedBase == Unused => Base
<1> SUFFICES ASSUME EmptyCache, JournalTypes, Replaying, pc \in {"free", "replay"},
                    entries = <<>>, hook = "none", ~unwritten,
                    pc = "free" => superBlock.start = logEnd /\ logStart = logEnd
             PROVE  Base
  BY DEF Unused
<1>1. Inv1
  BY EmptyInv1
<1>2. /\ block = [b \in Blocks |-> Absent] /\ transaction = [i \in Ids |-> Gone]
      /\ events = <<>> /\ notifying = NoId /\ call = NoCall
  BY DEF EmptyCache
<1>3. /\ \A b \in Blocks : /\ ~block[b].discard /\ block[b].transaction = NoId
                           /\ block[b].previous = NoId
      /\ \A i \in Ids : transaction[i].state = "gone"
  BY <1>2, AbsentIs, GoneIs
<1>4. call.op = "none" /\ call.op # "detach"
  BY <1>2 DEF NoCall
<1>5. ~Kept
  BY DEF Kept, Owning, Entering
<1>6. Control
  BY <1>2, <1>4, <1>5 DEF Control, Owning, Entering
<1>7. NoDiscards /\ SubOK
  BY <1>3 DEF NoDiscards, SubOK, Open
<1>8. TrackedIn(Cache)
  BY <1>2, <1>3 DEF TrackedIn, Waiting, Pending, Cache
<1>9. Tracked
  BY <1>2, <1>8 DEF Tracked
<1>10. Reasons
  BY <1>4 DEF Reasons, Committing
<1>11. SpaceOK
  BY DEF SpaceOK
<1>12. EntryWriting
  BY DEF EntryWriting
<1>13. QED
  BY <1>1, <1>6, <1>7, <1>9, <1>10, <1>11, <1>12 DEF Base

\* It holds initially.
LEMMA InitBase ==
    ASSUME Init
    PROVE  Base
<1>1. CacheInit /\ EmptyCache
  BY BlockCacheAssumption DEF Init, CacheInit, EmptyCache, Values
<1>2. super.start \in 0..LogSize /\ super \in Pointers
  BY JournalAssumption DEF Init, Pointers
<1>3. log \in [0..LogSize - 1 -> LogBlocks]
  BY DEF Init, LogBlocks, LogData
<1>4. /\ superBlock = super /\ logStart = super.start /\ logEnd = super.end
      /\ super.start = super.end
  BY DEF Init
<1>5. JournalTypes
  <2>1. super.end \in 0..LogSize
    BY <1>2 DEF Pointers
  <2>2. 0 \in 0..LogSize /\ 0 \in Values /\ -1 \in Int /\ <<>> \in Seq(Entries)
    BY JournalAssumption, BlockCacheAssumption DEF Values
  <2>3. QED
    BY <1>2, <1>3, <1>4, <2>1, <2>2 DEF JournalTypes, Init
<1>6. QED
  BY <1>1, <1>4, <1>5, UnusedBase DEF Init, Replaying, Unused

\* Crash keeps it.
LEMMA CrashBase ==
    ASSUME Base, Crash
    PROVE  Base'
<1>1. Inv1 /\ JournalTypes
  BY DEF Base
<1>2. EmptyCache'
  BY <1>1 DEF Crash, EmptyCache, Inv1, Types, OtherTypes
<1>3. JournalTypes'
  <2>1. /\ super \in Pointers /\ super.start \in 0..LogSize /\ super.end \in 0..LogSize
    BY <1>1 DEF JournalTypes, Pointers
  <2>2. <<>> \in Seq(Entries) /\ <<>> \in Seq(Blocks \X Values) /\ -1 \in Int
    OBVIOUS
  <2>3. /\ UNCHANGED <<log, super, stamp, flaw>> /\ superBlock' = super
        /\ logStart' = super.start /\ logEnd' = super.end /\ entries' = <<>> /\ hook' = "none"
        /\ unwritten' = FALSE /\ hasSub' = FALSE /\ todo' = <<>> /\ at' = super.start
        /\ lastStart' = -1 /\ pc' = "replay"
    BY DEF Crash
  <2>4. QED
    BY <1>1, <2>1, <2>2, <2>3 DEF JournalTypes
<1>4. Replaying'
  BY <1>2 DEF Crash, Replaying, Exposed
<1>5. /\ pc' \in {"free", "replay"} /\ entries' = <<>> /\ hook' = "none" /\ ~unwritten'
      /\ pc' = "free" => superBlock'.start = logEnd' /\ logStart' = logEnd'
  BY DEF Crash
<1>6. Unused'
  BY <1>2, <1>3, <1>4, <1>5 DEF Unused
<1>7. QED
  BY <1>6, UnusedBase, PTL

\* ReplayEnds keeps it.
LEMMA ReplayEndsBase ==
    ASSUME Base, ReplayEnds
    PROVE  Base'
<1>1. Inv1 /\ JournalTypes /\ Replaying
  BY DEF Base
<1>2. /\ pc = "replay" /\ pc' = "free" /\ superBlock' = [superBlock EXCEPT !.start = logEnd]
      /\ logStart' = logEnd /\ super' = superBlock' /\ lastStart' = -1
      /\ UNCHANGED <<log, logEnd, entries, unwritten, hasSub, at, hook, stamp, flaw>>
      /\ UNCHANGED <<block, transaction, nextId, events, notifying, toWrite, written, call, disk>>
  BY DEF ReplayEnds, cacheVars
<1>3. EmptyCache'
  BY <1>1, <1>2 DEF Replaying, EmptyCache
<1>4. /\ superBlock'.start = logEnd /\ superBlock' \in Pointers
  BY <1>1, <1>2 DEF JournalTypes, Pointers
<1>5. JournalTypes'
  BY <1>1, <1>2, <1>4 DEF JournalTypes
<1>6. Replaying'
  BY <1>2 DEF Replaying
<1>7. entries' = <<>> /\ hook' = "none" /\ ~unwritten' /\ superBlock'.start = logEnd'
      /\ logStart' = logEnd' /\ pc' \in {"free", "replay"}
  BY <1>1, <1>2, <1>4 DEF Replaying
<1>8. Unused'
  BY <1>3, <1>5, <1>6, <1>7 DEF Unused
<1>9. QED
  BY <1>8, UnusedBase, PTL

\* While a mount replays the log, it is where it should be.
LEMMA ReplayIs ==
    ASSUME Base, NEW g \in Logs, Geometry(g), pc = "replay"
    PROVE  /\ Mountable /\ g.x = g.f /\ g.r \in Nat /\ logEnd = super.end
           /\ ReplayFrom(g, at, lastStart, g.r)
<1>1. Replaying
  BY DEF Base
<1>2. Mountable /\ logEnd = super.end
  BY <1>1 DEF Replaying, Mountable
<1>3. g.x = g.f
  BY DEF Geometry, Order
<1>4. g.r \in Nat
  BY DEF Logs
<1>5. ReplayFrom(g, at, lastStart, g.r)
  BY <1>3 DEF Geometry, Replay, ReplayFrom
<1>6. QED
  BY <1>2, <1>3, <1>4, <1>5

\* What the replay is about to write is in the log.
ArrayBlocks(g, r) == [j \in 1..Len(g.chunk[r].runs) |-> <<g.chunk[r].runs[j], g.chunk[r].data[j]>>]

\* What ReplayNext does; it never fails.
LEMMA ReplayNextIs ==
    ASSUME Base, NEW g \in Logs, Geometry(g), ReplayNext
    PROVE  /\ pc = "replay" /\ pc' = "replay" /\ todo = <<>> /\ lastStart' = at
           /\ ReplayFinds(g, at, lastStart, g.r)
           /\ at' = (at + 1 + Len(g.chunk[g.r].runs)) % LogSize
           /\ todo' = ArrayBlocks(g, g.r) /\ todo' \in Seq(Blocks \X Values)
<1>1. pc = "replay" /\ todo = <<>> /\ at # logEnd /\ JournalTypes
  BY DEF ReplayNext, Base
<1>2. /\ Mountable /\ g.r \in Nat /\ logEnd = super.end /\ ReplayFrom(g, at, lastStart, g.r)
  BY <1>1, ReplayIs
<1>3. ReplayFinds(g, at, lastStart, g.r)
  BY <1>1, <1>2, ReplayStep
<1>4. PICK c \in Chunks, n \in Nat : c = g.chunk[g.r] /\ n = Len(c.runs)
  BY <1>2, ChunkType
<1>5. /\ at # lastStart /\ log[at % LogSize].runs = c.runs /\ n # 0 /\ Len(c.data) = n
      /\ \A j \in 1..n : log[(at + j) % LogSize].data = c.data[j]
  BY <1>3, <1>4 DEF ReplayFinds
<1>6. c.runs \in Seq(Blocks) /\ c.data \in Seq(Values)
  BY DEF Chunks
<1>7. c.runs # <<>>
  BY <1>4, <1>5, <1>6
<1>8. /\ todo' = [j \in 1..Len(c.runs) |-> <<c.runs[j], log[(at + j) % LogSize].data>>]
      /\ at' = (at + 1 + Len(c.runs)) % LogSize
      /\ lastStart' = at /\ pc' = pc
  BY <1>5, <1>7 DEF ReplayNext
<1>9. todo' = [j \in 1..n |-> <<c.runs[j], c.data[j]>>]
  BY <1>4, <1>5, <1>8
<1>10. todo' \in Seq(Blocks \X Values)
  <2>1. \A j \in 1..n : c.runs[j] \in Blocks /\ c.data[j] \in Values
    BY <1>4, <1>5, <1>6
  <2>2. \A j \in 1..n : <<c.runs[j], c.data[j]>> \in Blocks \X Values
    BY <2>1
  <2>3. todo' \in [1..n -> Blocks \X Values]
    BY <1>9, <2>2
  <2>4. QED
    BY <2>3
<1>11. todo' = ArrayBlocks(g, g.r)
  BY <1>4, <1>9 DEF ArrayBlocks
<1>12. QED
  BY <1>1, <1>3, <1>4, <1>8, <1>10, <1>11

\* ReplayNext keeps the first invariant, if that about the log holds.
LEMMA ReplayNextBase ==
    ASSUME Base, NEW g \in Logs, Geometry(g), ReplayNext
    PROVE  Base'
<1>1. Inv1 /\ JournalTypes /\ Replaying
  BY DEF Base
<1>2. /\ pc = "replay" /\ pc' = "replay" /\ lastStart' = at
      /\ ReplayFinds(g, at, lastStart, g.r)
      /\ at' = (at + 1 + Len(g.chunk[g.r].runs)) % LogSize
      /\ todo' \in Seq(Blocks \X Values)
  BY ReplayNextIs
<1>3. at' \in 0..LogSize /\ lastStart' \in Int
  BY <1>1, <1>2 DEF ReplayFinds, JournalTypes
<1>4. /\ UNCHANGED <<log, super, superBlock, logStart, logEnd, entries, unwritten, hasSub, hook,
                     stamp, flaw>>
      /\ UNCHANGED <<block, transaction, nextId, events, notifying, toWrite, written, call, disk>>
  BY DEF ReplayNext, cacheVars
<1>5. JournalTypes'
  BY <1>1, <1>2, <1>3, <1>4 DEF JournalTypes
<1>6. EmptyCache' /\ Replaying'
  BY <1>1, <1>2, <1>4 DEF Replaying, EmptyCache
<1>7. entries' = <<>> /\ hook' = "none" /\ ~unwritten'
  BY <1>1, <1>2, <1>4 DEF Replaying
<1>8. Unused'
  BY <1>2, <1>5, <1>6, <1>7 DEF Unused
<1>9. QED
  BY <1>8, UnusedBase, PTL

\* ReplayBlock keeps it.
LEMMA ReplayBlockBase ==
    ASSUME Base, ReplayBlock
    PROVE  Base'
<1>1. Inv1 /\ JournalTypes /\ Replaying
  BY DEF Base
<1>2. /\ pc = "replay" /\ pc' = "replay" /\ todo # <<>>
      /\ disk' = [disk EXCEPT ![Head(todo)[1]] = Head(todo)[2]] /\ todo' = Tail(todo)
      /\ UNCHANGED <<log, super, superBlock, logStart, logEnd, entries, unwritten, hasSub, hook,
                     stamp, flaw, at, lastStart>>
      /\ UNCHANGED <<block, transaction, nextId, events, notifying, toWrite, written, call>>
  BY DEF ReplayBlock
<1>3. PICK q \in Seq(Blocks \X Values) : q = todo
  BY <1>1, <1>2 DEF JournalTypes
<1>4. Head(q) \in Blocks \X Values /\ Tail(q) \in Seq(Blocks \X Values)
  BY <1>2, <1>3
<1>5. disk' \in [Blocks -> Values]
  <2>1. disk \in [Blocks -> Values]
    BY <1>1 DEF Inv1, Types, OtherTypes
  <2>2. Head(q)[1] \in Blocks /\ Head(q)[2] \in Values
    BY <1>4
  <2>3. QED
    BY <1>2, <1>3, <2>1, <2>2
<1>6. EmptyCache' /\ Replaying'
  BY <1>1, <1>2, <1>5 DEF Replaying, EmptyCache
<1>7. JournalTypes'
  BY <1>1, <1>2, <1>3, <1>4 DEF JournalTypes
<1>8. entries' = <<>> /\ hook' = "none" /\ ~unwritten'
  BY <1>1, <1>2 DEF Replaying
<1>9. Unused'
  BY <1>2, <1>6, <1>7, <1>8 DEF Unused
<1>10. QED
  BY <1>9, UnusedBase, PTL

\* A step that changes nothing keeps the first invariant.
LEMMA StutterBase ==
    ASSUME Base, UNCHANGED vars
    PROVE  Base'
<1>1. /\ Inv1 /\ JournalTypes /\ Replaying /\ SpaceOK
  BY DEF Base
<1>2. UNCHANGED cacheVars /\ JournalSame
  BY DEF vars, JournalSame
<1>3. UNCHANGED <<block, transaction, nextId, events, notifying, toWrite, written, call, disk>>
  BY <1>2 DEF cacheVars
<1>4. UNCHANGED <<log, super, superBlock, logStart, logEnd, entries, unwritten, hasSub, id, pc,
                  todo, at, lastStart, hook, stamp, flaw>>
  BY <1>2 DEF JournalSame, journalVars
<1>5. JournalTypes'
  BY <1>1, <1>2, TypesSame
<1>6. CASE pc = "replay"
  <2>1. EmptyCache' /\ Replaying'
    BY <1>1, <1>3, <1>4, <1>6 DEF Replaying, EmptyCache
  <2>2. Unused'
    BY <1>1, <1>4, <1>5, <1>6, <2>1 DEF Unused, Replaying
  <2>3. QED
    BY <2>2, UnusedBase, PTL
<1>7. CASE pc # "replay"
  <2>1. Inv1'
    BY <1>1, <1>2, StutterInv1
  <2>2. Quiet /\ CallFrame
    BY <1>3, QuietSame DEF CallFrame
  <2>3. Tracked' /\ Reasons'
    BY <1>3, <1>4, <2>2, TrackedSame
  <2>4. SpaceOK'
    BY <1>1, <1>3, <1>4 DEF SpaceOK, Busy, NoPrevious
  <2>5. QED
    BY <1>4, <1>5, <1>7, <2>1, <2>2, <2>3, <2>4, QuietBase
<1>8. QED
  BY <1>6, <1>7

\* The client goes on after its writes.
LEMMA ClientWrittenBase ==
    ASSUME Base, ClientWritten, JournalSame
    PROVE  Base'
<1>1. Inv1 /\ Control
  BY DEF Base
<1>2. PICK S, d : S = written["client"] /\ d = BlocksDone(Cache, S)
  OBVIOUS
<1>3. call.op \in {"end", "detach", "discard", "sync"}
  BY <1>1, <1>2, ClientWrittenParts DEF CallMayFinish
<1>4. call.op = "sync" \/ Committing(call.op)
  BY <1>1, <1>3 DEF Control, Committing
<1>5. QED
  BY <1>4, SyncWrittenBase, LeaveWrittenBase

\* All steps keep it.
LEMMA NextBase ==
    ASSUME JInv1, [Next]_vars
    PROVE  Base'
<1>1. Base /\ (~flaw => \E g \in Logs : Geometry(g))
  BY DEF JInv1
<1>2. ASSUME NEW w \in {"client", "background"}, WriteBlock(w), UNCHANGED journalVars
      PROVE  Base'
  BY <1>1, <1>2, WriteBlockBase DEF JournalSame
<1>3. CASE Client
  <2>1. ASSUME NEW b \in Blocks, Write(b) PROVE Base'
    BY <1>1, <2>1, WriteBase
  <2>2. QED
    BY <1>1, <1>3, <2>1, LockBase, UnlockFailedBase, UnlockDoneBase, FlushLogBase,
       FlushBlocksBase DEF Client
<1>4. CASE Inside
  <2>1. CASE ReplayNext
    <3>1. ~flaw
      BY <1>1, <2>1 DEF ReplayNext, Base, Replaying
    <3>2. PICK g \in Logs : Geometry(g)
      BY <1>1, <3>1
    <3>3. QED
      BY <1>1, <2>1, <3>2, ReplayNextBase
  <2>2. CASE WriteBlock("client") /\ UNCHANGED journalVars
    BY <1>2, <2>2 DEF Writers
  <2>3. CASE ClientWritten /\ UNCHANGED journalVars
    BY <1>1, <2>3, ClientWrittenBase DEF JournalSame
  <2>4. CASE TooLarge \/ PrepareEntry \/ HaveSpace \/ WriteLogBlock
    BY <1>1, <2>4, FlushLogBase, PrepareEntryBase, HaveSpaceBase, WriteLogBlockBase
  <2>5. CASE SetEnd \/ WriteSuperBlock \/ SetLogEnd \/ FlushDrive \/ AddEntry \/ EndEntry
    BY <1>1, <2>5, SetEndBase, EntryEndsBase, AddEntryBase, EndEntryBase
  <2>6. CASE ReplayBlock \/ ReplayEnds
    BY <1>1, <2>6, ReplayBlockBase, ReplayEndsBase
  <2>7. QED
    BY <1>4, <2>1, <2>2, <2>3, <2>4, <2>5, <2>6 DEF Inside
<1>5. CASE WriterThread
  <2>1. CASE Background /\ UNCHANGED journalVars
    <3>1. JournalSame
      BY <2>1 DEF JournalSame
    <3>2. CASE WriteBlock("background")
      BY <1>2, <2>1, <3>2 DEF Writers
    <3>3. QED
      BY <1>1, <2>1, <3>1, <3>2, BackgroundTakesBase, BackgroundWrittenBase, TakeEventBase
         DEF Background
  <2>2. QED
    BY <1>1, <1>5, <2>1, EntryWrittenBase, HookWritesSuperBase, HookSetsStartBase
       DEF WriterThread
<1>6. CASE Crash
  BY <1>1, <1>6, CrashBase
<1>7. CASE UNCHANGED vars
  BY <1>1, <1>7, StutterBase
<1>8. QED
  BY <1>3, <1>4, <1>5, <1>6, <1>7 DEF Next

\* The same arrays with other pointers.
Points(g, ls, s, sb, e, f, x, r) ==
    [chunk |-> g.chunk, pos |-> g.pos, from |-> g.from,
     ls |-> ls, s |-> s, sb |-> sb, e |-> e, f |-> f, x |-> x, r |-> r]

\* h has the same arrays as g, and these pointers.
Moved(g, h, s, sb, e, f, x) ==
    /\ h.chunk = g.chunk /\ h.from = g.from
    /\ h.s = s /\ h.sb = sb /\ h.e = e /\ h.f = f /\ h.x = x

\* The numbers of a log.
LEMMA LogNumbers ==
    ASSUME NEW g \in Logs
    PROVE  /\ g.pos \in [Nat -> Nat] /\ g.from \in [Ids -> Nat] /\ g.chunk \in [Nat -> Chunks]
           /\ g.ls \in Nat /\ g.s \in Nat /\ g.sb \in Nat /\ g.e \in Nat /\ g.f \in Nat
           /\ g.x \in Nat /\ g.r \in Nat
BY DEF Logs

\* Where pc is special for the second invariant.
Placing == {"log", "super", "end", "flush", "add", "replay"}

\* The log stays as it is.
LEMMA GeometryStays ==
    ASSUME NEW g, Geometry(g), UNCHANGED <<log, super, superBlock, logStart, logEnd, entries>>,
           hook' = "start" => hook = "start",
           \/ pc' = pc /\ UNCHANGED <<id, at, lastStart, todo>>
              /\ (pc = "log" => LogEntryLength' = LogEntryLength)
           \/ pc \notin Placing /\ pc' \notin Placing
           \/ pc = "flush" /\ pc' = "add" /\ UNCHANGED <<id, at>>
    PROVE  Geometry(g)'
<1>1. Order(g)'
  BY DEF Geometry, Order, Placing
<1>2. Laid(g)'
  BY DEF Geometry, Laid, Placing
<1>3. Stored(g)'
  BY DEF Geometry, Stored
<1>4. Spans(g)' /\ Places(g)'
  BY DEF Geometry, Spans, Places
<1>5. Placed(g)'
  BY DEF Geometry, Placed, Placing
<1>6. Replay(g)'
  BY DEF Geometry, Replay, Placing
<1>7. QED
  BY <1>1, <1>2, <1>3, <1>4, <1>5, <1>6 DEF Geometry

\* It does as well if the first block of an array has been replayed.
LEMMA ReplayBlockGeometry ==
    ASSUME Base, NEW g \in Logs, Geometry(g), ReplayBlock
    PROVE  Geometry(g)'
<1>1. /\ pc = "replay" /\ pc' = "replay" /\ todo # <<>> /\ todo' = Tail(todo)
      /\ UNCHANGED <<log, super, superBlock, logStart, logEnd, entries, hook, at, lastStart>>
      /\ todo \in Seq(Blocks \X Values)
  BY DEF ReplayBlock, Base, JournalTypes
<1>2. PICK c \in Chunks, n \in Nat : c = g.chunk[g.r - 1] /\ n = Len(c.runs)
  <2>1. g.s < g.r /\ g.s \in Nat /\ g.r \in Nat
    BY <1>1, LogNumbers DEF Geometry, Replay
  <2>2. PICK k \in Nat : k = g.r - 1
    BY <2>1
  <2>3. QED
    BY <2>2, ChunkType
<1>3. PICK m \in Nat : m = Len(todo) /\ m # 0 /\ Len(todo') = m - 1
  BY <1>1
<1>4. /\ n - m >= 0 /\ \A j \in 1..m : todo[j] = <<c.runs[n - m + j], c.data[n - m + j]>>
  BY <1>1, <1>2, <1>3 DEF Geometry, Replay
<1>5. /\ n - (m - 1) >= 0
      /\ \A j \in 1..m - 1 : todo'[j] = <<c.runs[n - (m - 1) + j], c.data[n - (m - 1) + j]>>
  <2>1. n - (m - 1) >= 0
    BY <1>3, <1>4
  <2>2. ASSUME NEW j \in 1..m - 1
        PROVE  todo'[j] = <<c.runs[n - (m - 1) + j], c.data[n - (m - 1) + j]>>
    <3>1. PICK i \in 1..m : i = j + 1
      BY <1>3
    <3>2. todo'[j] = todo[i]
      BY <1>1, <1>3, <3>1
    <3>3. n - m + i = n - (m - 1) + j
      BY <1>3, <3>1
    <3>4. QED
      BY <1>4, <3>2, <3>3
  <2>3. QED
    BY <2>1, <2>2
<1>6. Replay(g)'
  BY <1>1, <1>2, <1>3, <1>5 DEF Geometry, Replay
<1>7. Order(g)' /\ Laid(g)' /\ Stored(g)' /\ Spans(g)' /\ Places(g)' /\ Placed(g)'
  <2>1. Order(g)' /\ Laid(g)'
    BY <1>1 DEF Geometry, Order, Laid
  <2>2. Stored(g)' /\ Spans(g)' /\ Places(g)' /\ Placed(g)'
    BY <1>1 DEF Geometry, Stored, Spans, Places, Placed
  <2>3. QED
    BY <2>1, <2>2
<1>8. QED
  BY <1>6, <1>7 DEF Geometry

\* The replay comes to the next array.
LEMMA ReplayNextGeometry ==
    ASSUME Base, NEW g \in Logs, Geometry(g), ReplayNext
    PROVE  \E h \in Logs : Geometry(h)' /\ Moved(g, h, g.s, g.sb, g.e, g.f, g.x)
<1>1. /\ pc = "replay" /\ pc' = "replay" /\ lastStart' = at
      /\ ReplayFinds(g, at, lastStart, g.r)
      /\ at' = (at + 1 + Len(g.chunk[g.r].runs)) % LogSize
      /\ todo' = ArrayBlocks(g, g.r)
      /\ UNCHANGED <<log, super, superBlock, logStart, logEnd, entries, hook>>
  BY ReplayNextIs DEF ReplayNext
<1>2. /\ g.ls \in Nat /\ g.s \in Nat /\ g.sb \in Nat /\ g.e \in Nat /\ g.f \in Nat
      /\ g.x \in Nat /\ g.r \in Nat
  BY LogNumbers
<1>3. PICK t \in Nat : t = g.r + 1
  BY <1>2
<1>4. PICK h : h = Points(g, g.ls, g.s, g.sb, g.e, g.f, g.x, t)
  OBVIOUS
<1>5. /\ h \in Logs /\ h.chunk = g.chunk /\ h.pos = g.pos /\ h.from = g.from
      /\ h.ls = g.ls /\ h.s = g.s /\ h.sb = g.sb /\ h.e = g.e /\ h.f = g.f /\ h.x = g.x /\ h.r = t
  BY <1>2, <1>3, <1>4 DEF Points, Logs
<1>6. Order(h)' /\ Laid(h)'
  BY <1>1, <1>5 DEF Geometry, Order, Laid
<1>7. Stored(h)' /\ Spans(h)' /\ Places(h)' /\ Placed(h)'
  BY <1>1, <1>5 DEF Geometry, Stored, Spans, Places, Placed
<1>8. Replay(h)'
  <2>1. /\ g.s <= g.r /\ g.r < g.x /\ g.x <= g.f /\ g.sb = g.s /\ g.ls = g.s
    BY <1>1 DEF ReplayFinds, Geometry, Replay
  <2>2. ReplayFrom(g, at', at, t)
    BY <1>1, <1>3 DEF ReplayFinds
  <2>3. /\ g.s < t /\ t <= g.f /\ t # g.s /\ t - 1 = g.r
    BY <1>2, <1>3, <2>1
  <2>4. at' = g.pos[t] % LogSize /\ at >= 0 /\ IsAt(at, g.pos[t - 1])
    BY <2>2, <2>3 DEF ReplayFrom
  <2>5. PICK c \in Chunks, n \in Nat : c = g.chunk[t - 1] /\ n = Len(c.runs)
    BY <1>2, <2>3, ChunkType
  <2>6. todo' = [j \in 1..n |-> <<c.runs[j], c.data[j]>>]
    BY <1>1, <2>3, <2>5 DEF ArrayBlocks
  <2>7. n - Len(todo') = 0 /\ \A j \in 1..Len(todo') : todo'[j] = <<c.runs[0 + j], c.data[0 + j]>>
    BY <2>6
  <2>8. todo' # <<>> =>
            LET d == h.chunk[h.r - 1]
                m == Len(d.runs) - Len(todo')
            IN /\ h.s < h.r /\ m >= 0
               /\ \A j \in 1..Len(todo') : todo'[j] = <<d.runs[m + j], d.data[m + j]>>
    <3>1. h.chunk[h.r - 1] = c /\ h.s < h.r
      BY <1>5, <2>3, <2>5
    <3>2. Len(c.runs) - Len(todo') = 0
      BY <2>5, <2>7
    <3>3. ASSUME NEW d, d = c PROVE 0 >= 0 /\ \A j \in 1..Len(todo') :
                todo'[j] = <<d.runs[0 + j], d.data[0 + j]>>
      BY <2>7, <3>3
    <3>4. QED
      BY <3>1, <3>2, <3>3
  <2>9. /\ h.sb = h.s /\ h.ls = h.s /\ h.s <= h.r /\ h.r <= h.f
        /\ at' = IF h.r = h.s THEN super'.start ELSE h.pos[h.r] % LogSize
        /\ IF h.r = h.s THEN lastStart' = -1
           ELSE lastStart' >= 0 /\ IsAt(lastStart', h.pos[h.r - 1])
    BY <1>1, <1>2, <1>5, <2>1, <2>3, <2>4
  <2>10. QED
    BY <2>8, <2>9 DEF Replay
<1>9. Moved(g, h, g.s, g.sb, g.e, g.f, g.x)
  BY <1>5 DEF Moved
<1>10. QED
  BY <1>9, <1>5, <1>6, <1>7, <1>8 DEF Geometry

\* After a replay.
LEMMA ReplayEndsGeometry ==
    ASSUME Base, NEW g \in Logs, Geometry(g), ReplayEnds
    PROVE  \E h \in Logs : Geometry(h)' /\ Moved(g, h, g.f, g.f, g.f, g.f, g.f)
<1>1. /\ pc = "replay" /\ pc' = "free" /\ at = logEnd
      /\ superBlock' = [superBlock EXCEPT !.start = logEnd]
      /\ logStart' = logEnd /\ super' = superBlock'
      /\ UNCHANGED <<log, logEnd, entries, hook>>
      /\ JournalTypes /\ Replaying
  BY DEF ReplayEnds, Base
<1>2. /\ superBlock.end = logEnd /\ entries = <<>> /\ hook = "none" /\ logEnd \in 0..LogSize
      /\ superBlock \in Pointers
  BY <1>1 DEF Replaying, JournalTypes
<1>3. /\ superBlock'.start = logEnd /\ superBlock'.end = logEnd
      /\ super'.start = logEnd /\ super'.end = logEnd
  BY <1>1, <1>2 DEF Pointers
<1>4. /\ g.ls \in Nat /\ g.s \in Nat /\ g.sb \in Nat /\ g.e \in Nat /\ g.f \in Nat
      /\ g.x \in Nat /\ g.pos \in [Nat -> Nat]
  BY LogNumbers
<1>5. PICK q \in Nat : q = g.f
  BY <1>4
<1>6. PICK h : h = Points(g, q, q, q, q, q, q, q)
  OBVIOUS
<1>7. /\ h \in Logs /\ h.chunk = g.chunk /\ h.pos = g.pos /\ h.from = g.from
      /\ h.ls = q /\ h.s = q /\ h.sb = q /\ h.e = q /\ h.f = q /\ h.x = q /\ h.r = q
  BY <1>6 DEF Points, Logs
<1>8. g.e = q
  BY <1>1, <1>5 DEF Geometry, Order
<1>9. LogSize > 0 => IsAt(logEnd, g.pos[q])
  BY <1>8 DEF Geometry, Places
<1>10. PICK z \in Nat : z = g.pos[q]
  BY <1>4
<1>11. z - z = 0 /\ z - z <= LogSize /\ Span(logEnd, logEnd, 0)
  BY <1>2, JournalAssumption, SpanNone
<1>12. Order(h)'
  BY <1>1, <1>2, <1>7 DEF Order
<1>13. Laid(h)'
  BY <1>1, <1>5, <1>7, <1>10, <1>11 DEF Laid, Geometry
<1>14. Stored(h)'
  BY <1>7 DEF Stored
<1>15. Spans(h)'
  BY <1>1, <1>3, <1>7, <1>10, <1>11 DEF Spans
<1>16. Places(h)'
  BY <1>1, <1>3, <1>7, <1>9 DEF Places
<1>17. Placed(h)'
  BY <1>1, <1>2, <1>7 DEF Placed
<1>18. Replay(h)'
  BY <1>1 DEF Replay
<1>19. Moved(g, h, g.f, g.f, g.f, g.f, g.f)
  BY <1>5, <1>7 DEF Moved
<1>20. QED
  BY <1>19, <1>7, <1>12, <1>13, <1>14, <1>15, <1>16, <1>17, <1>18 DEF Geometry

\* The superblock is written.
LEMMA SuperWrittenGeometry ==
    ASSUME Base, NEW g \in Logs, Geometry(g), WriteSuperBlock \/ HookWritesSuper
    PROVE  \E h \in Logs : Geometry(h)' /\ Moved(g, h, g.sb, g.sb, g.e, g.f, g.f)
<1>1. /\ super' = superBlock
      /\ pc' = pc \/ (pc = "super" /\ pc' = "end")
      /\ UNCHANGED <<log, superBlock, logStart, logEnd, entries, id, at, todo, lastStart>>
      /\ UNCHANGED <<block, transaction>> /\ Replaying
      /\ hook' = hook \/ (hook = "super" /\ hook' = "start")
  BY DEF WriteSuperBlock, HookWritesSuper, Base, cacheVars
<1>2. pc # "replay"
  BY DEF WriteSuperBlock, HookWritesSuper, Base, Replaying
<1>3. /\ g.ls \in Nat /\ g.s \in Nat /\ g.sb \in Nat /\ g.e \in Nat /\ g.f \in Nat
      /\ g.x \in Nat /\ g.r \in Nat
  BY LogNumbers
<1>4. PICK h : h = Points(g, g.ls, g.sb, g.sb, g.e, g.f, g.f, g.r)
  OBVIOUS
<1>5. /\ h \in Logs /\ h.chunk = g.chunk /\ h.pos = g.pos /\ h.from = g.from
      /\ h.ls = g.ls /\ h.s = g.sb /\ h.sb = g.sb /\ h.e = g.e /\ h.f = g.f /\ h.x = g.f
  BY <1>3, <1>4 DEF Points, Logs
<1>6. g.ls <= g.s /\ g.s <= g.sb /\ g.sb <= g.e /\ g.e <= g.f
  BY DEF Geometry, Order
<1>7. Order(h)'
  BY <1>1, <1>3, <1>5, <1>6 DEF Geometry, Order
<1>8. Laid(h)'
  <2>1. LogEntryLength' = LogEntryLength
    BY <1>1, StayEntry DEF WriteSuperBlock, HookWritesSuper, cacheVars
  <2>2. QED
    BY <1>1, <1>5, <2>1 DEF Geometry, Laid
<1>9. Stored(h)'
  <2>1. g.sb..g.f - 1 \subseteq g.s..g.f - 1
    BY <1>3, <1>6
  <2>2. QED
    BY <1>1, <1>5, <2>1 DEF Geometry, Stored
<1>10. Spans(h)' /\ Places(h)'
  <2>1. Spans(h)'
    BY <1>1, <1>5 DEF Geometry, Spans
  <2>2. Places(h)'
    BY <1>1, <1>5 DEF Geometry, Places
  <2>3. QED
    BY <2>1, <2>2
<1>11. Placed(h)'
  BY <1>1, <1>5 DEF Geometry, Placed
<1>12. Replay(h)'
  BY <1>1, <1>2 DEF Replay
<1>13. Moved(g, h, g.sb, g.sb, g.e, g.f, g.f)
  BY <1>5 DEF Moved
<1>14. QED
  BY <1>13, <1>5, <1>7, <1>8, <1>9, <1>10, <1>11, <1>12 DEF Geometry

\* logEnd gets past the entry.
LEMMA SetLogEndGeometry ==
    ASSUME Base, NEW g \in Logs, Geometry(g), SetLogEnd
    PROVE  \E h \in Logs : Geometry(h)' /\ Moved(g, h, g.s, g.sb, g.f, g.f, g.x)
<1>1. /\ pc = "end" /\ pc' = "flush" /\ logEnd' = superBlock.end /\ at' = logEnd
      /\ UNCHANGED <<log, super, superBlock, logStart, entries, id, hook>>
      /\ superBlock.end \in 0..LogSize
  BY DEF SetLogEnd, Base, JournalTypes, Pointers
<1>2. /\ g.ls \in Nat /\ g.s \in Nat /\ g.sb \in Nat /\ g.e \in Nat /\ g.f \in Nat
      /\ g.x \in Nat /\ g.r \in Nat /\ g.from \in [Ids -> Nat]
  BY LogNumbers
<1>3. PICK h : h = Points(g, g.ls, g.s, g.sb, g.f, g.f, g.x, g.r)
  OBVIOUS
<1>4. /\ h \in Logs /\ h.chunk = g.chunk /\ h.pos = g.pos /\ h.from = g.from
      /\ h.ls = g.ls /\ h.s = g.s /\ h.sb = g.sb /\ h.e = g.f /\ h.f = g.f /\ h.x = g.x
  BY <1>2, <1>3 DEF Points, Logs
<1>5. g.sb <= g.e /\ g.e < g.f /\ g.x = g.f
  BY <1>1 DEF Geometry, Order
<1>6. Order(h)'
  BY <1>1, <1>2, <1>4, <1>5 DEF Geometry, Order
<1>7. Laid(h)'
  BY <1>1, <1>4 DEF Geometry, Laid
<1>8. Stored(h)'
  BY <1>1, <1>4 DEF Geometry, Stored
<1>9. PICK z \in Nat : z = g.pos[g.f]
  BY <1>2, LogNumbers
<1>10. z - z = 0 /\ Span(superBlock.end, superBlock.end, 0)
  BY <1>1, SpanNone
<1>11. Spans(h)' /\ Places(h)'
  <2>1. Spans(h)'
    BY <1>1, <1>4, <1>9, <1>10 DEF Geometry, Spans
  <2>2. Places(h)'
    BY <1>1, <1>4 DEF Geometry, Places
  <2>3. QED
    BY <2>1, <2>2
<1>12. Placed(h)'
  <2>1. /\ entries \in Seq(Entries) /\ id \in Ids
    BY <1>1, OpenHere DEF Base, JournalTypes, Entering
  <2>2. g.from[id] = g.e
    BY <1>1 DEF Geometry, Placed
  <2>3. ASSUME NEW k \in 1..Len(entries)
        PROVE  LET p == g.from[entries[k].id] IN
            g.sb <= p /\ p < g.e /\ p < g.f /\ IsAt(entries[k].start, g.pos[p])
    <3>1. PICK p \in Nat : p = g.from[entries[k].id]
      BY <1>2, <2>1, EntryTypes
    <3>2. g.sb <= p /\ p < g.e /\ IsAt(entries[k].start, g.pos[p])
      BY <3>1 DEF Geometry, Placed
    <3>3. QED
      BY <1>2, <1>5, <3>1, <3>2
  <2>4. at' = logEnd /\ IsAt(logEnd, g.pos[g.e])
    <3>1. LogSize > 0
      <4>1. g.e \in 0..g.f
        BY <1>2, <1>5
      <4>2. QED
        BY <1>2, <1>5, Room DEF Geometry, Order
    <3>2. QED
      BY <1>1, <3>1 DEF Geometry, Places
  <2>5. QED
    BY <1>1, <1>2, <1>4, <1>5, <2>2, <2>3, <2>4 DEF Geometry, Placed
<1>13. Replay(h)'
  BY <1>1 DEF Replay
<1>14. Moved(g, h, g.s, g.sb, g.f, g.f, g.x)
  BY <1>4 DEF Moved
<1>15. QED
  BY <1>14, <1>4, <1>6, <1>7, <1>8, <1>11, <1>12, <1>13 DEF Geometry

\* logStart follows the superblock.
LEMMA HookSetsStartGeometry ==
    ASSUME Base, NEW g \in Logs, Geometry(g), HookSetsStart
    PROVE  \E h \in Logs : Geometry(h)' /\ Moved(g, h, g.s, g.sb, g.e, g.f, g.x)
<1>1. /\ logStart' = superBlock.start /\ hook' = "none" /\ hook = "start"
      /\ UNCHANGED <<log, super, superBlock, logEnd, entries, id, pc, todo, at, lastStart>>
      /\ UNCHANGED <<block, transaction, call>> /\ notifying # NoId
  BY DEF HookSetsStart, HookReturns
<1>2. pc # "replay"
  BY <1>1, NotReplaying DEF Base
<1>3. /\ g.ls \in Nat /\ g.s \in Nat /\ g.sb \in Nat /\ g.e \in Nat /\ g.f \in Nat
      /\ g.x \in Nat /\ g.r \in Nat
  BY LogNumbers
<1>4. PICK h : h = Points(g, g.sb, g.s, g.sb, g.e, g.f, g.x, g.r)
  OBVIOUS
<1>5. /\ h \in Logs /\ h.chunk = g.chunk /\ h.pos = g.pos /\ h.from = g.from
      /\ h.ls = g.sb /\ h.s = g.s /\ h.sb = g.sb /\ h.e = g.e /\ h.f = g.f /\ h.x = g.x
  BY <1>3, <1>4 DEF Points, Logs
<1>6. g.ls <= g.s /\ g.s = g.sb /\ g.sb <= g.e /\ g.e <= g.f
  BY <1>1 DEF Geometry, Order
<1>7. Order(h)'
  BY <1>1, <1>3, <1>5, <1>6 DEF Geometry, Order
<1>8. Laid(h)'
  <2>1. LogEntryLength' = LogEntryLength
    BY <1>1, QuietSame, StayEntry DEF HookSetsStart, HookReturns
  <2>2. PICK u \in Nat, v \in Nat, w \in Nat, y \in Nat :
            /\ u = g.pos[g.ls] /\ v = g.pos[g.sb] /\ w = g.pos[g.e] /\ y = g.pos[g.f] /\ u <= v
    <3>1. g.ls <= g.sb /\ g.sb <= g.f
      BY <1>3, <1>6
    <3>2. /\ g.pos[g.ls] \in Nat /\ g.pos[g.sb] \in Nat /\ g.pos[g.ls] <= g.pos[g.sb]
      BY <1>3, <3>1, Ordered DEF Geometry
    <3>3. QED
      BY <1>3, <3>2, LogNumbers
  <2>3. y - u <= LogSize /\ (pc = "log" => w - u + LogEntryLength <= LogSize)
    BY <2>2 DEF Geometry, Laid
  <2>4. LogEntryLength \in Nat \/ pc # "log"
    BY OpenHere, EntryLength DEF Base
  <2>5. y - v <= LogSize /\ (pc = "log" => w - v + LogEntryLength <= LogSize)
    BY <2>2, <2>3, <2>4, JournalAssumption
  <2>6. QED
    BY <1>1, <1>5, <2>1, <2>2, <2>5 DEF Geometry, Laid
<1>9. Stored(h)'
  BY <1>1, <1>5 DEF Geometry, Stored
<1>10. Spans(h)' /\ Places(h)'
  BY <1>1, <1>5 DEF Geometry, Spans, Places
<1>11. Placed(h)'
  BY <1>1, <1>5 DEF Geometry, Placed
<1>12. Replay(h)'
  BY <1>1, <1>2 DEF Replay
<1>13. Moved(g, h, g.s, g.sb, g.e, g.f, g.x)
  BY <1>5 DEF Moved
<1>14. QED
  BY <1>13, <1>5, <1>7, <1>8, <1>9, <1>10, <1>11, <1>12 DEF Geometry

\* What a crash leaves of the log is what the superblock on the disk has in it.
LEMMA CrashGeometry ==
    ASSUME Base, NEW g \in Logs, Geometry(g), Crash
    PROVE  \E h \in Logs : Geometry(h)' /\ Moved(g, h, g.s, g.s, g.x, g.x, g.x)
<1>1. /\ superBlock' = super /\ logStart' = super.start /\ logEnd' = super.end
      /\ entries' = <<>> /\ hook' = "none" /\ todo' = <<>> /\ at' = super.start
      /\ lastStart' = -1 /\ pc' = "replay" /\ UNCHANGED <<log, super>>
  BY DEF Crash
<1>2. super.start \in 0..LogSize /\ super.end \in 0..LogSize
  BY DEF Base, JournalTypes, Pointers
<1>3. /\ g.ls \in Nat /\ g.s \in Nat /\ g.sb \in Nat /\ g.e \in Nat /\ g.f \in Nat
      /\ g.x \in Nat /\ g.r \in Nat /\ g.pos \in [Nat -> Nat]
  BY LogNumbers
<1>4. g.ls <= g.s /\ g.s <= g.x /\ g.x <= g.f
  BY <1>3 DEF Geometry, Order
<1>5. PICK h : h = Points(g, g.s, g.s, g.s, g.x, g.x, g.x, g.s)
  OBVIOUS
<1>6. /\ h \in Logs /\ h.chunk = g.chunk /\ h.pos = g.pos /\ h.from = g.from
      /\ h.ls = g.s /\ h.s = g.s /\ h.sb = g.s /\ h.e = g.x /\ h.f = g.x /\ h.x = g.x /\ h.r = g.s
  BY <1>3, <1>5 DEF Points, Logs
<1>7. Order(h)'
  <2>1. g.s <= g.s /\ g.x <= g.x
    BY <1>3
  <2>2. QED
    BY <1>1, <1>4, <1>6, <2>1 DEF Order
<1>8. Laid(h)'
  <2>1. PICK u \in Nat, v \in Nat, w \in Nat, y \in Nat :
            u = g.pos[g.ls] /\ v = g.pos[g.s] /\ w = g.pos[g.x] /\ y = g.pos[g.f]
    BY <1>3
  <2>2. u <= v /\ w <= y /\ y <= u + LogSize
    <3>1. g.pos[g.ls] <= g.pos[g.s]
      BY <1>3, <1>4, Room DEF Geometry
    <3>2. g.pos[g.x] <= g.pos[g.f] /\ g.pos[g.f] <= g.pos[g.ls] + LogSize
      <4>1. g.ls <= g.x
        BY <1>3, <1>4
      <4>2. QED
        BY <1>3, <1>4, <4>1, Room DEF Geometry
    <3>3. QED
      BY <2>1, <3>1, <3>2
  <2>3. w - v <= LogSize
    BY <2>1, <2>2, JournalAssumption
  <2>4. 0..g.x - 1 \subseteq 0..g.f - 1 /\ 0..g.x \subseteq 0..g.f
    BY <1>3, <1>4
  <2>5. Laid(g)
    BY DEF Geometry
  <2>6. QED
    BY <1>1, <1>6, <2>1, <2>3, <2>4, <2>5 DEF Laid
<1>9. Stored(h)'
  <2>1. g.s..g.x - 1 \subseteq g.s..g.f - 1
    BY <1>3, <1>4
  <2>2. QED
    BY <1>1, <1>6, <2>1 DEF Geometry, Stored
<1>10. Spans(h)'
  <2>1. PICK w \in Nat : w = g.pos[g.x]
    BY <1>3
  <2>2. w - w = 0 /\ Span(super.end, super.end, 0)
    BY <1>2, SpanNone
  <2>3. Span(super.start, super.end, g.pos[g.x] - g.pos[g.s])
    BY DEF Geometry, Spans
  <2>4. QED
    BY <1>1, <1>6, <2>1, <2>2, <2>3 DEF Spans
<1>11. Places(h)'
  BY <1>1, <1>6 DEF Geometry, Places
<1>12. Placed(h)'
  BY <1>1, <1>6 DEF Placed
<1>13. Replay(h)'
  BY <1>1, <1>3, <1>4, <1>6 DEF Replay
<1>14. Moved(g, h, g.s, g.s, g.x, g.x, g.x)
  BY <1>6 DEF Moved
<1>15. QED
  BY <1>14, <1>6, <1>7, <1>8, <1>9, <1>10, <1>11, <1>12, <1>13 DEF Geometry

\* The log is empty in the beginning.
LEMMA InitGeometry ==
    ASSUME Init
    PROVE  \E h \in Logs : Geometry(h) /\ Moved(h, h, h.f, h.f, h.f, h.f, h.f)
<1>1. PICK p \in Positions : super = [start |-> p, end |-> p]
  BY DEF Init
<1>2. /\ p \in 0..LogSize /\ p \in Nat /\ super.start = p /\ super.end = p /\ superBlock = super
      /\ logStart = p /\ logEnd = p /\ entries = <<>> /\ pc = "free" /\ hook = "none"
  BY <1>1, JournalAssumption DEF Init
<1>3. PICK z \in Nat : z = 0
  OBVIOUS
<1>4. PICK c \in Chunks : c = [owner |-> NoId, runs |-> <<>>, data |-> <<>>]
  <2>1. <<>> \in Seq(Blocks) /\ <<>> \in Seq(Values)
    OBVIOUS
  <2>2. QED
    BY <2>1, Zenon DEF Chunks
<1>5. PICK h : h = [chunk |-> [k \in Nat |-> c], pos |-> [k \in Nat |-> p],
                    from |-> [i \in Ids |-> z],
                    ls |-> z, s |-> z, sb |-> z, e |-> z, f |-> z, x |-> z, r |-> z]
  OBVIOUS
<1>6. /\ h \in Logs /\ h.pos = [k \in Nat |-> p]
      /\ h.ls = z /\ h.s = z /\ h.sb = z /\ h.e = z /\ h.f = z /\ h.x = z
  BY <1>2, <1>5 DEF Logs
<1>7. h.pos[z] = p
  BY <1>6
<1>8. p - p = 0 /\ 0 <= LogSize /\ Span(p, p, 0)
  BY <1>2, JournalAssumption, SpanNone
<1>9. Order(h)
  BY <1>2, <1>6 DEF Order
<1>10. Laid(h)
  <2>1. \A k, l \in 0..h.f : k <= l => h.pos[k] + (l - k) <= h.pos[l]
    BY <1>2, <1>3, <1>6
  <2>2. 0..h.f - 1 = {}
    BY <1>3, <1>6
  <2>3. h.pos[h.f] - h.pos[h.ls] <= LogSize
    BY <1>6, <1>7, <1>8
  <2>4. QED
    BY <1>2, <2>1, <2>2, <2>3 DEF Laid
<1>11. Stored(h)
  BY <1>3, <1>6 DEF Stored
<1>12. Spans(h)
  BY <1>2, <1>6, <1>7, <1>8 DEF Spans
<1>13. Places(h)
  BY <1>2, <1>6, <1>7 DEF Places, IsAt
<1>14. Placed(h) /\ Replay(h)
  BY <1>2 DEF Placed, Replay
<1>15. Moved(h, h, h.f, h.f, h.f, h.f, h.f)
  BY <1>6 DEF Moved
<1>16. QED
  BY <1>6, <1>9, <1>10, <1>11, <1>12, <1>13, <1>14, <1>15 DEF Geometry

\* There is room in the log for the entry.
LEMMA EntryStartsGeometry ==
    ASSUME Base, NEW g \in Logs, Geometry(g), EntryStarts
    PROVE  Geometry(g)'
<1>1. /\ pc \in {"write", "flush log", "space"} /\ pc' = "log"
      /\ LogEntryLength <= FreeLogBlocks /\ LogEntryLength' = LogEntryLength
      /\ UNCHANGED <<log, super, superBlock, logStart, logEnd, entries, id, hook>>
  BY StayEntry DEF EntryStarts, cacheVars
<1>2. Order(g)'
  BY <1>1 DEF Geometry, Order
<1>3. Laid(g)'
  <2>1. logStart \in 0..LogSize /\ logEnd \in 0..LogSize
    BY DEF Base, JournalTypes
  <2>2. PICK d \in Int : d = g.pos[g.e] - g.pos[g.ls]
    BY LogNumbers
  <2>3. Span(logStart, logEnd, d)
    BY <2>2 DEF Geometry, Spans
  <2>4. PICK u \in 0..LogSize : u = Used(logStart, logEnd)
    BY <2>1, UsedIs
  <2>5. d = u /\ FreeLogBlocks = LogSize - u
    BY <2>1, <2>3, <2>4, FreeIs DEF Span
  <2>6. PICK l \in Nat : l = LogEntryLength
    <3>1. Logged # {}
      BY DEF EntryStarts
    <3>2. LogEntryLength \in Nat \ {0, 1}
      BY <3>1, EntryLength
    <3>3. QED
      BY <3>2
  <2>7. d + l <= LogSize
    <3>1. l <= LogSize - u /\ u \in Nat /\ LogSize \in Nat
      <4>1. PICK x : x = FreeLogBlocks
        OBVIOUS
      <4>2. l <= x /\ x = LogSize - u
        BY <1>1, <2>5, <2>6, <4>1
      <4>3. QED
        BY <4>2, <2>4, JournalAssumption
    <3>2. QED
      BY <2>5, <3>1
  <2>8. QED
    BY <1>1, <2>2, <2>6, <2>7 DEF Geometry, Laid
<1>4. Stored(g)' /\ Spans(g)' /\ Places(g)'
  BY <1>1 DEF Geometry, Stored, Spans, Places
<1>5. Placed(g)'
  BY <1>1 DEF Geometry, Placed
<1>6. Replay(g)'
  BY <1>1 DEF Replay
<1>7. QED
  BY <1>2, <1>3, <1>4, <1>5, <1>6 DEF Geometry

\* Where the next block of the entry goes is none of the arrays that are needed.
LEMMA WritesElsewhere ==
    ASSUME Base, NEW g \in Logs, Geometry(g), NEW n \in Nat, Writing(n), todo # <<>>,
           NEW k \in g.s..g.f - 1, NEW j \in 0..Len(g.chunk[k].runs)
    PROVE  (g.pos[k] + j) % LogSize # at
<1>1. /\ pc = "log" /\ LogSize \in Nat \ {0} /\ LogSize > 0 /\ LogEntryLength \in Nat /\ n < LogEntryLength
      /\ at \in 0..LogSize - 1 /\ IsAt(at, logEnd + n) /\ logEnd \in 0..LogSize
  BY DEF Writing
<1>2. /\ g.ls \in Nat /\ g.s \in Nat /\ g.sb \in Nat /\ g.e \in Nat /\ g.f \in Nat
  BY LogNumbers
<1>3. /\ g.ls <= g.s /\ g.s <= g.sb /\ g.sb <= g.e /\ g.e = g.f
  BY <1>1 DEF Geometry, Order
<1>4. k \in Nat /\ k < g.f /\ g.f <= g.f /\ k <= g.f /\ g.ls <= k /\ g.s <= k
  BY <1>2, <1>3
<1>5. PICK u \in Nat, v \in Nat, w \in Nat :
        u = g.pos[g.ls] /\ v = g.pos[k] /\ w = g.pos[g.e]
  BY <1>2, <1>4, LogNumbers
<1>6. PICK t \in Nat : t = Len(g.chunk[k].runs)
  BY <1>4, ChunkType
<1>7. u <= v /\ v + 1 + t <= w /\ w - u + LogEntryLength <= LogSize
  <2>0. Laid(g)
    BY DEF Geometry
  <2>1. g.pos[k] + 1 + Len(g.chunk[k].runs) <= g.pos[g.f]
    BY <1>2, <1>4, <2>0, Grows
  <2>2. g.pos[g.ls] <= g.pos[k]
    BY <1>2, <1>4, <2>0, Ordered
  <2>3. g.pos[g.e] - g.pos[g.ls] + LogEntryLength <= LogSize
    BY <1>1 DEF Geometry, Laid
  <2>4. QED
    BY <1>3, <1>5, <1>6, <2>1, <2>2, <2>3
<1>8. PICK p \in Nat : p = v + j
  BY <1>5, <1>6
<1>9. PICK q \in Nat : q = w + n
  BY <1>5
<1>10. p <= q /\ q < p + LogSize /\ p # q
  <2>1. PICK l \in Nat : l = LogEntryLength
    BY <1>1
  <2>2. n \in 0..l - 1 /\ w - u + l <= LogSize /\ LogSize \in Nat
    BY <1>1, <1>7, <2>1
  <2>3. j \in 0..t
    BY <1>6
  <2>4. u <= v /\ v + 1 + t <= w
    BY <1>7
  <2>5. p < q
    BY <1>8, <1>9, <2>2, <2>3, <2>4
  <2>6. q < p + LogSize
    <3>1. w + n < u + LogSize
      BY <2>2
    <3>2. QED
      BY <1>8, <1>9, <2>2, <2>3, <2>4, <3>1
  <2>7. QED
    BY <2>2, <2>5, <2>6
<1>11. IsAt(at, q)
  <2>1. IsAt(logEnd, w)
    BY <1>1, <1>5 DEF Geometry, Places
  <2>2. PICK m \in Int : m = logEnd + n
    BY <1>1
  <2>3. m - logEnd = q - w /\ logEnd \in Int /\ w \in Int /\ q \in Int
    <3>1. logEnd \in Int /\ w \in Nat /\ q = w + n /\ m = logEnd + n
      BY <1>1, <1>5, <1>9, <2>2
    <3>2. QED
      BY <3>1
  <2>5. IsAt(m, q)
    BY <1>1, <2>1, <2>2, <2>3, AtPlus
  <2>4. QED
    BY <1>1, <2>2, <2>5 DEF IsAt
<1>12. ~IsAt(p, q)
  BY <1>1, <1>10, AtIs
<1>13. p % LogSize # at
  <2>0. p \in Int
    BY <1>8
  <2>1. IsAt(p % LogSize, p)
    BY <1>1, <2>0, AtRange
  <2>2. p % LogSize = at => IsAt(at, p)
    BY <2>1
  <2>3. QED
    BY <1>11, <1>12, <2>2 DEF IsAt
<1>14. QED
  BY <1>5, <1>8, <1>13

\* A block of the entry is written.
LEMMA WriteLogBlockGeometry ==
    ASSUME Base, NEW g \in Logs, Geometry(g), WriteLogBlock
    PROVE  Geometry(g)'
<1>1. /\ pc = "log" /\ pc' = "log" /\ todo # <<>> /\ log' = [log EXCEPT ![at] = Head(todo)]
      /\ UNCHANGED <<super, superBlock, logStart, logEnd, entries, id, hook>>
      /\ LogEntryLength' = LogEntryLength
  BY StayEntry DEF WriteLogBlock, cacheVars
<1>2. PICK n \in Nat : Writing(n)
  BY <1>1, WritingIs
<1>3. log \in [0..LogSize - 1 -> LogBlocks]
  BY DEF Base, JournalTypes
<1>4. Stored(g)'
  <2>1. ASSUME NEW k \in g.s..g.f - 1
        PROVE  /\ log'[g.pos[k] % LogSize].runs = g.chunk[k].runs
               /\ \A j \in 1..Len(g.chunk[k].runs) :
                    log'[(g.pos[k] + j) % LogSize].data = g.chunk[k].data[j]
    <3>0. k \in Nat
      BY LogNumbers
    <3>1. k \in Nat /\ g.pos[k] \in Nat /\ Len(g.chunk[k].runs) \in Nat
      BY <3>0, LogNumbers, ChunkType
    <3>2. LogSize \in Nat \ {0} /\ LogSize > 0
      BY <1>2 DEF Writing
    <3>3. ASSUME NEW j \in 0..Len(g.chunk[k].runs)
          PROVE  log'[(g.pos[k] + j) % LogSize] = log[(g.pos[k] + j) % LogSize]
      <4>1. (g.pos[k] + j) % LogSize # at
        BY <1>1, <1>2, WritesElsewhere
      <4>2. PICK p \in Nat : p = g.pos[k] + j
        BY <3>1
      <4>5. p \in Int
        BY <4>2
      <4>3. p % LogSize \in 0..LogSize - 1
        BY <3>2, <4>5, AtRange
      <4>4. QED
        BY <1>1, <1>3, <4>1, <4>2, <4>3
    <3>4. log'[g.pos[k] % LogSize] = log[g.pos[k] % LogSize]
      <4>1. PICK z \in 0..Len(g.chunk[k].runs) : z = 0
        BY <3>1
      <4>2. g.pos[k] + z = g.pos[k]
        BY <3>1, <4>1
      <4>3. QED
        BY <3>3, <4>2
    <3>5. \A j \in 1..Len(g.chunk[k].runs) : j \in 0..Len(g.chunk[k].runs)
      BY <3>1
    <3>6. QED
      BY <3>3, <3>4, <3>5 DEF Geometry, Stored
  <2>2. QED
    BY <2>1 DEF Stored
<1>5. Order(g)' /\ Laid(g)'
  BY <1>1 DEF Geometry, Order, Laid
<1>6. Spans(g)' /\ Places(g)' /\ Placed(g)' /\ Replay(g)'
  <2>1. Spans(g)' /\ Places(g)'
    BY <1>1 DEF Geometry, Spans, Places
  <2>2. Placed(g)'
    BY <1>1 DEF Geometry, Placed
  <2>3. Replay(g)'
    BY <1>1 DEF Replay
  <2>4. QED
    BY <2>1, <2>2, <2>3
<1>7. QED
  BY <1>4, <1>5, <1>6 DEF Geometry

\* The entries that are left keep their places.
LEMMA PlacedRemoved ==
    ASSUME JournalTypes, NEW g \in Logs, NEW k, Removed(k), Placed(g)
    PROVE  /\ \A j \in 1..Len(entries') : \A p : p = g.from[entries'[j].id] =>
                    g.sb <= p /\ p < g.e /\ IsAt(entries'[j].start, g.pos[p])
           /\ \A j, l \in 1..Len(entries') :
                    j < l => g.from[entries'[j].id] < g.from[entries'[l].id]
           /\ pc \in {"flush", "add"} =>
                    \A j \in 1..Len(entries') : g.from[entries'[j].id] < g.from[id]
           /\ \A j \in 1..Len(entries') : k = 1 =>
                    /\ Len(entries) > 1
                    /\ g.from[entries[2].id] <= g.from[entries'[j].id]
<1>1. PICK n \in Nat : n = Len(entries) /\ Len(entries') = n - 1 /\ k \in 1..n
  BY DEF Removed
<1>2. PICK to : to = [j \in 1..n - 1 |-> IF j < k THEN j ELSE j + 1]
  OBVIOUS
<1>3. /\ \A j \in 1..n - 1 : to[j] \in 1..n /\ entries'[j] = entries[to[j]]
      /\ \A j, l \in 1..n - 1 : j < l => to[j] < to[l]
  <2>1. \A j \in 1..n - 1 : entries'[j] = IF j < k THEN entries[j] ELSE entries[j + 1]
    BY <1>1 DEF Removed
  <2>2. \A j \in 1..n - 1 : to[j] = IF j < k THEN j ELSE j + 1
    BY <1>2
  <2>3. \A j \in 1..n - 1 : to[j] \in 1..n
    BY <1>1, <2>2
  <2>4. \A j \in 1..n - 1 : entries'[j] = entries[to[j]]
    BY <2>1, <2>2
  <2>5. \A j, l \in 1..n - 1 : j < l => to[j] < to[l]
    BY <1>1, <2>2
  <2>6. QED
    BY <2>3, <2>4, <2>5
<1>4. entries \in Seq(Entries) /\ g.from \in [Ids -> Nat]
  BY LogNumbers DEF JournalTypes
<1>5. \A j \in 1..n : g.from[entries[j].id] \in Nat
  BY <1>1, <1>4, EntryTypes
<1>6. /\ \A j \in 1..n : \A p : p = g.from[entries[j].id] =>
                    g.sb <= p /\ p < g.e /\ IsAt(entries[j].start, g.pos[p])
      /\ \A j, l \in 1..n : j < l => g.from[entries[j].id] < g.from[entries[l].id]
      /\ pc \in {"flush", "add"} => \A j \in 1..n : g.from[entries[j].id] < g.from[id]
  BY <1>1 DEF Placed
<1>7. ASSUME NEW j \in 1..n - 1, k = 1
      PROVE  n > 1 /\ g.from[entries[2].id] <= g.from[entries'[j].id]
  <2>1. to[j] = j + 1 /\ n > 1 /\ 2 \in 1..n
    BY <1>1, <1>2, <1>7
  <2>2. to[j] = 2 \/ 2 < to[j]
    BY <2>1
  <2>3. g.from[entries[2].id] \in Nat
    BY <1>5, <2>1
  <2>4. to[j] \in 1..n /\ entries'[j] = entries[to[j]]
    BY <1>3
  <2>5. CASE to[j] = 2
    BY <2>1, <2>3, <2>4, <2>5
  <2>6. CASE 2 < to[j]
    <3>1. g.from[entries[2].id] < g.from[entries[to[j]].id]
      BY <1>6, <2>1, <2>4, <2>6
    <3>2. g.from[entries[to[j]].id] \in Nat
      BY <1>5, <2>4
    <3>3. QED
      BY <2>1, <2>3, <2>4, <3>1, <3>2
  <2>7. QED
    BY <2>2, <2>5, <2>6
<1>8. /\ \A j \in 1..n - 1 : \A p : p = g.from[entries'[j].id] =>
                    g.sb <= p /\ p < g.e /\ IsAt(entries'[j].start, g.pos[p])
      /\ \A j, l \in 1..n - 1 : j < l => g.from[entries'[j].id] < g.from[entries'[l].id]
      /\ pc \in {"flush", "add"} => \A j \in 1..n - 1 : g.from[entries'[j].id] < g.from[id]
  BY <1>3, <1>6
<1>9. QED
  BY <1>1, <1>7, <1>8

\* An entry that is not the oldest one leaves the list.
LEMMA LaterWrittenGeometry ==
    ASSUME Base, NEW g \in Logs, Geometry(g), EntryWritten, NEW k, Removed(k), k # 1
    PROVE  Geometry(g)'
<1>1. /\ UNCHANGED <<log, super, superBlock, logStart, logEnd, id, pc, todo, at, lastStart, hook>>
      /\ UNCHANGED <<block, transaction>> /\ notifying # NoId
  BY DEF EntryWritten, Removed, OldestEntry, HookReturns
<1>2. pc # "replay"
  BY <1>1, NotReplaying DEF Base
<1>3. LogEntryLength' = LogEntryLength
  BY <1>1, StayEntry DEF EntryWritten, Removed, OldestEntry, HookReturns
<1>4. Order(g)' /\ Laid(g)'
  BY <1>1, <1>3 DEF Geometry, Order, Laid
<1>5. Stored(g)' /\ Spans(g)' /\ Places(g)'
  BY <1>1 DEF Geometry, Stored, Spans, Places
<1>6. Placed(g)'
  <2>2. JournalTypes /\ Placed(g)
    BY DEF Base, Geometry
  <2>3. /\ \A j \in 1..Len(entries') : \A p : p = g.from[entries'[j].id] =>
                    g.sb <= p /\ p < g.e /\ IsAt(entries'[j].start, g.pos[p])
        /\ \A j, l \in 1..Len(entries') :
                    j < l => g.from[entries'[j].id] < g.from[entries'[l].id]
        /\ pc \in {"flush", "add"} =>
                    \A j \in 1..Len(entries') : g.from[entries'[j].id] < g.from[id]
    BY <2>2, PlacedRemoved
  <2>4. QED
    BY <1>1, <2>2, <2>3 DEF Placed
<1>7. Replay(g)'
  BY <1>1, <1>2 DEF Replay
<1>8. QED
  BY <1>4, <1>5, <1>6, <1>7 DEF Geometry

\* Where log_start gets: to array q.
Starts(g, q, next) ==
    /\ q \in Nat /\ g.sb <= q /\ q <= g.e /\ next \in 0..LogSize
    /\ LogSize > 0 => IsAt(next, g.pos[q])
    /\ Span(next, logEnd, g.pos[g.e] - g.pos[q])
    /\ Span(next, superBlock.end, g.pos[g.f] - g.pos[q])

\* The spans from an array that is in the log.
LEMMA StartsAt ==
    ASSUME Base, NEW g \in Logs, Geometry(g), NEW q \in Nat, g.sb < q, q < g.e,
           NEW next \in 0..LogSize, IsAt(next, g.pos[q])
    PROVE  Starts(g, q, next)
<1>1. /\ g.ls \in Nat /\ g.s \in Nat /\ g.sb \in Nat /\ g.e \in Nat /\ g.f \in Nat
  BY LogNumbers
<1>2. /\ g.ls <= g.s /\ g.s <= g.sb /\ g.e <= g.f /\ Laid(g) /\ Order(g)
  BY DEF Geometry, Order
<1>3. g.ls < q /\ q <= g.e /\ q <= g.f /\ q < g.f /\ g.ls <= g.f /\ g.ls <= g.e
  BY <1>1, <1>2
<1>4. PICK a \in Nat, b \in Nat, c \in Nat, d \in Nat :
        a = g.pos[g.ls] /\ b = g.pos[q] /\ c = g.pos[g.e] /\ d = g.pos[g.f]
  BY <1>1, LogNumbers
<1>5. a < b /\ b < c /\ c <= d /\ d <= a + LogSize
  <2>1. g.pos[g.ls] < g.pos[q]
    BY <1>1, <1>2, <1>3, Grows
  <2>2. g.pos[q] < g.pos[g.e]
    BY <1>1, <1>2, <1>3, Grows
  <2>3. g.pos[g.e] <= g.pos[g.f] /\ g.pos[g.f] <= g.pos[g.ls] + LogSize
    BY <1>1, <1>2, <1>3, Room
  <2>4. QED
    BY <1>4, <2>1, <2>2, <2>3
<1>6. LogSize > 0 /\ LogSize \in Nat
  BY <1>4, <1>5, JournalAssumption
<1>7. IsAt(logEnd, c) /\ IsAt(superBlock.end, d) /\ IsAt(next, b)
  BY <1>4, <1>6 DEF Geometry, Places
<1>8. logEnd \in 0..LogSize /\ superBlock.end \in 0..LogSize
  BY DEF Base, JournalTypes, Pointers
<1>9. b < c /\ c < b + LogSize /\ b < d /\ d < b + LogSize
  BY <1>4, <1>5, <1>6
<1>10. Span(next, logEnd, c - b) /\ Span(next, superBlock.end, d - b)
  BY <1>6, <1>7, <1>8, <1>9, SpanOf
<1>11. g.sb <= q /\ q <= g.e
  BY <1>1
<1>12. QED
  BY <1>4, <1>10, <1>11 DEF Starts

\* The superblock in memory starts at another array.
LEMMA OldestGeometry ==
    ASSUME Base, NEW g \in Logs, Geometry(g), EntryWritten, Removed(1), NEW q, NEW next,
           Starts(g, q, next), superBlock' = [superBlock EXCEPT !.start = next],
           \A j \in 1..Len(entries') : q <= g.from[entries'[j].id],
           pc \in {"flush", "add"} => q <= g.from[id]
    PROVE  \E h \in Logs : Geometry(h)' /\ Moved(g, h, g.s, q, g.e, g.f, g.x)
<1>1. /\ hook = "none" /\ hook' = "super" /\ notifying # NoId
      /\ UNCHANGED <<log, super, logStart, logEnd, id, pc, todo, at, lastStart>>
      /\ UNCHANGED cacheVars
  BY DEF EntryWritten, Removed, OldestEntry
<1>2. pc # "replay"
  BY <1>1, NotReplaying DEF Base
<1>3. LogEntryLength' = LogEntryLength
  BY <1>1, StayEntry DEF cacheVars
<1>4. superBlock'.start = next /\ superBlock'.end = superBlock.end
  BY DEF Base, JournalTypes, Pointers
<1>5. /\ g.ls \in Nat /\ g.s \in Nat /\ g.sb \in Nat /\ g.e \in Nat /\ g.f \in Nat
      /\ g.x \in Nat /\ g.r \in Nat
  BY LogNumbers
<1>6. /\ q \in Nat /\ g.sb <= q /\ q <= g.e /\ (LogSize > 0 => IsAt(next, g.pos[q]))
      /\ Span(next, logEnd, g.pos[g.e] - g.pos[q])
      /\ Span(next, superBlock.end, g.pos[g.f] - g.pos[q])
  BY DEF Starts
<1>7. PICK h : h = Points(g, g.ls, g.s, q, g.e, g.f, g.x, g.r)
  OBVIOUS
<1>8. /\ h \in Logs /\ h.chunk = g.chunk /\ h.pos = g.pos /\ h.from = g.from
      /\ h.ls = g.ls /\ h.s = g.s /\ h.sb = q /\ h.e = g.e /\ h.f = g.f /\ h.x = g.x
  BY <1>5, <1>6, <1>7 DEF Points, Logs
<1>9. Order(h)'
  <2>1. g.s <= g.sb
    BY DEF Geometry, Order
  <2>2. g.s <= q
    BY <1>5, <1>6, <2>1
  <2>3. QED
    BY <1>1, <1>6, <1>8, <2>2 DEF Geometry, Order
<1>10. Laid(h)'
  BY <1>1, <1>3, <1>8 DEF Geometry, Laid
<1>11. Stored(h)'
  BY <1>1, <1>8 DEF Geometry, Stored
<1>12. Spans(h)'
  BY <1>1, <1>4, <1>6, <1>8 DEF Geometry, Spans
<1>13. Places(h)'
  BY <1>1, <1>4, <1>6, <1>8 DEF Geometry, Places
<1>14. Placed(h)'
  <2>1. JournalTypes /\ Placed(g)
    BY DEF Base, Geometry
  <2>2. /\ \A j \in 1..Len(entries') : \A p : p = g.from[entries'[j].id] =>
                    g.sb <= p /\ p < g.e /\ IsAt(entries'[j].start, g.pos[p])
        /\ \A j, l \in 1..Len(entries') :
                    j < l => g.from[entries'[j].id] < g.from[entries'[l].id]
        /\ pc \in {"flush", "add"} =>
                    \A j \in 1..Len(entries') : g.from[entries'[j].id] < g.from[id]
    BY <2>1, PlacedRemoved
  <2>3. /\ pc \in {"super", "end"} => g.from[id] = g.e
        /\ pc \in {"flush", "add"} => g.from[id] < g.e /\ IsAt(at, g.pos[g.from[id]])
    BY <2>1 DEF Placed
  <2>4. \A j \in 1..Len(entries') : \A p : p = g.from[entries'[j].id] =>
                    q <= p /\ p < g.e /\ IsAt(entries'[j].start, g.pos[p])
    BY <2>2
  <2>5. QED
    BY <1>1, <1>8, <2>2, <2>3, <2>4 DEF Placed
<1>15. Replay(h)'
  BY <1>1, <1>2 DEF Replay
<1>16. Moved(g, h, g.s, q, g.e, g.f, g.x)
  BY <1>8 DEF Moved
<1>17. QED
  BY <1>16, <1>8, <1>9, <1>10, <1>11, <1>12, <1>13, <1>14, <1>15 DEF Geometry

\* Of the arrays before q none is part of an entry any more.
Passed(g, q) ==
    /\ q \in Nat /\ g.sb <= q /\ q <= g.e
    /\ \A j \in 1..Len(entries') : q <= g.from[entries'[j].id]
    /\ pc \in {"flush", "add"} => q <= g.from[id]

\* An entry is written, and log_start has not passed one that is needed.
LEMMA EntryWrittenGeometry ==
    ASSUME Base, NEW g \in Logs, Geometry(g), EntryWritten, ~flaw'
    PROVE  \E h \in Logs : Geometry(h)' /\ \E q : Passed(g, q) /\ Moved(g, h, g.s, q, g.e, g.f, g.x)
<1>1. PICK k : Removed(k)
  BY RemovedIs DEF Base
<1>2. JournalTypes /\ Placed(g)
  BY DEF Base, Geometry
<1>3. entries \in Seq(Entries) /\ g.from \in [Ids -> Nat] /\ g.pos \in [Nat -> Nat] /\ g.e \in Nat
      /\ g.f \in Nat /\ g.sb \in Nat
  BY <1>2, LogNumbers DEF JournalTypes
<1>4. CASE k # 1
  <2>1. Geometry(g)'
    BY <1>1, <1>4, LaterWrittenGeometry
  <2>2. Moved(g, g, g.s, g.sb, g.e, g.f, g.x)
    BY DEF Moved
  <2>3. Passed(g, g.sb)
    <3>1. \A j \in 1..Len(entries') : g.sb <= g.from[entries'[j].id]
      BY <1>1, <1>2, PlacedRemoved
    <3>2. pc \in {"flush", "add"} => g.sb <= g.from[id]
      BY <1>2 DEF Placed
    <3>3. g.sb <= g.sb /\ g.sb <= g.e
      BY <1>3 DEF Geometry, Order
    <3>4. QED
      BY <1>3, <3>1, <3>2, <3>3 DEF Passed
  <2>4. QED
    BY <2>1, <2>2, <2>3
<1>5. CASE k = 1 /\ Len(entries) > 1
  <2>1. superBlock' = [superBlock EXCEPT !.start = entries[2].start % LogSize]
    BY <1>1, <1>5 DEF EntryWritten, Removed, OldestEntry
  <2>2. PICK n \in Nat : n = Len(entries) /\ n > 1
    BY <1>3, <1>5
  <2>3. 1 \in 1..n /\ 2 \in 1..n
    BY <2>2
  <2>4. PICK p \in Nat : p = g.from[entries[1].id]
    BY <1>3, <2>2, <2>3, EntryTypes
  <2>5. PICK q \in Nat : q = g.from[entries[2].id]
    BY <1>3, <2>2, <2>3, EntryTypes
  <2>6. g.sb <= p /\ p < q /\ q < g.e /\ IsAt(entries[2].start, g.pos[q])
    <3>1. g.sb <= p
      BY <1>2, <2>2, <2>3, <2>4 DEF Placed
    <3>2. q < g.e /\ IsAt(entries[2].start, g.pos[q])
      BY <1>2, <2>2, <2>3, <2>5 DEF Placed
    <3>3. p < q
      BY <1>2, <2>2, <2>3, <2>4, <2>5 DEF Placed
    <3>4. QED
      BY <3>1, <3>2, <3>3
  <2>0. g.sb \in Nat /\ g.e \in Nat /\ g.f \in Nat
    BY <1>3
  <2>7. g.sb < q
    <3>1. g.sb <= p /\ p < q /\ p \in Nat /\ q \in Nat
      BY <2>4, <2>5, <2>6
    <3>2. QED
      BY <2>0, <3>1
  <2>8. PICK y \in 0..LogSize : y = entries[2].start
    BY <1>3, <2>2, <2>3, EntryTypes
  <2>9. LogSize > 0
    <3>1. q < g.f
      <4>1. g.e <= g.f
        BY DEF Geometry, Order
      <4>2. QED
        BY <2>0, <2>6, <4>1
    <3>2. g.ls <= q /\ g.f <= g.f /\ q <= g.f
      <4>1. g.ls <= g.s /\ g.s <= g.sb /\ g.ls \in Nat /\ g.s \in Nat
        BY LogNumbers DEF Geometry, Order
      <4>2. QED
        BY <2>0, <2>7, <3>1, <4>1
    <3>3. QED
      BY <1>3, <3>1, <3>2, Room DEF Geometry
  <2>10. PICK next \in 0..LogSize : next = y % LogSize /\ IsAt(next, y)
    <3>1. y \in Int
      BY <2>8
    <3>2. QED
      BY <2>9, <3>1, AtRange
  <2>11. IsAt(next, g.pos[q])
    BY <2>6, <2>8, <2>10 DEF IsAt
  <2>12. Starts(g, q, next)
    BY <2>6, <2>7, <2>11, StartsAt
  <2>13. \A j \in 1..Len(entries') : q <= g.from[entries'[j].id]
    BY <1>1, <1>2, <1>5, <2>5, PlacedRemoved
  <2>14. pc \in {"flush", "add"} => q <= g.from[id]
    <3>1. ASSUME pc \in {"flush", "add"}
          PROVE  q <= g.from[id]
      <4>1. id \in Ids
        BY <3>1, OpenHere DEF Base, Entering
      <4>2. q < g.from[id]
        BY <1>2, <2>2, <2>3, <2>5, <3>1 DEF Placed
      <4>3. g.from[id] \in Nat
        BY <1>3, <4>1
      <4>4. QED
        BY <4>2, <4>3
    <3>2. QED
      BY <3>1
  <2>15. superBlock' = [superBlock EXCEPT !.start = next]
    BY <2>1, <2>8, <2>10
  <2>16. \E h \in Logs : Geometry(h)' /\ Moved(g, h, g.s, q, g.e, g.f, g.x)
    BY <1>1, <1>5, <2>12, <2>13, <2>14, <2>15, OldestGeometry
  <2>17. Passed(g, q)
    BY <2>12, <2>13, <2>14 DEF Passed, Starts
  <2>18. QED
    BY <2>16, <2>17
<1>6. CASE k = 1 /\ ~(Len(entries) > 1)
  <2>1. Len(entries) = 1 /\ entries' = <<>>
    <3>1. PICK n \in Nat \ {0} : n = Len(entries)
      BY <1>1 DEF Removed
    <3>2. n = 1
      BY <1>6, <3>1
    <3>3. QED
      BY <1>1, <3>1, <3>2 DEF Removed
  <2>2. superBlock' = [superBlock EXCEPT !.start = logEnd] /\ pc \notin {"flush", "add"}
    BY <1>1, <1>6, <2>1 DEF EntryWritten, Removed, OldestEntry
  <2>3. Starts(g, g.e, logEnd)
    <3>1. logEnd \in 0..LogSize
      BY <1>2 DEF JournalTypes
    <3>2. PICK c \in Nat : c = g.pos[g.e]
      BY <1>3
    <3>3. c - c = 0 /\ Span(logEnd, logEnd, 0)
      BY <3>1, <3>2, SpanNone
    <3>4. g.sb <= g.e /\ g.e <= g.e
      BY <1>3 DEF Geometry, Order
    <3>5. QED
      BY <1>3, <3>1, <3>2, <3>3, <3>4 DEF Starts, Geometry, Spans, Places
  <2>4. Len(entries') = 0
    BY <2>1
  <2>5. \E h \in Logs : Geometry(h)' /\ Moved(g, h, g.s, g.e, g.e, g.f, g.x)
    BY <1>1, <1>6, <2>2, <2>3, <2>4, OldestGeometry
  <2>6. Passed(g, g.e)
    BY <2>2, <2>3, <2>4 DEF Passed, Starts
  <2>7. QED
    BY <2>5, <2>6
<1>7. QED
  BY <1>4, <1>5, <1>6

\* The entry is in the list.
LEMMA AddEntryGeometry ==
    ASSUME Base, NEW g \in Logs, Geometry(g), AddEntry
    PROVE  Geometry(g)'
<1>1. /\ pc = "add" /\ pc' = "ending"
      /\ entries' = Append(entries, [id |-> id, start |-> at, length |-> LogEntryLength])
      /\ UNCHANGED <<log, super, superBlock, logStart, logEnd, id, at, hook>>
  BY DEF AddEntry
<1>2. Order(g)' /\ Laid(g)'
  BY <1>1 DEF Geometry, Order, Laid
<1>3. Stored(g)' /\ Spans(g)' /\ Places(g)'
  BY <1>1 DEF Geometry, Stored, Spans, Places
<1>4. Placed(g)'
  <2>1. entries \in Seq(Entries)
    BY DEF Base, JournalTypes
  <2>2. PICK n \in Nat : n = Len(entries)
    BY <2>1
  <2>3. PICK r : r = [id |-> id, start |-> at, length |-> LogEntryLength]
    OBVIOUS
  <2>4. PICK p : p = g.from[id]
    OBVIOUS
  <2>5. /\ g.sb <= p /\ p < g.e /\ IsAt(at, g.pos[p])
        /\ \A k \in 1..n : g.from[entries[k].id] < p
        /\ \A k \in 1..n : g.sb <= g.from[entries[k].id] /\ g.from[entries[k].id] < g.e
                           /\ IsAt(entries[k].start, g.pos[g.from[entries[k].id]])
        /\ \A k, l \in 1..n : k < l => g.from[entries[k].id] < g.from[entries[l].id]
    BY <1>1, <2>2, <2>4 DEF Geometry, Placed
  <2>6. PICK m \in Nat : m = n + 1
    BY <2>2
  <2>7. /\ Len(entries') = m /\ entries'[m] = r
        /\ \A k \in 1..m : k = m \/ (k \in 1..n /\ entries'[k] = entries[k])
        /\ r.id = id /\ r.start = at
    <3>1. entries' = Append(entries, r)
      BY <1>1, <2>3
    <3>2. \A k \in 1..m : k = m \/ k \in 1..n
      BY <2>6
    <3>3. Len(entries') = m /\ entries'[m] = r
      BY <2>1, <2>2, <2>6, <3>1
    <3>4. \A k \in 1..n : entries'[k] = entries[k]
      BY <2>1, <2>2, <3>1
    <3>5. QED
      BY <2>3, <3>2, <3>3, <3>4
  <2>8. \A k \in 1..m : LET q == g.from[entries'[k].id] IN
            g.sb <= q /\ q < g.e /\ IsAt(entries'[k].start, g.pos[q])
    BY <2>4, <2>5, <2>7
  <2>9. ASSUME NEW k \in 1..m, NEW l \in 1..m, k < l
        PROVE  g.from[entries'[k].id] < g.from[entries'[l].id]
    <3>1. k # m
      BY <2>6, <2>9
    <3>2. k \in 1..n /\ entries'[k] = entries[k]
      BY <2>7, <3>1
    <3>3. CASE l = m
      BY <2>4, <2>5, <2>7, <3>2, <3>3
    <3>4. CASE l # m
      BY <2>5, <2>7, <2>9, <3>2, <3>4
    <3>5. QED
      BY <3>3, <3>4
  <2>10. QED
    BY <1>1, <2>7, <2>8, <2>9 DEF Placed
<1>5. Replay(g)'
  BY <1>1 DEF Replay
<1>6. QED
  BY <1>2, <1>3, <1>4, <1>5 DEF Geometry

\* An array of the log entry, with the data of its blocks.
EntryArray(seq) ==
    [owner |-> id, runs |-> seq, data |-> [j \in 1..Len(seq) |-> block[seq[j]].current]]

\* A log that has the arrays of the entry as well.
Appended(g, h, n, runs, off) ==
    /\ h \in Logs /\ h.ls = g.ls /\ h.s = g.s /\ h.sb = g.sb /\ h.e = g.e /\ h.x = g.x
    /\ h.f = g.e + n
    /\ h.from[id] = g.e /\ \A i \in Ids : i # id => h.from[i] = g.from[i]
    /\ \A k \in 0..g.e : h.pos[k] = g.pos[k]
    /\ \A k \in 0..g.e - 1 : h.chunk[k] = g.chunk[k]
    /\ \A a \in 0..n, k \in Nat : k = g.e + a =>
            /\ h.pos[k] = g.pos[g.e] + off[a]
            /\ a < n => h.chunk[k] = EntryArray(runs[a])

\* The contents of a block of the transaction.
LEMMA LoggedData ==
    ASSUME Inv1, id \in Ids, NEW b \in Logged
    PROVE  b \in Blocks /\ block[b].cached /\ block[b].transaction = id /\ block[b].current \in Values
<1>1. b \in Blocks /\ block[b].transaction = id /\ id # NoId
  BY DEF Logged, InTransaction, Cache
<1>2. block[b] \in BlockType /\ ShapeOf(Cache, block[b])
  BY <1>1, InvParts
<1>3. block[b].cached
  BY <1>1, <1>2 DEF ShapeOf, Absent, NewBlock
<1>4. QED
  BY <1>1, <1>2, <1>3 DEF ShapeOf, BlockType

\* An array is one that a log can have.
LEMMA EntryArrayType ==
    ASSUME Inv1, id \in Ids, NEW seq \in Seq(Blocks), \A j \in 1..Len(seq) : seq[j] \in Logged
    PROVE  /\ EntryArray(seq) \in Chunks /\ EntryArray(seq).owner = id
           /\ EntryArray(seq).runs = seq /\ Len(EntryArray(seq).data) = Len(seq)
           /\ \A j \in 1..Len(seq) : EntryArray(seq).data[j] = block[seq[j]].current
<1>1. PICK m \in Nat : m = Len(seq)
  OBVIOUS
<1>2. \A j \in 1..m : block[seq[j]].current \in Values
  BY <1>1, LoggedData
<1>3. PICK d : d = [j \in 1..m |-> block[seq[j]].current]
  OBVIOUS
<1>4. d \in Seq(Values) /\ Len(d) = m /\ \A j \in 1..m : d[j] = block[seq[j]].current
  BY <1>2, <1>3
<1>5. EntryArray(seq) = [owner |-> id, runs |-> seq, data |-> d]
  BY <1>1, <1>3 DEF EntryArray
<1>6. QED
  BY <1>1, <1>4, <1>5 DEF Chunks

\* There is such a log.
LEMMA AppendedIs ==
    ASSUME Inv1, id \in Ids, NEW g \in Logs, NEW n, NEW runs, NEW off, Layout(n, runs, off)
    PROVE  \E h : Appended(g, h, n, runs, off)
<1>1. /\ n \in Nat \ {0} /\ runs \in [0..n - 1 -> Seq(Blocks)] /\ off \in [0..n -> Nat]
      /\ \A a \in 0..n - 1 : \A j \in 1..Len(runs[a]) : runs[a][j] \in Logged
      /\ off[0] = 0
  BY DEF Layout
<1>2. /\ g.ls \in Nat /\ g.s \in Nat /\ g.sb \in Nat /\ g.e \in Nat /\ g.x \in Nat /\ g.r \in Nat
      /\ g.pos \in [Nat -> Nat] /\ g.from \in [Ids -> Nat] /\ g.chunk \in [Nat -> Chunks]
  BY LogNumbers
<1>3. PICK e \in Nat : e = g.e
  BY <1>2
<1>4. PICK w \in Nat : w = g.pos[e]
  BY <1>2
<1>5. PICK f \in Nat : f = e + n
  BY <1>1
<1>6. PICK ch : ch = [k \in Nat |-> IF k \in e..f - 1 THEN EntryArray(runs[k - e]) ELSE g.chunk[k]]
  OBVIOUS
<1>7. PICK ps : ps = [k \in Nat |-> IF k \in e..f THEN w + off[k - e] ELSE g.pos[k]]
  OBVIOUS
<1>8. PICK fr : fr = [g.from EXCEPT ![id] = e]
  OBVIOUS
<1>9. fr \in [Ids -> Nat] /\ fr[id] = e /\ \A i \in Ids : i # id => fr[i] = g.from[i]
  BY <1>2, <1>8
<1>10. ASSUME NEW k \in Nat
       PROVE  ch[k] \in Chunks /\ ps[k] \in Nat
  <2>1. ch[k] \in Chunks
    <3>1. CASE k \in e..f - 1
      <4>1. PICK a \in 0..n - 1 : a = k - e
        BY <1>1, <1>5, <3>1
      <4>2. EntryArray(runs[a]) \in Chunks
        BY <1>1, EntryArrayType
      <4>3. QED
        BY <1>6, <3>1, <4>1, <4>2
    <3>2. CASE k \notin e..f - 1
      BY <1>2, <1>6, <3>2
    <3>3. QED
      BY <3>1, <3>2
  <2>2. ps[k] \in Nat
    <3>1. CASE k \in e..f
      <4>1. PICK a \in 0..n : a = k - e
        BY <1>1, <1>5, <3>1
      <4>2. off[a] \in Nat
        BY <1>1
      <4>3. ps[k] = w + off[a]
        BY <1>7, <3>1, <4>1
      <4>4. QED
        BY <4>2, <4>3
    <3>2. CASE k \notin e..f
      BY <1>2, <1>7, <3>2
    <3>3. QED
      BY <3>1, <3>2
  <2>3. QED
    BY <2>1, <2>2
<1>11. ch \in [Nat -> Chunks] /\ ps \in [Nat -> Nat]
  BY <1>6, <1>7, <1>10
<1>12. PICK h : h = [chunk |-> ch, pos |-> ps, from |-> fr, ls |-> g.ls, s |-> g.s, sb |-> g.sb,
                     e |-> e, f |-> f, x |-> g.x, r |-> g.r]
  OBVIOUS
<1>13. /\ h \in Logs /\ h.chunk = ch /\ h.pos = ps /\ h.from = fr /\ h.ls = g.ls /\ h.s = g.s
       /\ h.sb = g.sb /\ h.e = g.e /\ h.x = g.x /\ h.f = f
  BY <1>2, <1>3, <1>9, <1>11, <1>12 DEF Logs
<1>14. \A k \in 0..e : ps[k] = g.pos[k]
  <2>1. ASSUME NEW k \in 0..e PROVE ps[k] = g.pos[k]
    <3>1. CASE k = e
      <4>1. PICK a \in 0..n : a = 0
        <5>1. 0 \in 0..n
          BY <1>1
        <5>2. QED
          BY <5>1
      <4>2. k \in Nat /\ k \in e..f /\ k - e = a
        BY <1>1, <1>5, <3>1, <4>1
      <4>3. ps[k] = w + off[a]
        BY <1>7, <4>2
      <4>4. QED
        BY <1>1, <1>4, <3>1, <4>1, <4>3
    <3>2. CASE k # e
      BY <1>7, <3>2
    <3>3. QED
      BY <3>1, <3>2
  <2>2. QED
    BY <2>1
<1>15. \A k \in 0..e - 1 : ch[k] = g.chunk[k]
  BY <1>6
<1>16. ASSUME NEW a \in 0..n, NEW k \in Nat, k = e + a
       PROVE  ps[k] = w + off[a] /\ (a < n => ch[k] = EntryArray(runs[a]))
  <2>1. k \in e..f /\ k - e = a /\ (a < n => k \in e..f - 1)
    BY <1>1, <1>5, <1>16
  <2>2. QED
    BY <1>6, <1>7, <2>1
<1>17. QED
  BY <1>3, <1>4, <1>5, <1>9, <1>13, <1>14, <1>15, <1>16 DEF Appended

\* Array k of a log.
ArrayOK(h, k) ==
    /\ h.pos[k + 1] = h.pos[k] + 1 + Len(h.chunk[k].runs)
    /\ Len(h.chunk[k].data) = Len(h.chunk[k].runs) /\ Len(h.chunk[k].runs) > 0
    /\ \A i, j \in 1..Len(h.chunk[k].runs) : h.chunk[k].runs[i] = h.chunk[k].runs[j] => i = j

\* The arrays of the entry follow the others.
LEMMA AppendedArrays ==
    ASSUME Inv1, id \in Ids, NEW g \in Logs, Laid(g), g.e <= g.f, NEW n, NEW runs, NEW off,
           Layout(n, runs, off), NEW h, Appended(g, h, n, runs, off), NEW k \in 0..h.f - 1
    PROVE  ArrayOK(h, k)
<1>1. g.e \in Nat /\ g.f \in Nat /\ h.f = g.e + n /\ n \in Nat \ {0} /\ off \in [0..n -> Nat]
  BY LogNumbers DEF Appended, Layout
<1>2. PICK m \in Nat : m = k + 1 /\ k \in Nat
  OBVIOUS
<1>3. CASE k < g.e
  <2>1. k \in 0..g.e - 1 /\ k \in 0..g.e /\ m \in 0..g.e /\ k \in 0..g.f - 1
    BY <1>1, <1>2, <1>3
  <2>2. h.chunk[k] = g.chunk[k] /\ h.pos[k] = g.pos[k] /\ h.pos[m] = g.pos[m]
    BY <2>1 DEF Appended
  <2>3. /\ g.pos[k + 1] = g.pos[k] + 1 + Len(g.chunk[k].runs)
        /\ Len(g.chunk[k].data) = Len(g.chunk[k].runs) /\ Len(g.chunk[k].runs) > 0
        /\ \A i, j \in 1..Len(g.chunk[k].runs) :
                    g.chunk[k].runs[i] = g.chunk[k].runs[j] => i = j
    BY <2>1 DEF Laid
  <2>4. QED
    BY <1>2, <2>2, <2>3 DEF ArrayOK
<1>4. CASE k >= g.e
  <2>1. PICK a \in 0..n - 1 : k = g.e + a
    <3>1. k - g.e \in 0..n - 1 /\ k = g.e + (k - g.e)
      BY <1>1, <1>2, <1>4
    <3>2. QED
      BY <3>1
  <2>2. PICK c \in 0..n : c = a + 1
    BY <1>1
  <2>3. a \in 0..n /\ a < n /\ m = g.e + c
    <3>1. n \in Nat /\ g.e \in Nat
      BY <1>1
    <3>2. QED
      BY <1>2, <2>1, <2>2, <3>1
  <2>4. h.pos[k] = g.pos[g.e] + off[a] /\ h.chunk[k] = EntryArray(runs[a])
    BY <1>2, <2>1, <2>3 DEF Appended
  <2>5. h.pos[m] = g.pos[g.e] + off[c]
    BY <2>3 DEF Appended
  <2>6. PICK q \in Seq(Blocks) : q = runs[a]
    BY DEF Layout
  <2>7. /\ off[c] = off[a] + 1 + Len(q) /\ Len(q) > 0
        /\ \A j \in 1..Len(q) : q[j] \in Logged
        /\ \A i, j \in 1..Len(q) : q[i] = q[j] => i = j
    <3>1. /\ off[a + 1] = off[a] + 1 + Len(runs[a]) /\ Len(runs[a]) > 0
          /\ \A j \in 1..Len(runs[a]) : runs[a][j] \in Logged
      BY DEF Layout
    <3>2. \A j \in 1..Len(runs[a]), i \in 1..Len(runs[a]) :
                runs[a][j] = runs[a][i] => a = a /\ j = i
      BY DEF Layout
    <3>3. QED
      BY <2>2, <2>6, <3>1, <3>2
  <2>8. h.chunk[k].runs = q /\ Len(h.chunk[k].data) = Len(q)
    BY <2>4, <2>6, <2>7, EntryArrayType
  <2>9. PICK w \in Nat : w = g.pos[g.e]
    BY <1>1, LogNumbers
  <2>10. PICK x \in Nat, y \in Nat : x = off[a] /\ y = off[c]
    BY <1>1, <2>3
  <2>11. w + y = w + x + 1 + Len(q)
    <3>1. PICK t \in Nat : t = Len(q)
      OBVIOUS
    <3>2. y = x + 1 + t
      BY <2>7, <2>10, <3>1
    <3>3. QED
      BY <3>1, <3>2
  <2>12. h.pos[m] = h.pos[k] + 1 + Len(q)
    BY <2>4, <2>5, <2>9, <2>10, <2>11
  <2>13. QED
    BY <1>2, <2>7, <2>8, <2>12 DEF ArrayOK
<1>5. QED
  BY <1>1, <1>2, <1>3, <1>4

\* They are in order.
LEMMA AppendedOrder ==
    ASSUME NEW g \in Logs, Laid(g), g.e <= g.f, NEW n, NEW runs, NEW off,
           Layout(n, runs, off), NEW h, Appended(g, h, n, runs, off),
           NEW k \in 0..h.f, NEW l \in 0..h.f, k <= l
    PROVE  h.pos[k] + (l - k) <= h.pos[l]
<1>1. g.e \in Nat /\ g.f \in Nat /\ h.f = g.e + n /\ n \in Nat \ {0} /\ off \in [0..n -> Nat]
      /\ off[0] = 0 /\ g.pos \in [Nat -> Nat]
  BY LogNumbers DEF Appended, Layout
<1>0. g.e \in Nat /\ g.f \in Nat /\ n \in Nat /\ h.f = g.e + n /\ h.f \in Nat
  <2>1. h.f = g.e + n /\ h \in Logs
    BY DEF Appended
  <2>2. n \in Nat
    BY DEF Layout
  <2>3. QED
    BY <2>1, <2>2, LogNumbers
<1>2. k \in Nat /\ l \in Nat /\ k <= h.f /\ l <= h.f
  BY <1>0
<1>3. PICK w \in Nat : w = g.pos[g.e]
  BY <1>1
<1>4. ASSUME NEW i \in 0..h.f
      PROVE  \/ i <= g.e /\ i \in 0..g.e /\ i \in 0..g.f /\ h.pos[i] = g.pos[i] /\ g.pos[i] \in Nat
             \/ \E a \in 0..n : i = g.e + a /\ h.pos[i] = w + off[a] /\ off[a] \in Nat
  <2>1. CASE i <= g.e
    <3>1. i \in Nat /\ i \in 0..g.e /\ i \in 0..g.f
      BY <1>0, <2>1
    <3>2. QED
      BY <1>1, <2>1, <3>1 DEF Appended
  <2>2. CASE i > g.e
    <3>1. PICK a \in 0..n : i = g.e + a
      <4>1. i - g.e \in 0..n /\ i = g.e + (i - g.e)
        BY <1>0, <2>2
      <4>2. QED
        BY <4>1
    <3>2. i \in Nat
      OBVIOUS
    <3>3. h.pos[i] = g.pos[g.e] + off[a]
      BY <3>1, <3>2 DEF Appended
    <3>4. off[a] \in Nat
      BY <1>1
    <3>5. QED
      BY <1>3, <3>1, <3>3, <3>4
  <2>3. QED
    BY <1>1, <2>1, <2>2
<1>5. CASE l <= g.e
  <2>1. k \in 0..g.e /\ l \in 0..g.e /\ k \in 0..g.f /\ l \in 0..g.f
    BY <1>0, <1>2, <1>5
  <2>2. g.pos[k] + (l - k) <= g.pos[l]
    BY <2>1 DEF Laid
  <2>3. QED
    BY <2>1, <2>2 DEF Appended
<1>6. CASE l > g.e
  <2>1. PICK c \in 0..n : l = g.e + c
    <3>1. l - g.e \in 0..n /\ l = g.e + (l - g.e)
      BY <1>0, <1>2, <1>6
    <3>2. QED
      BY <3>1
  <2>2. h.pos[l] = w + off[c]
    BY <1>2, <1>3, <2>1 DEF Appended
  <2>3. PICK y \in Nat : y = off[c]
    BY <1>1
  <2>4. CASE k <= g.e
    <3>1. k \in 0..g.e /\ k \in 0..g.f /\ g.e \in 0..g.f
      BY <1>0, <1>2, <2>4
    <3>2. PICK v \in Nat : v = g.pos[k] /\ h.pos[k] = v
      BY <1>1, <1>2, <3>1 DEF Appended
    <3>3. g.pos[k] + (g.e - k) <= g.pos[g.e]
      BY <2>4, <3>1 DEF Laid
    <3>4. v + (g.e - k) <= w
      BY <1>3, <3>2, <3>3
    <3>5. c <= y
      <4>1. PICK z \in 0..n : z = 0
        <5>1. 0 \in 0..n
          BY <1>1
        <5>2. QED
          BY <5>1
      <4>2. z <= c
        BY <4>1
      <4>3. off[z] + (c - z) <= off[c]
        BY <4>2 DEF Layout
      <4>4. off[z] = 0
        BY <1>1, <4>1
      <4>5. QED
        BY <2>3, <4>1, <4>3, <4>4
    <3>6. v + (l - k) <= w + y
      <4>1. PICK p \in Nat, q \in Nat, m \in Nat, u \in Nat :
                p = g.e /\ q = k /\ m = l /\ u = c
        BY <1>0, <1>1, <1>2
      <4>2. m = p + u /\ v + (p - q) <= w /\ u <= y
        BY <2>1, <3>4, <3>5, <4>1
      <4>3. v + (m - q) <= w + y
        BY <1>3, <2>3, <4>2
      <4>4. QED
        BY <4>1, <4>3
    <3>7. QED
      BY <2>2, <2>3, <3>2, <3>6
  <2>5. CASE k > g.e
    <3>1. PICK a \in 0..n : k = g.e + a
      <4>1. k - g.e \in 0..n /\ k = g.e + (k - g.e)
        BY <1>0, <1>2, <2>5
      <4>2. QED
        BY <4>1
    <3>2. h.pos[k] = w + off[a]
      BY <1>2, <1>3, <3>1 DEF Appended
    <3>3. PICK x \in Nat : x = off[a]
      BY <1>1
    <3>4. a <= c
      BY <1>1, <2>1, <3>1
    <3>5. x + (c - a) <= y
      BY <2>3, <3>3, <3>4 DEF Layout
    <3>6. w + x + (l - k) <= w + y
      BY <1>0, <2>1, <3>1, <3>3, <2>3, <3>5
    <3>7. QED
      BY <2>2, <2>3, <3>2, <3>3, <3>6
  <2>6. QED
    BY <1>1, <1>2, <2>4, <2>5
<1>7. QED
  BY <1>1, <1>2, <1>5, <1>6

\* The blocks of the entry are on the disk.
LEMMA AppendedStored ==
    ASSUME Inv1, id \in Ids, NEW g \in Logs, g.e \in Nat, g.s <= g.e, NEW n, NEW runs, NEW off,
           Layout(n, runs, off), NEW h, Appended(g, h, n, runs, off), Stored(g), g.e = g.f,
           NEW m \in Nat, Writing(m), m = LogEntryLength, IsAt(logEnd, g.pos[g.e])
    PROVE  Stored(h)
<1>1. g.e \in Nat /\ g.s \in Nat /\ h.f = g.e + n /\ n \in Nat \ {0} /\ off \in [0..n -> Nat]
      /\ g.pos \in [Nat -> Nat] /\ h.s = g.s /\ off[n] = m
  BY LogNumbers DEF Appended, Layout
<1>0. g.e \in Nat /\ g.s \in Nat /\ n \in Nat /\ h.f = g.e + n /\ h.s = g.s /\ g.f = g.e
  BY <1>1
<1>2. LogSize \in Nat \ {0} /\ LogSize > 0 /\ logEnd \in 0..LogSize
  BY DEF Writing
<1>3. PICK w \in Nat : w = g.pos[g.e]
  BY <1>1
<1>4. ASSUME NEW i \in 1..m, NEW p, p = w + i - 1
      PROVE  log[p % LogSize] = LogEntryBlocks[i]
  <2>1. log[(logEnd + i - 1) % LogSize] = LogEntryBlocks[i]
    BY DEF Writing
  <2>2. PICK u \in Int : u = logEnd + i - 1
    BY <1>2
  <2>3. p \in Int /\ u - logEnd = p - w /\ logEnd \in Int /\ w \in Int
    BY <1>2, <1>4, <2>2
  <2>4. IsAt(logEnd, w)
    BY <1>3
  <2>5. IsAt(u, p)
    BY <1>2, <2>2, <2>3, <2>4, AtPlus
  <2>6. QED
    BY <2>1, <2>2, <2>5 DEF IsAt
<1>5. ASSUME NEW k \in h.s..h.f - 1
      PROVE  /\ log[h.pos[k] % LogSize].runs = h.chunk[k].runs
             /\ \A j \in 1..Len(h.chunk[k].runs) :
                    log[(h.pos[k] + j) % LogSize].data = h.chunk[k].data[j]
  <2>1. k \in Nat /\ k >= g.s /\ k < g.e + n
    BY <1>0
  <2>2. CASE k < g.e
    <3>1. k \in 0..g.e /\ k \in 0..g.e - 1 /\ k \in g.s..g.f - 1
      BY <1>0, <2>1, <2>2
    <3>2. h.pos[k] = g.pos[k] /\ h.chunk[k] = g.chunk[k]
      BY <3>1 DEF Appended
    <3>3. QED
      BY <3>1, <3>2 DEF Stored
  <2>3. CASE k >= g.e
    <3>1. PICK a \in 0..n - 1 : k = g.e + a
      <4>1. k - g.e \in 0..n - 1 /\ k = g.e + (k - g.e)
        BY <1>0, <2>1, <2>3
      <4>2. QED
        BY <4>1
    <3>2. PICK c \in 0..n : c = a + 1
      BY <1>1
    <3>3. a \in 0..n /\ a < n
      BY <1>1
    <3>4. h.pos[k] = w + off[a] /\ h.chunk[k] = EntryArray(runs[a])
      BY <1>3, <2>1, <3>1, <3>3 DEF Appended
    <3>5. PICK q \in Seq(Blocks) : q = runs[a]
      BY DEF Layout
    <3>6. PICK x \in Nat, y \in Nat, t \in Nat : x = off[a] /\ y = off[c] /\ t = Len(q)
      <4>1. off[a] \in Nat /\ off[c] \in Nat
        BY <1>1, <3>3
      <4>2. Len(q) \in Nat
        OBVIOUS
      <4>3. QED
        BY <4>1, <4>2
    <3>7. /\ off[a + 1] = off[a] + 1 + Len(q)
          /\ LogEntryBlocks[off[a] + 1] = RunArray(q)
          /\ \A j \in 1..Len(q) :
                q[j] \in Logged /\ LogEntryBlocks[off[a] + 1 + j] = LogData(block[q[j]].current)
      <4>1. /\ off[a + 1] = off[a] + 1 + Len(runs[a])
            /\ LogEntryBlocks[off[a] + 1] = RunArray(runs[a])
            /\ \A j \in 1..Len(runs[a]) : /\ runs[a][j] \in Logged
                    /\ LogEntryBlocks[off[a] + 1 + j] = LogData(block[runs[a][j]].current)
        BY DEF Layout
      <4>2. QED
        BY <3>5, <4>1
    <3>8. /\ y = x + 1 + t
          /\ LogEntryBlocks[x + 1] = RunArray(q)
          /\ \A j \in 1..t :
                q[j] \in Logged /\ LogEntryBlocks[x + 1 + j] = LogData(block[q[j]].current)
      BY <3>2, <3>6, <3>7
    <3>9. y <= m
      <4>1. n \in 0..n /\ c <= n
        BY <1>1
      <4>2. off[c] + (n - c) <= off[n]
        BY <4>1 DEF Layout
      <4>3. y + (n - c) <= m
        BY <1>1, <3>6, <4>2
      <4>4. QED
        BY <1>1, <4>3
    <3>10. /\ h.chunk[k].runs = q
           /\ \A j \in 1..t : h.chunk[k].data[j] = block[q[j]].current
      <4>1. \A j \in 1..Len(q) : q[j] \in Logged
        BY <3>7
      <4>2. /\ EntryArray(q).runs = q
            /\ \A j \in 1..Len(q) : EntryArray(q).data[j] = block[q[j]].current
        BY <4>1, EntryArrayType
      <4>3. QED
        BY <3>4, <3>5, <3>6, <4>2
    <3>11. PICK p \in Nat : p = w + x /\ h.pos[k] = p
      <4>1. w + x \in Nat /\ h.pos[k] = w + x
        BY <1>3, <3>4, <3>6
      <4>2. QED
        BY <4>1
    <3>12. log[p % LogSize] = RunArray(q)
      <4>1. PICK i \in 1..m : i = x + 1
        <5>1. x + 1 \in 1..m
          BY <3>8, <3>9
        <5>2. QED
          BY <5>1
      <4>2. p = w + i - 1
        BY <3>11, <4>1
      <4>3. QED
        BY <1>4, <3>8, <4>1, <4>2
    <3>13. ASSUME NEW j \in 1..t
           PROVE  log[(p + j) % LogSize] = LogData(block[q[j]].current)
      <4>1. PICK i \in 1..m : i = x + 1 + j
        <5>1. x + 1 + j \in 1..m
          BY <3>8, <3>9
        <5>2. QED
          BY <5>1
      <4>2. PICK z \in Nat : z = p + j
        OBVIOUS
      <4>3. z = w + i - 1
        <5>1. p = w + x /\ j \in Nat
          BY <3>11, <3>6
        <5>2. w \in Nat /\ x \in Nat /\ i = x + 1 + j /\ z = p + j
          BY <1>3, <3>6, <4>1, <4>2
        <5>3. QED
          BY <5>1, <5>2
      <4>4. log[z % LogSize] = LogEntryBlocks[i]
        BY <1>4, <4>3
      <4>5. QED
        BY <3>8, <4>1, <4>2, <4>4
    <3>14. log[p % LogSize].runs = q
      BY <3>12 DEF RunArray
    <3>15. \A j \in 1..t : log[(p + j) % LogSize].data = block[q[j]].current
      <4>1. \A v : LogData(v).data = v
        BY DEF LogData
      <4>2. QED
        BY <3>13, <4>1
    <3>16. QED
      BY <3>6, <3>10, <3>11, <3>14, <3>15
  <2>4. QED
    BY <1>1, <2>1, <2>2, <2>3
<1>6. QED
  BY <1>5 DEF Stored

\* What is known before the end of the log is set, and not a flaw.
Ending(g) ==
    /\ pc = "log" /\ pc' = "super" /\ UNCHANGED cacheVars /\ Inv1
    /\ UNCHANGED <<log, super, logStart, logEnd, entries, id, hook>>
    /\ superBlock'.start = superBlock.start
    /\ superBlock'.end = EndOf(logEnd, LogEntryLength)
    /\ EndOf(logEnd, LogEntryLength) \notin {superBlock.start, logStart}
    /\ id \in Ids /\ Logged # {} /\ ~InEntries(id) /\ entries \in Seq(Entries)
    /\ LogEntryLength \in 1..LogSize /\ LogSize > 0
    /\ logEnd \in 0..LogSize /\ logStart \in 0..LogSize /\ superBlock.start \in 0..LogSize
    /\ \E m \in Nat : Writing(m) /\ m = LogEntryLength
    /\ g.ls <= g.s /\ g.s <= g.sb /\ g.sb <= g.e /\ g.e = g.f /\ g.x = g.f
    /\ g.ls \in Nat /\ g.s \in Nat /\ g.sb \in Nat /\ g.e \in Nat
    /\ hook = "start" => g.s = g.sb

\* That is so.
LEMMA EndingIs ==
    ASSUME Base, NEW g \in Logs, Geometry(g), SetEnd, ~flaw'
    PROVE  Ending(g)
<1>1. Inv1 /\ JournalTypes /\ Control /\ SpaceOK /\ Reasons
  BY DEF Base
<1>2. /\ pc = "log" /\ pc' = "super" /\ UNCHANGED cacheVars /\ todo = <<>>
      /\ UNCHANGED <<log, super, logStart, logEnd, entries, id, hook>>
      /\ superBlock' = [superBlock EXCEPT !.end = EndOf(logEnd, LogEntryLength)]
      /\ superBlock'.end \notin {superBlock.start, logStart}
  BY DEF SetEnd
<1>3. superBlock'.start = superBlock.start /\ superBlock'.end = EndOf(logEnd, LogEntryLength)
  BY <1>1, <1>2 DEF JournalTypes, Pointers
<1>4. PICK m \in Nat : Writing(m)
  BY <1>2, WritingIs
<1>5. /\ call = NoCall /\ Logged # {} /\ LogEntryLength \in 1..LogSize /\ LogSize > 0
      /\ logEnd \in 0..LogSize /\ id \in Ids /\ Open(id) /\ m = LogEntryLength
  BY <1>2, <1>4 DEF Writing
<1>6. Mover # id
  BY <1>2, <1>5 DEF Mover, Entering, Committing, NoCall
<1>7. ~InEntries(id)
  BY <1>1, <1>5, <1>6, NoEntry
<1>8. /\ g.ls <= g.s /\ g.s <= g.sb /\ g.sb <= g.e /\ g.e = g.f /\ g.x = g.f
      /\ hook = "start" => g.s = g.sb
  BY <1>2 DEF Geometry, Order
<1>9. logStart \in 0..LogSize /\ superBlock.start \in 0..LogSize /\ entries \in Seq(Entries)
  BY <1>1 DEF JournalTypes, Pointers
<1>10. QED
  BY <1>1, <1>2, <1>3, <1>4, <1>5, <1>7, <1>8, <1>9, LogNumbers DEF Ending

\* The pointers at the end of the log.
LEMMA EndingSpans ==
    ASSUME NEW g \in Logs, Geometry(g), Ending(g), NEW n, NEW runs, NEW off,
           Layout(n, runs, off), NEW h, Appended(g, h, n, runs, off)
    PROVE  Spans(h)' /\ Places(h)' /\ h.pos[h.f] - h.pos[h.ls] <= LogSize
<1>1. /\ g.ls <= g.s /\ g.s <= g.sb /\ g.sb <= g.e /\ g.e = g.f /\ g.x = g.f
      /\ g.ls \in Nat /\ g.s \in Nat /\ g.sb \in Nat /\ g.e \in Nat /\ n \in Nat
  BY DEF Ending, Layout
<1>2. PICK e \in Nat, f \in Nat : e = g.e /\ f = e + n
  BY <1>1
<1>3. /\ h.ls = g.ls /\ h.s = g.s /\ h.sb = g.sb /\ h.e = e /\ h.x = g.x /\ h.f = f
      /\ h.pos[h.ls] = g.pos[g.ls] /\ h.pos[h.s] = g.pos[g.s] /\ h.pos[h.sb] = g.pos[g.sb]
      /\ h.pos[e] = g.pos[e] /\ h.x = e /\ g.x = e
  <2>1. g.ls \in 0..g.e /\ g.s \in 0..g.e /\ g.sb \in 0..g.e /\ g.e \in 0..g.e
    BY <1>1
  <2>2. /\ h.pos[g.ls] = g.pos[g.ls] /\ h.pos[g.s] = g.pos[g.s] /\ h.pos[g.sb] = g.pos[g.sb]
        /\ h.pos[g.e] = g.pos[g.e]
    BY <2>1 DEF Appended
  <2>3. /\ h.ls = g.ls /\ h.s = g.s /\ h.sb = g.sb /\ h.e = g.e /\ h.x = g.x /\ h.f = g.e + n
    BY DEF Appended
  <2>4. QED
    BY <1>1, <1>2, <2>2, <2>3
<1>4. PICK a \in Nat, b \in Nat, w \in Nat : a = g.pos[g.ls] /\ b = g.pos[g.sb] /\ w = g.pos[e]
  BY <1>1, <1>2, LogNumbers
<1>5. PICK l \in 1..LogSize : l = LogEntryLength
  BY DEF Ending
<1>6. PICK z \in Nat : z = LogSize /\ z > 0
  BY JournalAssumption DEF Ending
<1>7. a <= b /\ b <= w /\ w - a + l <= z
  <2>1. g.ls <= g.sb /\ g.sb <= g.f /\ g.e <= g.f /\ g.f \in Nat
    BY <1>1
  <2>2. g.pos[g.ls] <= g.pos[g.sb]
    BY <1>1, <2>1, Ordered DEF Geometry
  <2>3. g.pos[g.sb] <= g.pos[g.e]
    BY <1>1, <2>1, Ordered DEF Geometry
  <2>4. g.pos[g.e] - g.pos[g.ls] + LogEntryLength <= LogSize
    BY DEF Geometry, Laid, Ending
  <2>5. QED
    BY <1>2, <1>4, <1>5, <1>6, <2>2, <2>3, <2>4
<1>8. h.pos[f] = w + l
  <2>1. n \in 0..n /\ off[n] = LogEntryLength
    BY <1>1 DEF Layout
  <2>2. h.pos[f] = g.pos[g.e] + off[n]
    BY <1>2, <2>1 DEF Appended
  <2>3. QED
    BY <1>2, <1>4, <1>5, <2>1, <2>2
<1>9. PICK d \in Int, c \in Int : d = w - a /\ c = w - b
  OBVIOUS
<1>10. d >= 0 /\ d + l <= LogSize /\ c + l <= LogSize
  BY <1>4, <1>5, <1>6, <1>7, <1>9
<1>11. Span(logStart, logEnd, d) /\ Span(superBlock.start, logEnd, c)
  BY <1>2, <1>4, <1>9 DEF Geometry, Spans
<1>12. /\ logEnd \in 0..LogSize /\ logStart \in 0..LogSize /\ superBlock.start \in 0..LogSize
       /\ LogSize > 0
  BY DEF Ending
<1>13. PICK y : y = EndOf(logEnd, l)
  OBVIOUS
<1>14. y # superBlock.start /\ y # logStart /\ superBlock'.end = y
  BY <1>5, <1>13 DEF Ending
<1>15. Span(logStart, y, d + l) /\ Span(superBlock.start, y, c + l)
  <2>1. Span(logStart, y, d + l)
    BY <1>9, <1>10, <1>11, <1>12, <1>13, <1>14, SpanGrows
  <2>2. Span(superBlock.start, y, c + l)
    BY <1>9, <1>10, <1>11, <1>12, <1>13, <1>14, SpanGrows
  <2>3. QED
    BY <2>1, <2>2
<1>16. Span(logEnd, y, l)
  <2>1. y # logEnd
    <3>1. SUFFICES ASSUME y = logEnd PROVE FALSE
      OBVIOUS
    <3>2. y = IF logEnd + l <= LogSize THEN logEnd + l ELSE logEnd + l - LogSize
      BY <1>12, <1>13, EndIs
    <3>3. l = LogSize
      <4>1. PICK q \in Nat : q = logEnd
        BY <1>12
      <4>2. q = IF q + l <= z THEN q + l ELSE q + l - z
        BY <1>6, <3>1, <3>2, <4>1
      <4>3. QED
        BY <1>6, <4>1, <4>2
    <3>4. d = 0
      BY <1>6, <1>10, <3>3
    <3>5. logStart = logEnd
      BY <1>11, <3>4 DEF Span
    <3>6. QED
      BY <1>14, <3>1, <3>5
  <2>2. QED
    BY <1>12, <1>13, <2>1, SpanEntry
<1>17. IsAt(y, w + l)
  <2>1. IsAt(y, logEnd + l)
    BY <1>12, <1>13, EndIs
  <2>2. IsAt(logEnd, w)
    BY <1>2, <1>4, <1>12 DEF Geometry, Places
  <2>3. PICK u \in Int, v \in Int : u = logEnd + l /\ v = w + l
    BY <1>12
  <2>4. u - logEnd = v - w /\ logEnd \in Int /\ w \in Int
    BY <1>12, <2>3
  <2>5. IsAt(u, v)
    BY <1>12, <2>2, <2>3, <2>4, AtPlus
  <2>6. QED
    BY <2>1, <2>3, <2>5 DEF IsAt
<1>18. UNCHANGED <<super, logStart, logEnd>> /\ superBlock'.start = superBlock.start
  BY DEF Ending
<1>19. /\ w + l - a = d + l /\ w + l - b = c + l /\ w + l - w = l /\ w + l - a <= LogSize
       /\ LogSize \in Nat
  BY <1>4, <1>5, <1>6, <1>7, <1>9
<1>20. Spans(h)'
  <2>1. Span(super.start, super.end, g.pos[g.x] - g.pos[g.s])
    BY DEF Geometry, Spans
  <2>2. /\ Span(logStart, logEnd, w - a) /\ Span(superBlock.start, logEnd, w - b)
        /\ Span(logStart, y, w + l - a) /\ Span(superBlock.start, y, w + l - b)
        /\ Span(logEnd, y, w + l - w)
    BY <1>9, <1>11, <1>15, <1>16, <1>19
  <2>3. QED
    BY <1>3, <1>4, <1>8, <1>14, <1>18, <2>1, <2>2 DEF Spans
<1>21. Places(h)'
  <2>1. /\ IsAt(logEnd, g.pos[g.e]) /\ IsAt(superBlock.start, g.pos[g.sb])
        /\ IsAt(super.start, g.pos[g.s]) /\ IsAt(super.end, g.pos[g.x])
    BY <1>12 DEF Geometry, Places
  <2>2. QED
    BY <1>2, <1>3, <1>8, <1>14, <1>17, <1>18, <2>1 DEF Places
<1>22. QED
  BY <1>3, <1>4, <1>8, <1>19, <1>20, <1>21

\* The end of the log gets behind the entry.
LEMMA SetEndGeometry ==
    ASSUME Base, NEW g \in Logs, Geometry(g), SetEnd, ~flaw', NEW n, NEW runs, NEW off,
           Layout(n, runs, off), NEW h, Appended(g, h, n, runs, off)
    PROVE  Geometry(h)'
<1>1. Ending(g)
  BY EndingIs
<1>2. /\ pc = "log" /\ pc' = "super" /\ UNCHANGED <<log, entries, id, hook>> /\ Inv1
      /\ id \in Ids /\ ~InEntries(id) /\ entries \in Seq(Entries) /\ LogSize > 0
      /\ hook = "start" => g.s = g.sb
  BY <1>1 DEF Ending
<1>3. /\ g.ls <= g.s /\ g.s <= g.sb /\ g.sb <= g.e /\ g.e = g.f /\ g.x = g.f
      /\ g.ls \in Nat /\ g.s \in Nat /\ g.sb \in Nat /\ g.e \in Nat
  BY <1>1 DEF Ending
<1>4. n \in Nat /\ n > 0
  BY DEF Layout
<1>5. /\ h \in Logs /\ h.ls = g.ls /\ h.s = g.s /\ h.sb = g.sb /\ h.e = g.e /\ h.x = g.x
      /\ h.f = g.e + n
  BY DEF Appended
<1>6. Order(h)'
  <2>1. g.e < h.f /\ g.e <= h.f
    BY <1>3, <1>4, <1>5
  <2>2. g.s <= g.x
    BY <1>3
  <2>3. QED
    BY <1>2, <1>3, <1>5, <2>1, <2>2 DEF Order
<1>7. Spans(h)' /\ Places(h)' /\ h.pos[h.f] - h.pos[h.ls] <= LogSize
  BY <1>1, EndingSpans
<1>8. Laid(h)'
  <2>1. Laid(g) /\ g.e <= g.f
    BY <1>3 DEF Geometry
  <2>2. \A k \in 0..h.f - 1 :
            /\ h.pos[k + 1] = h.pos[k] + 1 + Len(h.chunk[k].runs)
            /\ Len(h.chunk[k].data) = Len(h.chunk[k].runs) /\ Len(h.chunk[k].runs) > 0
            /\ \A i, j \in 1..Len(h.chunk[k].runs) :
                    h.chunk[k].runs[i] = h.chunk[k].runs[j] => i = j
    <3>1. \A k \in 0..h.f - 1 : ArrayOK(h, k)
      BY <1>2, <2>1, AppendedArrays
    <3>2. QED
      BY <3>1 DEF ArrayOK
  <2>3. \A k, l \in 0..h.f : k <= l => h.pos[k] + (l - k) <= h.pos[l]
    BY <2>1, AppendedOrder
  <2>4. QED
    BY <1>2, <1>7, <2>2, <2>3 DEF Laid
<1>9. Stored(h)'
  <2>1. PICK m \in Nat : Writing(m) /\ m = LogEntryLength
    BY <1>1 DEF Ending
  <2>2. Stored(g) /\ IsAt(logEnd, g.pos[g.e])
    BY <1>2 DEF Geometry, Places
  <2>3. g.s <= g.e
    BY <1>3
  <2>4. Stored(h)
    BY <1>2, <1>3, <2>1, <2>2, <2>3, AppendedStored
  <2>5. QED
    BY <1>2, <2>4 DEF Stored
<1>10. Placed(h)'
  <2>1. \A k \in 1..Len(entries) : entries[k].id \in Ids /\ entries[k].id # id
    BY <1>2, EntryTypes DEF InEntries
  <2>2. \A k \in 1..Len(entries) : h.from[entries[k].id] = g.from[entries[k].id]
    BY <2>1 DEF Appended
  <2>3. \A k \in 1..Len(entries) : \A p : p = g.from[entries[k].id] =>
            g.sb <= p /\ p < g.e /\ IsAt(entries[k].start, g.pos[p]) /\ p \in Nat
    BY <2>1, LogNumbers DEF Geometry, Placed
  <2>4. \A p \in Nat : p < g.e => h.pos[p] = g.pos[p]
    <3>1. \A p \in Nat : p < g.e => p \in 0..g.e
      BY <1>3
    <3>2. QED
      BY <3>1 DEF Appended
  <2>5. \A k \in 1..Len(entries) : LET p == h.from[entries[k].id] IN
            h.sb <= p /\ p < h.e /\ IsAt(entries[k].start, h.pos[p])
    BY <1>5, <2>2, <2>3, <2>4
  <2>6. \A k, l \in 1..Len(entries) : k < l => h.from[entries[k].id] < h.from[entries[l].id]
    BY <2>2 DEF Geometry, Placed
  <2>7. h.from[id] = h.e
    BY <1>5 DEF Appended
  <2>8. QED
    BY <1>2, <2>5, <2>6, <2>7 DEF Placed
<1>11. Replay(h)'
  BY <1>2 DEF Replay
<1>12. QED
  BY <1>6, <1>7, <1>8, <1>9, <1>10, <1>11 DEF Geometry

\* The cache's own steps leave the log alone, and the entry that is being written.
LEMMA QuietGeometry ==
    ASSUME Base, NEW g, Geometry(g), JournalSame, pc = "log" => Quiet
    PROVE  Geometry(g)'
<1>1. UNCHANGED <<log, super, superBlock, logStart, logEnd, entries, unwritten, hasSub, id, pc,
                  todo, at, lastStart, hook>>
  BY DEF JournalSame, journalVars
<1>2. ASSUME pc = "log" PROVE LogEntryLength' = LogEntryLength
  <2>1. id \in Ids /\ Open(id)
    BY <1>2, OpenHere DEF Base
  <2>2. QED
    BY <1>1, <1>2, <2>1, QuietEntry DEF SameEntry
<1>3. QED
  BY <1>1, <1>2, GeometryStays

\* Those steps are quiet, but for the end of a transaction.
LEMMA CacheGeometry ==
    ASSUME Base, NEW g, Geometry(g), JournalSame,
           \/ \E w \in Writers : WriteBlock(w)
           \/ ClientWritten \/ BackgroundTakes \/ BackgroundWritten \/ TakeEvent
           \/ UNCHANGED cacheVars
    PROVE  Geometry(g)'
<1>1. CASE UNCHANGED <<block, transaction, nextId>>
  BY <1>1, QuietSame, QuietGeometry
<1>2. CASE BackgroundWritten
  <2>1. PICK S, d : S = written["background"] /\ d = BlocksDone(Cache, S)
    OBVIOUS
  <2>2. Inv1 /\ S \in SUBSET Blocks /\ nextId' = nextId
    BY <1>2, <2>1 DEF BackgroundWritten, Base, Inv1, Types, OtherTypes, Writers
  <2>3. block' = d.block /\ transaction' = d.transaction
    BY <1>2, <2>1 DEF BackgroundWritten, Becomes
  <2>4. Quiet
    BY <2>1, <2>2, <2>3, QuietDone
  <2>5. QED
    BY <2>4, QuietGeometry
<1>3. CASE ClientWritten
  <2>1. PICK S, d : S = written["client"] /\ d = BlocksDone(Cache, S)
    OBVIOUS
  <2>2. call.op \in {"end", "detach", "discard", "sync"}
    <3>1. Inv1
      BY DEF Base
    <3>2. QED
      BY <1>3, <2>1, <3>1, ClientWrittenParts DEF CallMayFinish
  <2>3. pc # "log"
    <3>1. Control
      BY DEF Base
    <3>2. pc = "log" => call = NoCall
      BY <3>1 DEF Control, Owning
    <3>3. QED
      BY <2>2, <3>2 DEF NoCall
  <2>4. QED
    BY <2>3, QuietGeometry
<1>4. QED
  BY <1>1, <1>2, <1>3 DEF WriteBlock, BackgroundTakes, TakeEvent, cacheVars

\* The steps of the client that do not write to the log.
LEMMA ClientGeometry ==
    ASSUME Base, NEW g, Geometry(g),
           \/ Lock \/ UnlockFailed \/ UnlockDone \/ FlushLog \/ FlushBlocks \/ TooLarge
           \/ \E b \in Blocks : Write(b)
           \/ PrepareEntry /\ pc' # "log"
           \/ EndEntry \/ FlushDrive
    PROVE  Geometry(g)'
<1>1. UNCHANGED <<log, super, superBlock, logStart, logEnd, entries, hook>>
  BY DEF Lock, UnlockFailed, UnlockDone, FlushLog, FlushBlocks, TooLarge, Write, PrepareEntry,
         EndEntry, FlushDrive, logVars, journalVars
<1>2. CASE FlushDrive
  <2>1. pc = "flush" /\ pc' = "add" /\ UNCHANGED <<id, at>>
    BY <1>2 DEF FlushDrive
  <2>2. QED
    BY <1>1, <2>1, GeometryStays
<1>3. CASE ~FlushDrive
  <2>1. pc \notin Placing /\ pc' \notin Placing
    <3>1. CASE Lock \/ UnlockFailed \/ UnlockDone \/ FlushLog
      BY <3>1 DEF Lock, UnlockFailed, UnlockDone, FlushLog, Placing
    <3>2. CASE FlushBlocks \/ TooLarge \/ \E b \in Blocks : Write(b)
      BY <3>2 DEF FlushBlocks, TooLarge, Write, Placing, journalVars
    <3>3. CASE (PrepareEntry /\ pc' # "log") \/ EndEntry
      BY <3>3 DEF PrepareEntry, EndEntry, Placing
    <3>4. QED
      BY <1>3, <3>1, <3>2, <3>3
  <2>2. QED
    BY <1>1, <2>1, GeometryStays
<1>4. QED
  BY <1>2, <1>3

\* Room for the entry, at once or after the sync.
LEMMA RoomGeometry ==
    ASSUME Base, NEW g \in Logs, Geometry(g), HaveSpace \/ (PrepareEntry /\ pc' = "log")
    PROVE  Geometry(g)'
<1>1. EntryStarts
  <2>1. CASE HaveSpace
    <3>1. call = NoCall /\ Logged # {} /\ hasSub' \in BOOLEAN
      BY <2>1 DEF HaveSpace, Idle, Base, Control, JournalTypes, Entering, NoCall
    <3>2. QED
      BY <2>1, <3>1 DEF HaveSpace, EntryStarts
  <2>2. CASE PrepareEntry /\ pc' = "log"
    <3>1. pc \in {"write", "flush log"} /\ call = NoCall
      BY <2>2 DEF PrepareEntry, Base, Control, Owning
    <3>2. QED
      BY <2>2, <3>1 DEF PrepareEntry, EntryStarts
  <2>3. QED
    BY <2>1, <2>2
<1>2. QED
  BY <1>1, EntryStartsGeometry

\* The log stays as the second invariant has it.
LEMMA NextGeometry ==
    ASSUME Base, NEW g \in Logs, Geometry(g), [Next]_vars, ~flaw'
    PROVE  \E h \in Logs : Geometry(h)'
<1>1. CASE Client
  BY <1>1, ClientGeometry DEF Client
<1>2. CASE Inside
  <2>1. CASE TooLarge \/ PrepareEntry \/ HaveSpace \/ EndEntry \/ FlushDrive
    BY <2>1, ClientGeometry, RoomGeometry
  <2>2. CASE WriteLogBlock \/ AddEntry \/ ReplayBlock
    BY <2>2, WriteLogBlockGeometry, AddEntryGeometry, ReplayBlockGeometry
  <2>3. CASE SetEnd
    <3>1. Inv1 /\ id \in Ids /\ Logged # {}
      BY <2>3, OpenHere DEF Base, SetEnd
    <3>2. PICK n, runs, off : Layout(n, runs, off)
      BY <3>1, EntryLayout
    <3>3. PICK h : Appended(g, h, n, runs, off)
      BY <3>1, <3>2, AppendedIs
    <3>4. h \in Logs
      BY <3>3 DEF Appended
    <3>5. QED
      BY <2>3, <3>2, <3>3, <3>4, SetEndGeometry
  <2>4. CASE WriteSuperBlock \/ SetLogEnd \/ ReplayNext \/ ReplayEnds
    BY <2>4, SuperWrittenGeometry, SetLogEndGeometry, ReplayNextGeometry, ReplayEndsGeometry
  <2>5. CASE (WriteBlock("client") \/ ClientWritten) /\ UNCHANGED journalVars
    <3>1. JournalSame /\ "client" \in Writers
      BY <2>5 DEF JournalSame, Writers
    <3>2. QED
      BY <2>5, <3>1, CacheGeometry
  <2>6. QED
    BY <1>2, <2>1, <2>2, <2>3, <2>4, <2>5 DEF Inside
<1>3. CASE WriterThread
  <2>1. CASE Background /\ UNCHANGED journalVars
    <3>1. JournalSame /\ "background" \in Writers
      BY <2>1 DEF JournalSame, Writers
    <3>2. QED
      BY <2>1, <3>1, CacheGeometry DEF Background
  <2>2. CASE EntryWritten \/ HookWritesSuper \/ HookSetsStart
    BY <2>2, EntryWrittenGeometry, SuperWrittenGeometry, HookSetsStartGeometry
  <2>3. QED
    BY <1>3, <2>1, <2>2 DEF WriterThread
<1>4. CASE Crash
  BY <1>4, CrashGeometry
<1>5. CASE UNCHANGED vars
  BY <1>5, CacheGeometry DEF vars, JournalSame
<1>6. QED
  BY <1>1, <1>2, <1>3, <1>4, <1>5 DEF Next

\* The first two invariants hold in all reachable states.
LEMMA StepJInv1 ==
    ASSUME JInv1, [Next]_vars
    PROVE  JInv1'
<1>1. Base'
  BY NextBase
<1>2. ASSUME ~flaw' PROVE \E h \in Logs : Geometry(h)'
  <2>1. ~flaw
    <3>1. flaw => flaw'
      BY DEF Next, Client, Inside, WriterThread, Lock, UnlockFailed, UnlockDone, FlushLog,
             FlushBlocks, Write, TooLarge, PrepareEntry, HaveSpace, WriteLogBlock, SetEnd,
             WriteSuperBlock, SetLogEnd, FlushDrive, AddEntry, EndEntry, ReplayNext,
             ReplayBlock, ReplayEnds, EntryWritten, HookWritesSuper, HookSetsStart, Crash,
             logVars, journalVars, vars
    <3>2. QED
      BY <1>2, <3>1
  <2>2. PICK g \in Logs : Geometry(g)
    BY <2>1 DEF JInv1
  <2>3. QED
    BY <1>2, <2>2, NextGeometry DEF JInv1
<1>3. QED
  BY <1>1, <1>2 DEF JInv1

\* They are an invariant of the specification.
LEMMA JInv1Holds == Spec => []JInv1
<1>1. Init => JInv1
  BY InitBase, InitGeometry DEF JInv1
<1>2. JInv1 /\ [Next]_vars => JInv1'
  BY StepJInv1
<1>3. QED
  BY <1>1, <1>2, PTL DEF Spec

\* The pointers into the log stay in the log, and so do the log entries.
THEOREM JournalTypeCorrect == Spec => []TypeOK
<1>1. JInv1 => TypeOK
  <2>1. SUFFICES ASSUME JInv1 PROVE TypeOK
    OBVIOUS
  <2>2. JournalTypes
    BY <2>1 DEF JInv1, Base
  <2>3. entries \in Seq(Entries)
    BY <2>2 DEF JournalTypes
  <2>4. \A i \in 1..Len(entries) : entries[i].id \in Ids /\ entries[i].length \in 1..LogSize
    BY <2>3, EntryTypes
  <2>5. super \in [start : 0..LogSize, end : 0..LogSize]
    BY <2>2 DEF JournalTypes, Pointers
  <2>6. superBlock \in [start : 0..LogSize, end : 0..LogSize]
    BY <2>2 DEF JournalTypes, Pointers
  <2>7. logStart \in 0..LogSize /\ logEnd \in 0..LogSize /\ at \in 0..LogSize
    BY <2>2 DEF JournalTypes
  <2>8. QED
    BY <2>4, <2>5, <2>6, <2>7 DEF TypeOK
<1>2. QED
  BY <1>1, JInv1Holds, PTL

\* The sync of _WriteTransactionToLog() frees the whole log: no entry is left that has a
\* reason to be there, and all hooks have returned.
THEOREM SyncFreesLogHolds == Spec => []SyncFreesLog
<1>1. JInv1 => SyncFreesLog
  <2>1. SUFFICES ASSUME Base, pc = "space", Idle PROVE FreeLogBlocks = LogSize
    BY DEF JInv1, SyncFreesLog
  <2>2. call = NoCall
    BY <2>1 DEF Idle
  <2>3. NoPrevious /\ events = <<>> /\ notifying = NoId
    BY <2>1, <2>2 DEF Base, SpaceOK, NoCall
  <2>4. Mover = NoId
    BY <2>1, <2>2 DEF Mover, Entering, Committing, NoCall
  <2>5. entries = <<>> /\ hook = "none"
    <3>1. entries \in Seq(Entries) /\ Tracked /\ Reasons
      BY <2>1 DEF Base, JournalTypes
    <3>2. hook = "none"
      BY <2>3, <3>1 DEF Tracked
    <3>3. SUFFICES ASSUME Len(entries) # 0 PROVE FALSE
      BY <3>1, <3>2
    <3>4. 1 \in 1..Len(entries)
      BY <3>1, <3>3
    <3>5. PICK i \in Ids : i = entries[1].id
      BY <3>1, <3>4, EntryTypes
    <3>6. Reason(i)
      BY <3>1, <3>4, <3>5 DEF Reasons
    <3>7. InPrevious(Cache, i) = {} /\ ~Pending(Cache, i)
      BY <2>3 DEF InPrevious, NoPrevious, Pending, Cache
    <3>8. QED
      BY <2>3, <2>4, <3>6, <3>7 DEF Reason, ReasonIn
  <2>6. logStart = logEnd
    BY <2>1, <2>5 DEF Base, SpaceOK
  <2>7. logStart \in 0..LogSize /\ logEnd \in 0..LogSize /\ LogSize \in Nat
    BY <2>1, JournalAssumption DEF Base, JournalTypes
  <2>8. QED
    BY <2>6, <2>7 DEF FreeLogBlocks
<1>2. QED
  BY <1>1, JInv1Holds, PTL

=============================================================================
