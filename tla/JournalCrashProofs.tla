-------------------------- MODULE JournalCrashProofs --------------------------
(***************************************************************************)
(* CrashSafe, the promise of the journal, for any set of blocks, any sizes *)
(* of the log and of a transaction, any number of transactions and of      *)
(* crashes.                                                                *)
(*                                                                         *)
(* The invariant adds two parts to those of JournalProofs.  Known is about *)
(* the memory: which contents of the volume, in history, the cache holds   *)
(* for each block, with and without the transaction that is running and    *)
(* its sub transaction.  Complete(g) is about the log whose arrays g       *)
(* numbers: what is not on the disk is in an array that its entry keeps in *)
(* the log, and the last array with a block has its last contents.         *)
(*                                                                         *)
(* From the invariant, the loop of ReplayLog() rebuilds one of the         *)
(* contents in history (ReplayLoop).                                       *)
(***************************************************************************)
EXTENDS JournalProofs

USE IdsAre DEF NoId, NoData, Current, Sync

-----------------------------------------------------------------------------
(***************************************************************************)
(* The third invariant, about contents: what a block holds in the eyes of  *)
(* the client, without the running transaction, without its sub            *)
(* transaction, and what the log and the disk hold of it.                  *)
(***************************************************************************)
SeenOf(r, d) == IF r.cached THEN r.current ELSE d
UndoneOf(r, d) == IF r.transaction = NoId THEN SeenOf(r, d) ELSE r.original
MainOf(r, d) ==
    IF r.transaction = NoId THEN SeenOf(r, d)
    ELSE IF r.parent = NoData THEN r.original
    ELSE IF r.parent = Current THEN r.current
    ELSE r.parent

\* A new transaction has changed nothing; a new sub transaction neither.
LEMMA StartedViews ==
    ASSUME NEW c, NEW r \in BlockType, ShapeOf(c, r), ~r.discard, NEW d, NEW s,
           s = IF r.transaction # NoId THEN StartedSub(r) ELSE r
    PROVE  /\ SeenOf(s, d) = SeenOf(r, d) /\ UndoneOf(s, d) = UndoneOf(r, d)
           /\ MainOf(s, d) = SeenOf(r, d)
<1>1. CASE r.transaction = NoId
  BY <1>1 DEF SeenOf, UndoneOf, MainOf
<1>2. CASE r.transaction # NoId
  <2>1. s = StartedSub(r)
    BY <1>2
  <2>2. /\ s.transaction = r.transaction /\ s.cached = r.cached /\ s.current = r.current
        /\ s.original = r.original /\ s.parent = Current
    BY <1>2, <2>1, StartedSubIs
  <2>3. r.cached
    BY <1>2 DEF ShapeOf, Absent, NewBlock
  <2>4. SeenOf(s, d) = r.current /\ SeenOf(r, d) = r.current
    BY <2>2, <2>3 DEF SeenOf
  <2>5. UndoneOf(s, d) = UndoneOf(r, d)
    BY <1>2, <2>2 DEF UndoneOf
  <2>6. MainOf(s, d) = s.current
    BY <1>2, <2>2 DEF MainOf
  <2>7. QED
    BY <2>2, <2>4, <2>5, <2>6
<1>3. QED
  BY <1>1, <1>2

ChangedTo(r, s, i, data) ==
    /\ r \in BlockType /\ r.cached /\ r.transaction \in {NoId, i} /\ r.current # NoData
    /\ r.transaction = NoId => r.parent = NoData
    /\ r.transaction = NoId /\ r.original # NoData => r.current = r.original
    /\ r.transaction # NoId => r.original # NoData
    /\ s.transaction = i /\ s.cached = r.cached /\ s.current = data
    /\ s.original = IF r.original = NoData THEN r.current ELSE r.original
    /\ s.parent = IF r.parent = Current THEN r.current ELSE r.parent

\* A block that is changed holds what it is given; an abort still brings back what it did.
LEMMA ChangedViews ==
    ASSUME NEW r, NEW s, NEW d, NEW i \in Ids, NEW data \in Values, ChangedTo(r, s, i, data)
    PROVE  /\ SeenOf(s, d) = data /\ UndoneOf(s, d) = UndoneOf(r, d)
           /\ MainOf(s, d) = MainOf(r, d)
<1> USE DEF ChangedTo
<1>2. r.current \in Values /\ i # NoId
  BY DEF BlockType
<1>3. r.current # Current
  BY <1>2, BlockCacheAssumption DEF Values
<1>4. CASE r.transaction = NoId
  <2>1. s.parent = NoData
    BY <1>4
  <2>2. s.original = r.current
    BY <1>4
  <2>3. QED
    BY <1>2, <1>4, <2>1, <2>2 DEF SeenOf, UndoneOf, MainOf
<1>5. CASE r.transaction = i
  BY <1>2, <1>3, <1>5 DEF SeenOf, UndoneOf, MainOf
<1>6. QED
  BY <1>4, <1>5

\* An abort brings it back.
LEMMA AbortedViews ==
    ASSUME NEW c, NEW r \in BlockType, ShapeOf(c, r), NEW d, NEW s,
           r.transaction # NoId => r.original # NoData,
           s = IF r.transaction # NoId THEN AbortedBlock(r) ELSE r
    PROVE  SeenOf(s, d) = UndoneOf(r, d) /\ UndoneOf(s, d) = UndoneOf(r, d)
<1>1. CASE r.transaction = NoId
  BY <1>1 DEF SeenOf, UndoneOf
<1>2. CASE r.transaction # NoId
  <2>1. s = AbortedBlock(r) /\ Undo(r) = r.original /\ r.cached
    BY <1>2 DEF ShapeOf, Absent, NewBlock, Undo
  <2>2. s.transaction = NoId /\ s.cached /\ s.current = r.original
    BY <1>2, <2>1, AbortedIs
  <2>3. QED
    BY <1>2, <2>2 DEF SeenOf, UndoneOf
<1>3. QED
  BY <1>1, <1>2

\* That of the sub transaction brings back what the parent has.
LEMMA SubAbortedViews ==
    ASSUME NEW c, NEW r \in BlockType, ShapeOf(c, r), NEW d, NEW s,
           r.transaction # NoId => r.original # NoData,
           s = IF r.transaction = NoId THEN r
               ELSE IF r.parent = NoData THEN LeftBlock(r) ELSE RestoredBlock(r)
    PROVE  SeenOf(s, d) = MainOf(r, d) /\ UndoneOf(s, d) = UndoneOf(r, d)
<1>1. CASE r.transaction = NoId
  BY <1>1 DEF SeenOf, UndoneOf, MainOf
<1>2. CASE r.transaction # NoId /\ r.parent = NoData
  <2>1. s = LeftBlock(r) /\ Undo(r) = r.original /\ r.cached
    BY <1>2 DEF ShapeOf, Absent, NewBlock, Undo
  <2>2. s.transaction = NoId /\ s.cached /\ s.current = r.original
    BY <1>2, <2>1, LeftIs
  <2>3. QED
    BY <1>2, <2>2 DEF SeenOf, UndoneOf, MainOf
<1>3. CASE r.transaction # NoId /\ r.parent # NoData
  <2>1. s = RestoredBlock(r) /\ r.cached
    BY <1>3 DEF ShapeOf, Absent, NewBlock
  <2>2. /\ s.transaction = r.transaction /\ s.cached /\ s.original = r.original
        /\ s.current = IF r.parent # Current THEN r.parent ELSE r.current
    BY <1>3, <2>1, RestoredIs
  <2>3. QED
    BY <1>3, <2>2 DEF SeenOf, UndoneOf, MainOf
<1>4. QED
  BY <1>1, <1>2, <1>3

\* Writing a block back changes nothing of it.
LEMMA DoneViews ==
    ASSUME NEW r \in BlockType, NEW d
    PROVE  /\ SeenOf(Done(r), d) = SeenOf(r, d) /\ MainOf(Done(r), d) = MainOf(r, d)
           /\ UndoneOf(Done(r), d) = UndoneOf(r, d)
           /\ Done(r).transaction = r.transaction /\ Done(r).parent = r.parent
           /\ Done(r).previous = NoId
<1>1. /\ Done(r).cached = r.cached /\ Done(r).current = r.current
      /\ Done(r).parent = r.parent /\ Done(r).transaction = r.transaction
      /\ Done(r).previous = NoId
      /\ r.transaction # NoId => Done(r).original = r.original
  BY DoneType
<1>2. QED
  BY <1>1 DEF SeenOf, UndoneOf, MainOf

\* What may be written of a block is what is left without the running transaction.
LEMMA DataView ==
    ASSUME NEW c, NEW r \in BlockType, ShapeOf(c, r), MayBeWritten(r), NEW d
    PROVE  /\ r.cached /\ Data(r) = UndoneOf(r, d)
           /\ r.transaction = NoId => SeenOf(r, d) = UndoneOf(r, d) /\ MainOf(r, d) = UndoneOf(r, d)
           /\ r.parent = NoData => MainOf(r, d) = UndoneOf(r, d)
<1>1. r.cached
  BY DEF ShapeOf, MayBeWritten, Absent, NewBlock
<1>2. CASE r.transaction = NoId
  <2>1. Data(r) = r.current
    BY <1>2 DEF ShapeOf, Data, WritesOriginal
  <2>2. QED
    BY <1>1, <1>2, <2>1 DEF SeenOf, UndoneOf, MainOf
<1>3. CASE r.transaction # NoId
  <2>1. Data(r) = r.original
    BY <1>3 DEF ShapeOf, Data, WritesOriginal, MayBeWritten
  <2>2. QED
    BY <1>1, <1>3, <2>1 DEF UndoneOf, MainOf
<1>4. QED
  BY <1>2, <1>3

\* Without a transaction, all are the same; without a sub transaction, there is no parent.
LEMMA PlainViews ==
    ASSUME NEW r, NEW d
    PROVE  /\ r.transaction = NoId =>
                SeenOf(r, d) = UndoneOf(r, d) /\ MainOf(r, d) = UndoneOf(r, d)
           /\ r.parent = NoData => MainOf(r, d) = UndoneOf(r, d)
           /\ r.parent = Current /\ r.cached => MainOf(r, d) = SeenOf(r, d)
           /\ ~r.cached /\ r.transaction = NoId => SeenOf(r, d) = d
BY DEF SeenOf, UndoneOf, MainOf

Seen(b) == SeenOf(block[b], disk[b])
Undone(b) == UndoneOf(block[b], disk[b])
InMain(b) == MainOf(block[b], disk[b])
Target(b) == IF Mover = NoId THEN Undone(b) ELSE IF Parting THEN InMain(b) ELSE Seen(b)
Newest == history[Len(history)]
Before == history[Len(history) - 1]

\* The journal knows of the sub transaction.
SubKnown ==
    /\ hasSub => unwritten
    /\ pc \in {"inside", "write", "failed"} /\ call.op # "detach" =>
            (hasSub <=> transaction[id].hasSub)
    /\ call.op = "detach" \/ pc \in {"space", "log"} \cup Entering => ~hasSub

SubRuns == id \in Ids /\ Open(id) /\ transaction[id].hasSub /\ ~Committing(call.op)

\* Where the transaction in the log counts as safe, and where a client transaction is
\* finished, but not its batch.
Safe == pc \in {"add", "ending"} \/ Committing(call.op)
SubWaits ==
    \/ pc \in {"write", "failed"}
    \/ pc \in {"free", "flush log", "space", "log", "super", "end", "flush"} /\ SubRuns

Views ==
    /\ history \in Seq([Blocks -> Values]) /\ history # <<>>
    /\ pc \notin {"inside", "replay"} => \A b \in Blocks : Seen(b) = Newest[b]
    /\ pc # "replay" /\ ~Safe => \A b \in Blocks : Undone(b) = history[1][b]
    /\ pc = "inside" => \A b \in Blocks : InMain(b) = Newest[b]
    /\ SubWaits => Len(history) >= 2 /\ \A b \in Blocks : InMain(b) = Before[b]
    /\ Safe => \A b \in Blocks : Target(b) = history[1][b]
    /\ pc \in {"add", "ending"} /\ Parting => Len(history) = 2

\* What a writer has written is on the disk.
WrittenBack == \A w \in Writers : \A b \in written[w] : disk[b] = Data(block[b])

Known == SubKnown /\ Views /\ WrittenBack

\* The last of the arrays before q that have b has it as its j-th block.
LastAt(g, q, b, k, j) ==
    /\ j \in 1..Len(g.chunk[k].runs) /\ g.chunk[k].runs[j] = b
    /\ \A l \in k + 1..q - 1 : \A i \in 1..Len(g.chunk[l].runs) : g.chunk[l].runs[i] # b

\* What the log has of b, up to q, is v; it is in an array from p on that is part of the
\* entry of i.
Latest(g, q, b, v) ==
    \A k \in g.s..q - 1 : \A j \in 1..Len(g.chunk[k].runs) :
        LastAt(g, q, b, k, j) => g.chunk[k].data[j] = v
InLog(g, p, q, b, i) ==
    \E k \in p..q - 1 : \E j \in 1..Len(g.chunk[k].runs) :
        LastAt(g, q, b, k, j) /\ g.chunk[k].owner = i

\* The log and the disk together hold the transactions that are finished and, as soon as
\* its entry is in the log, the one being written: what is not on the disk is in an array that
\* its log entry keeps there.
Holds(g) ==
    pc # "replay" => \A b \in Blocks :
        /\ Latest(g, g.f, b, Target(b))
        /\ b \in Moving => InLog(g, g.sb, g.f, b, Mover)
        /\ b \notin Moving =>
                disk[b] = Target(b) \/ InLog(g, g.sb, g.f, b, block[b].previous)

\* Without the entry whose superblock is not written yet, they hold what was before.
HeldBefore(g) ==
    pc = "super" => \A b \in Blocks :
        /\ Latest(g, g.e, b, Undone(b))
        /\ disk[b] = Undone(b) \/ InLog(g, g.sb, g.e, b, block[b].previous)

Has(g, p, q, b) ==
    \E k \in p..q - 1 : \E j \in 1..Len(g.chunk[k].runs) : g.chunk[k].runs[j] = b

\* A replay finds one of the contents that the volume may have after a crash.
Replayable(g, v) ==
    \A b \in Blocks : /\ Latest(g, g.x, b, v[b])
                      /\ disk[b] = v[b] \/ Has(g, g.s, g.x, b)
HeldReplay(g) == pc = "replay" => \E n \in 1..Len(history) : Replayable(g, history[n])

\* Whose arrays are in the log.
Owners(g) ==
    pc # "replay" => \A k \in g.sb..g.f - 1 : LET i == g.chunk[k].owner IN
        i \in Ids /\ i < nextId /\ g.from[i] <= k /\ (Open(i) => i = Mover)

Complete(g) == Holds(g) /\ HeldBefore(g) /\ HeldReplay(g) /\ Owners(g)

\* Steps that change nothing of what the log and the disk have to hold; blocks may be
\* written.
SameContents ==
    /\ pc # "replay" /\ pc' # "replay" /\ (pc' = "super" => pc = "super")
    /\ Moving' = Moving /\ (Moving = {} \/ Mover' = Mover)
    /\ \A b \in Blocks :
        /\ Undone(b)' = Undone(b) /\ Target(b)' = Target(b)
        /\ \/ disk'[b] = disk[b] /\ block'[b].previous = block[b].previous
           \/ disk'[b] = Undone(b) /\ (b \notin Moving => disk'[b] = Target(b))
SameLog(g, h) ==
    /\ h.chunk = g.chunk /\ h.from = g.from /\ h.f = g.f /\ h.sb = g.sb
    /\ g.s \in Nat /\ h.s \in Nat /\ g.s <= h.s
    /\ pc' = "super" => h.e = g.e
SameOwners ==
    /\ nextId \in Nat /\ nextId' \in Nat /\ nextId <= nextId'
    /\ \A i \in Ids : Open(i)' => (Open(i) /\ (i = Mover => Mover' = Mover)) \/ i >= nextId

\* They keep the third invariant.
LEMMA SameHolds ==
    ASSUME NEW g, NEW h, SameContents, SameLog(g, h), Holds(g)
    PROVE  Holds(h)'
<1> SUFFICES ASSUME NEW b \in Blocks
             PROVE  /\ Latest(h, h.f, b, Target(b)')
                    /\ b \in Moving' => InLog(h, h.sb, h.f, b, Mover')
                    /\ b \notin Moving' =>
                            disk'[b] = Target(b)' \/ InLog(h, h.sb, h.f, b, block'[b].previous)
  BY DEF Holds
<1>1. \A q, k, j : LastAt(h, q, b, k, j) <=> LastAt(g, q, b, k, j)
  BY DEF LastAt, SameLog
<1>2. \A p, q, i : InLog(g, p, q, b, i) => InLog(h, p, q, b, i)
  BY <1>1 DEF InLog, SameLog
<1>3. \A k \in h.s..h.f - 1 : k \in g.s..g.f - 1
  BY DEF SameLog
<1>4. \A v : Latest(g, g.f, b, v) => Latest(h, h.f, b, v)
  BY <1>1, <1>3 DEF Latest, SameLog
<1>5. QED
  BY <1>2, <1>4 DEF Holds, SameContents, SameLog

\* The same, before the superblock is written.
LEMMA SameHeldBefore ==
    ASSUME NEW g, NEW h, SameContents, SameLog(g, h), HeldBefore(g)
    PROVE  HeldBefore(h)'
<1> SUFFICES ASSUME NEW b \in Blocks, pc' = "super"
             PROVE  /\ Latest(h, h.e, b, Undone(b)')
                    /\ disk'[b] = Undone(b)' \/ InLog(h, h.sb, h.e, b, block'[b].previous)
  BY DEF HeldBefore
<1>1. \A q, k, j : LastAt(h, q, b, k, j) <=> LastAt(g, q, b, k, j)
  BY DEF LastAt, SameLog
<1>2. \A p, q, i : InLog(g, p, q, b, i) => InLog(h, p, q, b, i)
  BY <1>1 DEF InLog, SameLog
<1>3. h.e = g.e
  BY DEF SameLog
<1>4. \A k \in h.s..h.e - 1 : k \in g.s..g.e - 1
  BY <1>3 DEF SameLog
<1>5. \A v : Latest(g, g.e, b, v) => Latest(h, h.e, b, v)
  BY <1>1, <1>3, <1>4 DEF Latest, SameLog
<1>6. QED
  BY <1>2, <1>3, <1>5 DEF HeldBefore, SameContents, SameLog

\* And whose the arrays are.
LEMMA SameOwnersKept ==
    ASSUME NEW g \in Logs, NEW h, pc # "replay", SameLog(g, h), SameOwners, Owners(g)
    PROVE  Owners(h)'
<1> SUFFICES ASSUME NEW k \in g.sb..g.f - 1, NEW i, i = g.chunk[k].owner
             PROVE  i \in Ids /\ i < nextId' /\ g.from[i] <= k /\ (Open(i)' => i = Mover')
  BY DEF Owners, SameLog
<1>1. i \in Ids /\ i < nextId /\ g.from[i] <= k /\ (Open(i) => i = Mover)
  BY DEF Owners
<1>2. i \in Nat
  BY <1>1
<1>3. QED
  BY <1>1, <1>2 DEF SameOwners

\* Taken together.
LEMMA SameContentsKept ==
    ASSUME NEW g \in Logs, NEW h, SameContents, SameLog(g, h), SameOwners, Complete(g)
    PROVE  Complete(h)'
<1>1. Holds(h)' /\ HeldBefore(h)'
  BY SameHolds, SameHeldBefore DEF Complete
<1>2. Owners(h)'
  BY SameOwnersKept DEF Complete, SameContents
<1>3. HeldReplay(h)'
  BY DEF HeldReplay, SameContents
<1>4. QED
  BY <1>1, <1>2, <1>3 DEF Complete

\* Steps of whoever holds the lock, or while he waits, that change no contents.
Onward ==
    \/ pc' = pc
    \/ pc = "free" /\ pc' = "flush log"
    \/ pc \in {"write", "flush log", "space"} /\ pc' \in {"space", "log"}
    \/ pc = "flush log" /\ pc' = "free"
    \/ pc = "write" /\ pc' = "failed"
    \/ pc = "super" /\ pc' = "end"
    \/ pc = "end" /\ pc' = "flush"
    \/ pc = "add" /\ pc' = "ending"

\* Steps that change nothing of the contents, and nothing of what they have to be.
SameViews ==
    \A b \in Blocks : /\ Seen(b)' = Seen(b) /\ Undone(b)' = Undone(b)
                      /\ InMain(b)' = InMain(b) /\ Target(b)' = Target(b)
SamePlaces ==
    /\ history' = history /\ pc # "replay" /\ pc' # "replay" /\ Onward
    /\ Committing(call'.op) <=> Committing(call.op)
    /\ SubRuns' => SubRuns
    /\ Parting' => Parting

\* They keep the views.
LEMMA SameViewsKept ==
    ASSUME Views, SameViews, SamePlaces
    PROVE  Views'
<1>1. /\ history' \in Seq([Blocks -> Values]) /\ history' # <<>>
      /\ Newest' = Newest /\ Before' = Before /\ history'[1] = history[1]
      /\ Len(history') = Len(history)
  BY DEF Views, SamePlaces, Newest, Before
<1>2. /\ pc' = "inside" <=> pc = "inside"
      /\ pc' # "replay" /\ pc # "replay"
      /\ pc' \in {"add", "ending"} <=> pc \in {"add", "ending"}
      /\ pc' \in {"write", "failed"} => pc \in {"write", "failed"}
      /\ pc' \in {"free", "flush log", "space", "log", "super", "end", "flush"} =>
            pc \in {"write", "free", "flush log", "space", "log", "super", "end", "flush"}
  BY DEF SamePlaces, Onward
<1>3. Safe' <=> Safe
  BY <1>2 DEF Safe, SamePlaces
<1>4. SubWaits' => SubWaits
  BY <1>2 DEF SubWaits, SamePlaces
<1>5. pc' \notin {"inside", "replay"} => \A b \in Blocks : Seen(b)' = Newest'[b]
  BY <1>1, <1>2 DEF Views, SameViews
<1>6. pc' # "replay" /\ ~Safe' => \A b \in Blocks : Undone(b)' = history'[1][b]
  BY <1>1, <1>2, <1>3 DEF Views, SameViews
<1>7. pc' = "inside" => \A b \in Blocks : InMain(b)' = Newest'[b]
  BY <1>1, <1>2 DEF Views, SameViews
<1>8. SubWaits' => Len(history') >= 2 /\ \A b \in Blocks : InMain(b)' = Before'[b]
  BY <1>1, <1>4 DEF Views, SameViews
<1>9. Safe' => \A b \in Blocks : Target(b)' = history'[1][b]
  BY <1>1, <1>3 DEF Views, SameViews
<1>10. pc' \in {"add", "ending"} /\ Parting' => Len(history') = 2
  BY <1>1, <1>2 DEF Views, SamePlaces
<1>11. QED
  BY <1>1, <1>5, <1>6, <1>7, <1>8, <1>9, <1>10 DEF Views

\* What writers have written stays written, if they do not write and nobody changes it.
LEMMA StayWritten ==
    ASSUME WrittenBack, \A w \in Writers : written'[w] \subseteq written[w],
           \A w \in Writers : \A b \in written'[w] : block'[b] = block[b] /\ disk'[b] = disk[b]
    PROVE  WrittenBack'
BY DEF WrittenBack

\* What the journal knows of the sub transaction stays known.
SameSub ==
    /\ call'.op = "detach" <=> call.op = "detach"
    /\ unwritten' <=> unwritten
    /\ \/ (hasSub' <=> hasSub) /\ (pc' \in {"space", "log"} => pc \in {"space", "log"})
       \/ ~hasSub' /\ pc' \in {"space", "log"}
    /\ pc \in {"inside", "write", "failed"} /\ call.op # "detach" =>
            (transaction'[id'].hasSub <=> transaction[id].hasSub)

\* Such steps keep what the journal knows of the sub transaction.
LEMMA SubKnownStays ==
    ASSUME SubKnown, SameSub, Onward
    PROVE  SubKnown'
<1>1. hasSub' => unwritten'
  BY DEF SubKnown, SameSub
<1>2. pc' \in {"inside", "write", "failed"} /\ call'.op # "detach" =>
            (hasSub' <=> transaction'[id'].hasSub)
  BY DEF SubKnown, SameSub, Onward
<1>3. call'.op = "detach" \/ pc' \in {"space", "log"} \cup Entering => ~hasSub'
  BY DEF SubKnown, SameSub, Onward, Entering
<1>4. QED
  BY <1>1, <1>2, <1>3 DEF SubKnown

\* Steps of the journal that leave the cache alone.
Idling ==
    /\ UNCHANGED cacheVars /\ id' = id /\ pc # "replay" /\ pc' # "replay"
    /\ pc \in Entering <=> pc' \in Entering
    /\ pc' = "super" => pc = "super"

\* Such steps change nothing of what the log and the disk have to hold, nor of the views.
LEMMA IdlingSame ==
    ASSUME Inv1, Idling
    PROVE  /\ SameContents /\ SameOwners /\ SameViews /\ Mover' = Mover
           /\ Parting' <=> Parting
           /\ SubRuns' <=> SubRuns
           /\ WrittenBack => WrittenBack'
<1>1. UNCHANGED <<block, transaction, nextId, events, notifying, toWrite, written, call, disk, id>>
  BY DEF Idling, cacheVars
<1>2. Mover' = Mover
  BY <1>1 DEF Idling, Mover
<1>3. Parting' <=> Parting
  BY <1>1, StayEntry DEF Idling, Parting
<1>4. Moving' = Moving
  BY <1>1, <1>2, <1>3 DEF Moving
<1>5. \A b \in Blocks : /\ Seen(b)' = Seen(b) /\ Undone(b)' = Undone(b)
                        /\ InMain(b)' = InMain(b)
  BY <1>1 DEF Seen, Undone, InMain
<1>6. \A b \in Blocks : Target(b)' = Target(b)
  BY <1>2, <1>3, <1>5 DEF Target
<1>7. SameContents
  BY <1>1, <1>2, <1>4, <1>5, <1>6 DEF SameContents, Idling
<1>8. SameOwners
  <2>1. nextId \in Nat
    BY InvParts
  <2>2. QED
    BY <1>1, <1>2, <2>1 DEF SameOwners, Open
<1>9. SubRuns' <=> SubRuns
  BY <1>1 DEF SubRuns, Open
<1>10. WrittenBack => WrittenBack'
  BY <1>1, StayWritten
<1>11. SameViews
  BY <1>5, <1>6 DEF SameViews
<1>12. QED
  BY <1>2, <1>3, <1>7, <1>8, <1>9, <1>10, <1>11

\* They keep what is known.
LEMMA IdlingKnown ==
    ASSUME Inv1, Known, Idling, Onward, history' = history, SameSub
    PROVE  Known'
<1>1. /\ SameViews /\ WrittenBack' /\ (Parting' <=> Parting) /\ (SubRuns' <=> SubRuns)
  BY IdlingSame DEF Known
<1>2. SamePlaces
  BY <1>1 DEF SamePlaces, Idling, cacheVars
<1>3. Views'
  BY <1>1, <1>2, SameViewsKept DEF Known
<1>4. SubKnown'
  BY SubKnownStays DEF Known
<1>5. QED
  BY <1>1, <1>3, <1>4 DEF Known

\* So do the quiet steps of the cache.
LEMMA QuietKnown ==
    ASSUME Base, Known, Quiet, CallFrame, pc # "replay",
           UNCHANGED <<id, pc, unwritten, hasSub, history>>, WrittenBack',
           \A b \in Blocks : /\ Seen(b)' = Seen(b) /\ Undone(b)' = Undone(b)
                             /\ InMain(b)' = InMain(b)
    PROVE  Known' /\ SameViews
<1>1. Mover' = Mover /\ (Parting' <=> Parting) /\ Control
  BY QuietMoving DEF Base
<1>2. SameViews
  BY <1>1 DEF SameViews, Target
<1>3. Committing(call'.op) <=> Committing(call.op)
  BY DEF CallFrame, Committing, NoCall
<1>4. SubRuns' => SubRuns
  BY <1>3 DEF SubRuns, Quiet, SameOpen
<1>5. Views'
  <2>1. SamePlaces
    BY <1>1, <1>3, <1>4 DEF SamePlaces, Onward
  <2>2. QED
    BY <1>2, <2>1, SameViewsKept DEF Known
<1>6. SubKnown'
  <2>1. call'.op = "detach" <=> call.op = "detach"
    BY DEF CallFrame, NoCall
  <2>2. pc \in {"inside", "write", "failed"} /\ call.op # "detach" => id \in Ids /\ Open(id)
    BY <1>1 DEF Control, Kept, Owning
  <2>3. pc \in {"inside", "write", "failed"} /\ call.op # "detach" =>
            (transaction'[id'].hasSub <=> transaction[id].hasSub)
    BY <2>2 DEF Quiet, SameOpen
  <2>4. SameSub
    BY <2>1, <2>3 DEF SameSub
  <2>5. QED
    BY <2>4, SubKnownStays DEF Known, Onward
<1>7. QED
  BY <1>2, <1>5, <1>6 DEF Known

\* While no transaction is in the log unfinished, nothing moves.
Calm == pc \notin Entering /\ ~Committing(call.op)
Resting ==
    Mover = NoId /\ Moving = {} /\ ~Parting /\ \A b \in Blocks : Target(b) = Undone(b)

\* Then what the log and the disk have to hold is what the cache has without its transaction.
LEMMA CalmRests == Calm => Resting
<1> SUFFICES ASSUME Calm PROVE Resting
  OBVIOUS
<1>1. Mover = NoId /\ ~Parting
  BY DEF Calm, Mover, Parting, Committing
<1>2. Moving = {}
  BY <1>1 DEF Moving
<1>3. QED
  BY <1>1, <1>2 DEF Resting, Target

\* Steps that change neither blocks nor transactions.
Untouched == UNCHANGED <<block, transaction, nextId, disk, written>>

\* All views of the blocks stay.
LEMMA UntouchedViews ==
    ASSUME Untouched, Known
    PROVE  /\ WrittenBack'
           /\ \A b \in Blocks : /\ Seen(b)' = Seen(b) /\ Undone(b)' = Undone(b)
                                /\ InMain(b)' = InMain(b)
<1>1. WrittenBack'
  BY StayWritten DEF Untouched, Known
<1>2. QED
  BY <1>1 DEF Untouched, Seen, Undone, InMain

\* They keep who owns what.
LEMMA UntouchedOwners ==
    ASSUME Inv1, UNCHANGED <<transaction, nextId>>, Mover' = Mover
    PROVE  SameOwners
<1>1. nextId \in Nat
  BY InvParts
<1>2. QED
  BY <1>1 DEF SameOwners, Open

\* Of the cache's thread and the hook.
LEMMA UntouchedKnown ==
    ASSUME Base, Known, Untouched, CallFrame, pc # "replay",
           UNCHANGED <<id, pc, unwritten, hasSub, history>>
    PROVE  Known' /\ SameContents /\ SameOwners
<1>1. Quiet
  BY QuietSame DEF Untouched
<1>2. Known' /\ SameViews
  BY <1>1, UntouchedViews, QuietKnown
<1>3. Mover' = Mover /\ Moving' = Moving
  BY <1>1, QuietMoving DEF Base
<1>4. SameContents
  BY <1>2, <1>3 DEF SameContents, SameViews, Untouched
<1>5. SameOwners
  BY <1>3, UntouchedOwners DEF Base, Untouched
<1>6. QED
  BY <1>2, <1>4, <1>5

\* At the beginning of a sync.
LEMMA SyncKnown ==
    ASSUME Base, Known, Untouched, UNCHANGED <<id, history, unwritten>>,
           call = NoCall, call'.op \in {"sync", "wait"},
           pc \in {"free", "write", "flush log"}, pc' \in {"free", "space"},
           pc' = "free" => pc = "free" /\ (hasSub' <=> hasSub), pc' = "space" => ~hasSub' /\ pc # "free"
    PROVE  Known' /\ SameContents /\ SameOwners
<1>1. Calm
  BY DEF Calm, Committing, NoCall, Entering
<1>2. Calm'
  BY DEF Calm, Committing, Entering
<1>3. Resting /\ Resting'
  BY <1>1, <1>2, CalmRests, PTL
<1>4. SameViews
  BY <1>3, UntouchedViews DEF SameViews, Resting
<1>5. SamePlaces
  <2>1. SubRuns' => SubRuns
    BY <1>1 DEF SubRuns, Open, Untouched, Calm
  <2>2. QED
    BY <1>1, <1>2, <1>3, <2>1 DEF SamePlaces, Onward, Calm, Resting
<1>6. Views'
  BY <1>4, <1>5, SameViewsKept DEF Known
<1>7. SubKnown'
  BY DEF Known, SubKnown, Entering
<1>8. Known'
  BY <1>6, <1>7, UntouchedViews DEF Known
<1>9. SameContents
  BY <1>3, <1>4 DEF SameContents, SameViews, Untouched, Resting
<1>10. SameOwners
  BY <1>3, UntouchedOwners DEF Base, Untouched, Resting
<1>11. QED
  BY <1>8, <1>9, <1>10

\* A writer writes one block.
WroteOne(w, b) ==
    /\ b \in Blocks /\ MayBeWritten(block[b]) /\ block[b] \in BlockType /\ ShapeOf(Cache, block[b])
    /\ disk' = [disk EXCEPT ![b] = Data(block[b])] /\ disk \in [Blocks -> Values]
    /\ \A v \in Writers : written'[v] \subseteq written[v] \cup {b}
    /\ UNCHANGED <<block, transaction, nextId, call>>

\* WriteBlock() is such a step.
LEMMA WroteOneIs ==
    ASSUME Inv1, NEW w \in Writers, WriteBlock(w)
    PROVE  \E b : WroteOne(w, b)
<1>1. toWrite \in [Writers -> SUBSET Blocks] /\ written \in [Writers -> SUBSET Blocks]
      /\ disk \in [Blocks -> Values] /\ WritersOK
  BY DEF Inv1, Types, OtherTypes
<1>2. PICK b \in toWrite[w] : b = Min(toWrite[w])
  <2>1. toWrite[w] \in SUBSET Nat /\ toWrite[w] # {}
    BY <1>1, BlockCacheAssumption DEF WriteBlock
  <2>2. QED
    BY <2>1, MinIn
<1>3. /\ disk' = [disk EXCEPT ![b] = Data(block[b])]
      /\ written' = [written EXCEPT ![w] = written[w] \cup {b}]
      /\ UNCHANGED <<block, transaction, nextId, call>>
  BY <1>2 DEF WriteBlock
<1>4. b \in Blocks /\ b \in BusyWriting
  BY <1>1, <1>2 DEF BusyWriting, Busy, Writers
<1>5. MayBeWritten(block[b]) /\ block[b] \in BlockType /\ ShapeOf(Cache, block[b])
  BY <1>1, <1>4, InvParts DEF WritersOK
<1>6. \A v \in Writers : written'[v] \subseteq written[v] \cup {b}
  BY <1>1, <1>3
<1>7. QED
  BY <1>1, <1>3, <1>4, <1>5, <1>6 DEF WroteOne

\* It puts on the disk what the block is without its transaction; no view changes.
LEMMA WroteOneViews ==
    ASSUME NEW w, NEW b, WroteOne(w, b), WrittenBack
    PROVE  /\ WrittenBack' /\ disk'[b] = Undone(b)
           /\ \A a \in Blocks : /\ Seen(a)' = Seen(a) /\ Undone(a)' = Undone(a)
                                /\ InMain(a)' = InMain(a)
                                /\ a # b => disk'[a] = disk[a]
           /\ block[b].transaction = NoId => Seen(b) = Undone(b) /\ InMain(b) = Undone(b)
           /\ block[b].parent = NoData => InMain(b) = Undone(b)
<1>1. /\ b \in Blocks /\ disk'[b] = Data(block[b]) /\ UNCHANGED <<block>>
      /\ \A a \in Blocks : a # b => disk'[a] = disk[a]
  BY DEF WroteOne
<1>2. block[b].cached /\ Data(block[b]) = UndoneOf(block[b], disk[b])
  BY DataView DEF WroteOne
<1>3. /\ block[b].transaction = NoId => Seen(b) = Undone(b) /\ InMain(b) = Undone(b)
      /\ block[b].parent = NoData => InMain(b) = Undone(b)
  BY PlainViews DEF Seen, Undone, InMain
<1>4. disk'[b] = Undone(b)
  BY <1>1, <1>2 DEF Undone
<1>5. ASSUME NEW a \in Blocks
      PROVE  Seen(a)' = Seen(a) /\ Undone(a)' = Undone(a) /\ InMain(a)' = InMain(a)
  <2>1. CASE a = b
    BY <1>1, <1>2, <2>1 DEF Seen, Undone, InMain, SeenOf, UndoneOf, MainOf
  <2>2. CASE a # b
    BY <1>1, <2>2 DEF Seen, Undone, InMain
  <2>3. QED
    BY <2>1, <2>2
<1>6. WrittenBack'
  <2>1. \A v \in Writers : written'[v] \subseteq written[v] \cup {b}
    BY DEF WroteOne
  <2>2. ASSUME NEW v \in Writers, NEW a \in written'[v]
        PROVE  disk'[a] = Data(block[a])
    <3>1. CASE a = b
      BY <1>1, <3>1
    <3>2. CASE a # b
      <4>1. a \in written[v] /\ disk[a] = Data(block[a])
        BY <2>1, <3>2 DEF WrittenBack
      <4>2. disk' = [disk EXCEPT ![b] = Data(block[b])]
        BY DEF WroteOne
      <4>3. disk'[a] = disk[a]
        BY <3>2, <4>2 DEF WroteOne
      <4>4. QED
        BY <4>1, <4>3
    <3>3. QED
      BY <3>1, <3>2
  <2>3. QED
    BY <1>1, <2>2 DEF WrittenBack
<1>7. QED
  BY <1>1, <1>3, <1>4, <1>5, <1>6

\* The steps between which nothing but the log and the superblock changes.
LEMMA IdleKnown ==
    ASSUME Base, Known,
           \/ FlushLog \/ TooLarge \/ HaveSpace \/ WriteLogBlock \/ WriteSuperBlock
           \/ SetLogEnd \/ AddEntry
           \/ PrepareEntry /\ pc' = "log"
    PROVE  Known' /\ SameContents /\ SameOwners
<1>1. /\ Idling /\ Onward /\ history' = history /\ UNCHANGED <<call, unwritten, transaction, id>>
      /\ \/ hasSub' = hasSub /\ (pc' \in {"space", "log"} => pc \in {"space", "log"})
         \/ hasSub' = FALSE /\ pc' \in {"space", "log"}
  <2>1. CASE FlushLog \/ TooLarge
    BY <2>1 DEF FlushLog, TooLarge, Idling, Onward, Entering, cacheVars
  <2>2. CASE HaveSpace \/ (PrepareEntry /\ pc' = "log")
    BY <2>2 DEF HaveSpace, PrepareEntry, Idling, Onward, Entering, cacheVars
  <2>3. CASE WriteLogBlock \/ WriteSuperBlock
    BY <2>3 DEF WriteLogBlock, WriteSuperBlock, Idling, Onward, Entering, cacheVars
  <2>4. CASE SetLogEnd \/ AddEntry
    BY <2>4 DEF SetLogEnd, AddEntry, Idling, Onward, Entering, cacheVars
  <2>5. QED
    BY <2>1, <2>2, <2>3, <2>4
<1>2. SameSub
  BY <1>1 DEF SameSub
<1>3. Inv1
  BY DEF Base
<1>4. QED
  BY <1>1, <1>2, <1>3, IdlingSame, IdlingKnown

\* A sync that waits goes on.
LEMMA TakeEventFrame ==
    ASSUME Inv1, TakeEvent
    PROVE  CallFrame
<1>1. events \in Seq(Ids \cup {Sync}) /\ SyncOK
  BY InvParts DEF Inv1
<1>2. PICK n \in Nat \ {0} : n = Len(events) /\ Head(events) = events[1]
  BY <1>1, TailEntries DEF TakeEvent
<1>3. CASE Head(events) = Sync
  BY <1>1, <1>2, <1>3 DEF SyncOK, CallFrame, TakeEvent
<1>4. CASE Head(events) # Sync
  BY <1>4 DEF CallFrame, TakeEvent
<1>5. QED
  BY <1>3, <1>4

\* The background writer takes blocks, a hook starts and runs.
LEMMA AwayKnown ==
    ASSUME Base, Known,
           \/ (BackgroundTakes \/ TakeEvent) /\ JournalSame
           \/ EntryWritten \/ HookWritesSuper \/ HookSetsStart
    PROVE  Known' /\ SameContents /\ SameOwners
<1>1. Replaying /\ Inv1 /\ Tracked
  BY DEF Base
<1>2. CASE BackgroundTakes /\ JournalSame
  <2>1. Untouched /\ CallFrame /\ UNCHANGED <<id, pc, unwritten, hasSub, history>>
    BY <1>2 DEF BackgroundTakes, Untouched, CallFrame, JournalSame, journalVars
  <2>2. pc # "replay"
    <3>1. \E b \in Blocks : block[b].previous # NoId
      BY <1>2 DEF BackgroundTakes
    <3>2. QED
      BY <1>1, <3>1, NotReplaying
  <2>3. QED
    BY <2>1, <2>2, UntouchedKnown
<1>3. CASE TakeEvent /\ JournalSame
  <2>1. Untouched /\ UNCHANGED <<id, pc, unwritten, hasSub, history>>
    BY <1>3 DEF TakeEvent, Untouched, JournalSame, journalVars
  <2>2. pc # "replay"
    BY <1>1, <1>3, NotReplaying DEF TakeEvent
  <2>3. CallFrame
    BY <1>1, <1>3, TakeEventFrame
  <2>4. QED
    BY <2>1, <2>2, <2>3, UntouchedKnown
<1>4. CASE EntryWritten \/ HookWritesSuper \/ HookSetsStart
  <2>1. Untouched /\ CallFrame /\ UNCHANGED <<id, pc, unwritten, hasSub, history>>
    BY <1>4 DEF EntryWritten, HookWritesSuper, HookSetsStart, HookReturns, Untouched, CallFrame,
                cacheVars
  <2>2. pc # "replay"
    <3>1. notifying # NoId
      BY <1>1, <1>4 DEF EntryWritten, HookWritesSuper, HookSetsStart, Tracked
    <3>2. QED
      BY <1>1, <3>1, NotReplaying
  <2>3. QED
    BY <2>1, <2>2, UntouchedKnown
<1>5. QED
  BY <1>2, <1>3, <1>4

\* A sync begins that is not that of UnlockDone.
LEMMA SyncsKnown ==
    ASSUME Base, Known, FlushBlocks \/ (PrepareEntry /\ pc' = "space")
    PROVE  Known' /\ SameContents /\ SameOwners
<1>1. CASE FlushBlocks
  <2>1. /\ pc = "free" /\ call = NoCall /\ SyncAll /\ UNCHANGED disk
        /\ UNCHANGED <<id, history, unwritten, hasSub, pc>>
    BY <1>1 DEF FlushBlocks, SyncAll, Idle, Call, journalVars
  <2>2. PICK S : Call("sync", NoId, FALSE, S)
    BY <2>1 DEF SyncAll
  <2>3. Untouched /\ call'.op \in {"sync", "wait"}
    BY <2>2, SyncStartsIs DEF Untouched
  <2>4. QED
    BY <2>1, <2>3, SyncKnown
<1>2. CASE PrepareEntry /\ pc' = "space"
  <2>1. /\ pc \in {"write", "flush log"} /\ call = NoCall /\ SyncTransaction(id) /\ hasSub' = FALSE
        /\ UNCHANGED <<id, history, unwritten>>
    BY <1>2 DEF PrepareEntry, TransactionLock, Idle
  <2>2. PICK S : Call("sync", id, FALSE, S)
    BY <2>1 DEF SyncTransaction
  <2>3. Untouched /\ call'.op \in {"sync", "wait"}
    BY <2>2, SyncStartsIs DEF Untouched
  <2>4. QED
    BY <1>2, <2>1, <2>3, SyncKnown
<1>3. QED
  BY <1>1, <1>2

-----------------------------------------------------------------------------
(* Steps of the client's transactions: nothing moves *)

CalmStep ==
    /\ Calm /\ Calm' /\ pc # "replay" /\ pc' # "replay" /\ disk' = disk
    /\ \A b \in Blocks : Undone(b)' = Undone(b) /\ block'[b].previous = block[b].previous
    /\ nextId \in Nat /\ nextId' \in Nat /\ nextId <= nextId'
    /\ \A i \in Ids : Open(i)' => Open(i) \/ i >= nextId

\* What has to be held stays the same.
LEMMA CalmSame ==
    ASSUME CalmStep
    PROVE  /\ SameContents /\ SameOwners
           /\ \A b \in Blocks : Target(b)' = Target(b)
<1>1. Resting /\ Resting'
  BY CalmRests, PTL DEF CalmStep
<1>2. pc' # "super"
  BY DEF CalmStep, Calm, Entering
<1>3. \A b \in Blocks : Target(b)' = Target(b)
  BY <1>1 DEF CalmStep, Resting
<1>4. SameContents
  BY <1>1, <1>2, <1>3 DEF SameContents, CalmStep, Resting
<1>5. SameOwners
  BY <1>1 DEF SameOwners, CalmStep, Resting
<1>6. QED
  BY <1>3, <1>4, <1>5

\* When the client is idle, and afterwards.
LEMMA IdleCalm ==
    ASSUME Known, call = NoCall, pc \notin Entering, pc # "replay"
    PROVE  /\ Calm /\ ~Safe /\ \A b \in Blocks : Undone(b) = history[1][b]
<1>1. Calm /\ ~Safe
  BY DEF Calm, Safe, NoCall, Committing, Entering
<1>2. QED
  BY <1>1 DEF Known, Views

\* The first client transaction of a batch.
LEMMA LockNewKnown ==
    ASSUME Base, Known, Lock, ~unwritten
    PROVE  Known' /\ SameContents /\ SameOwners
<1>1. /\ pc = "free" /\ StartTransaction /\ id' = nextId /\ hasSub' = hasSub /\ pc' = "inside"
      /\ UNCHANGED <<unwritten, history>>
  BY DEF Lock
<1>2. /\ call = NoCall /\ call' = NoCall /\ UNCHANGED <<block, disk, written>>
      /\ nextId' = nextId + 1 /\ nextId \in Ids /\ \A i \in Ids : ~Open(i)
      /\ transaction' = [transaction EXCEPT ![nextId] = [Gone EXCEPT !.state = "open"]]
  BY <1>1 DEF StartTransaction, TransactionLock, Idle
<1>3. /\ Inv1 /\ nextId \in Nat /\ transaction \in [Ids -> TransactionType] /\ Cache.block = block
      /\ CacheOK(Cache, nextId) /\ \A i \in Ids : IsOpen(Cache, i) <=> Open(i)
      /\ \A b \in Blocks : block[b] \in BlockType
  BY InvParts DEF Base
<1>4. ASSUME NEW b \in Blocks PROVE block[b].transaction = NoId
  <2>1. block[b].transaction \in Ids \cup {NoId}
    BY <1>3 DEF BlockType
  <2>2. \A i \in Ids : InTransaction(Cache, i) = {}
    BY <1>2, <1>3, PointsTo
  <2>3. QED
    BY <1>3, <2>1, <2>2 DEF InTransaction
<1>5. /\ ~transaction'[nextId].hasSub
      /\ \A i \in Ids : Open(i)' => Open(i) \/ i >= nextId
  BY <1>2, <1>3 DEF Open, Gone
<1>6. Calm /\ Calm' /\ ~Safe /\ \A b \in Blocks : Undone(b) = history[1][b]
  <2>1. Calm /\ ~Safe /\ \A b \in Blocks : Undone(b) = history[1][b]
    BY <1>1, <1>2, IdleCalm DEF Entering
  <2>2. Calm'
    BY <1>1, <1>2 DEF Calm, NoCall, Committing, Entering
  <2>3. QED
    BY <2>1, <2>2
<1>7. \A b \in Blocks : Undone(b)' = Undone(b) /\ InMain(b)' = Seen(b)
  BY <1>2, <1>4, PlainViews DEF Seen, Undone, InMain
<1>8. SameContents /\ SameOwners
  <2>1. CalmStep
    BY <1>1, <1>2, <1>3, <1>5, <1>6, <1>7 DEF CalmStep
  <2>2. QED
    BY <2>1, CalmSame
<1>9. Views'
  <2>1. \A b \in Blocks : InMain(b)' = Newest[b]
    BY <1>1, <1>7 DEF Known, Views
  <2>2. Newest' = Newest /\ ~SubWaits' /\ ~Safe'
    BY <1>1, <1>2 DEF Newest, SubWaits, Safe, NoCall, Committing
  <2>3. QED
    BY <1>1, <1>6, <1>7, <2>1, <2>2 DEF Known, Views
<1>10. SubKnown'
  BY <1>1, <1>2, <1>5 DEF Known, SubKnown, NoCall, Entering
<1>11. WrittenBack'
  BY <1>2, StayWritten DEF Known
<1>12. QED
  BY <1>8, <1>9, <1>10, <1>11 DEF Known

\* Each other client transaction of it.
LEMMA LockSubKnown ==
    ASSUME Base, Known, Lock, unwritten
    PROVE  Known' /\ SameContents /\ SameOwners
<1>1. /\ pc = "free" /\ StartSubTransaction(id) /\ id' = id /\ hasSub' = TRUE /\ pc' = "inside"
      /\ UNCHANGED <<unwritten, history>>
  BY DEF Lock
<1>2. /\ call = NoCall /\ call' = NoCall /\ UNCHANGED <<disk, written, nextId>>
      /\ BusyWriting = {}
  BY <1>1 DEF StartSubTransaction, TransactionLock, Idle
<1>3. /\ Inv1 /\ nextId \in Nat /\ Cache.block = block /\ NoDiscards /\ Control
      /\ CacheOK(Cache, nextId) /\ \A i \in Ids : IsOpen(Cache, i) <=> Open(i)
      /\ \A b \in Blocks : block[b] \in BlockType /\ ShapeOf(Cache, block[b])
  BY InvParts DEF Base
<1>4. PICK i \in Ids : i = id /\ Open(i) /\ StartSubTransaction(i)
  BY <1>1, <1>2, <1>3 DEF Control, Kept, Owning, NoCall
<1>5. /\ transaction'[i].state = transaction[i].state /\ transaction'[i].hasSub
      /\ \A j \in Ids : j # i => transaction'[j] = transaction[j]
  BY <1>3, <1>4, StartSubUpdates
<1>6. ASSUME NEW b \in Blocks
      PROVE  /\ Seen(b)' = Seen(b) /\ Undone(b)' = Undone(b) /\ InMain(b)' = Seen(b)
             /\ block'[b].previous = block[b].previous
  <2>1. block'[b] = IF block[b].transaction = i THEN StartedSub(block[b]) ELSE block[b]
    BY <1>3, <1>4, StartSubBlocks
  <2>2. block[b].transaction \in {NoId, i} /\ ~block[b].discard
    BY <1>3, <1>4, OnlyOpen DEF NoDiscards
  <2>3. PICK r, s, d : /\ r = block[b] /\ s = block'[b] /\ d = disk[b]
                       /\ r \in BlockType /\ ShapeOf(Cache, r)
    BY <1>3
  <2>4. s = IF r.transaction # NoId THEN StartedSub(r) ELSE r
    BY <1>4, <2>1, <2>2, <2>3
  <2>5. /\ SeenOf(s, d) = SeenOf(r, d) /\ UndoneOf(s, d) = UndoneOf(r, d)
        /\ MainOf(s, d) = SeenOf(r, d)
    BY <2>2, <2>3, <2>4, StartedViews
  <2>6. s.previous = r.previous
    BY <2>3, <2>4, StartedSubIs
  <2>7. QED
    BY <1>2, <2>3, <2>5, <2>6 DEF Seen, Undone, InMain
<1>7. Calm /\ Calm' /\ ~Safe /\ \A b \in Blocks : Undone(b) = history[1][b]
  <2>1. Calm /\ ~Safe /\ \A b \in Blocks : Undone(b) = history[1][b]
    BY <1>1, <1>2, IdleCalm DEF Entering
  <2>2. Calm'
    BY <1>1, <1>2 DEF Calm, NoCall, Committing, Entering
  <2>3. QED
    BY <2>1, <2>2
<1>8. SameContents /\ SameOwners
  <2>1. \A j \in Ids : Open(j)' => Open(j)
    BY <1>5 DEF Open
  <2>2. pc # "replay" /\ pc' # "replay" /\ disk' = disk
    BY <1>1, <1>2
  <2>3. nextId' \in Nat /\ nextId <= nextId'
    BY <1>2, <1>3
  <2>4. \A b \in Blocks : Undone(b)' = Undone(b) /\ block'[b].previous = block[b].previous
    BY <1>6
  <2>5. CalmStep
    BY <1>3, <1>7, <2>1, <2>2, <2>3, <2>4 DEF CalmStep
  <2>6. QED
    BY <2>5, CalmSame
<1>9. Views'
  <2>1. \A b \in Blocks : InMain(b)' = Newest[b]
    BY <1>1, <1>6 DEF Known, Views
  <2>2. Newest' = Newest /\ ~SubWaits' /\ ~Safe'
    BY <1>1, <1>2 DEF Newest, SubWaits, Safe, NoCall, Committing
  <2>3. QED
    BY <1>1, <1>6, <1>7, <2>1, <2>2 DEF Known, Views
<1>10. SubKnown'
  <2>1. transaction'[id'].hasSub
    BY <1>1, <1>4, <1>5
  <2>2. unwritten'
    BY <1>1
  <2>3. QED
    BY <1>1, <1>2, <2>1, <2>2 DEF SubKnown, NoCall, Entering
<1>11. WrittenBack'
  <2>1. \A w \in Writers : written'[w] = {}
    BY <1>2 DEF BusyWriting, Busy, Writers
  <2>2. QED
    BY <2>1 DEF WrittenBack
<1>12. QED
  BY <1>8, <1>9, <1>10, <1>11 DEF Known

\* A block is changed by the client transaction that runs: an abort still brings back the rest.
LEMMA WriteKnown ==
    ASSUME Base, Known, NEW b \in Blocks, Write(b)
    PROVE  Known' /\ SameContents /\ SameOwners
<1>1. /\ Inv1 /\ JournalTypes /\ NoDiscards /\ Control
  BY DEF Base
<1>2. /\ pc = "inside" /\ GetWritable(b, id, FALSE, stamp) /\ UNCHANGED journalVars
  BY DEF Write
<1>3. /\ call = NoCall /\ UNCHANGED <<nextId, call, disk, written>> /\ b \notin BusyWriting
      /\ pc' = pc /\ id' = id /\ (hasSub' <=> hasSub) /\ (unwritten' <=> unwritten)
      /\ history' = history
  BY <1>2 DEF GetWritable, Idle, journalVars
<1>4. PICK i \in Ids : i = id /\ Open(i) /\ i + 1 = nextId
  BY <1>1, <1>2, <1>3 DEF Control, Kept, Owning, NoCall
<1>5. PICK data \in Values : data = stamp
  BY <1>1 DEF JournalTypes
<1>6. PICK cleared \in BOOLEAN, isNew \in BOOLEAN :
         cleared = FALSE /\ isNew = (cleared /\ ~block[b].cached)
  OBVIOUS
<1>7. PICK r, s : r = Found(b, cleared) /\ s = WrittenBlock(r, isNew, i, data)
  OBVIOUS
<1>8. GetWritable(b, i, cleared, data)
  BY <1>2, <1>4, <1>5, <1>6
<1>9. block' = [block EXCEPT ![b] = s] /\ ~cleared /\ ~isNew
  BY <1>6, <1>7, <1>8 DEF GetWritable, WrittenBlock
<1>10. ClientWrites(b, i, r, s)
  BY <1>1, <1>5, <1>7, <1>9, WriteIs
<1>11. /\ block \in [Blocks -> BlockType] /\ block[b] \in BlockType /\ nextId \in Nat
       /\ ShapeOf(Cache, block[b]) /\ Cache.block = block
       /\ CacheOK(Cache, nextId) /\ IsOpen(Cache, i) /\ Cache.transaction = transaction
  BY <1>1, <1>4, InvParts
<1>12. block[b].transaction \in {NoId, i}
  BY <1>11, OnlyOpen
<1>13. /\ block'[b] = s /\ \A a \in Blocks : a # b => block'[a] = block[a]
  BY <1>9, <1>11
<1>14. /\ r \in BlockType /\ r.cached /\ r.current # NoData
       /\ block[b].cached => r = block[b]
       /\ ~block[b].cached => /\ block[b].transaction = NoId /\ block[b].previous = NoId
                              /\ r.original = NoData /\ r.parent = NoData
                              /\ r.transaction = NoId /\ r.previous = NoId
                              /\ r.current = disk[b]
       /\ s.transaction = i /\ s.previous = r.previous /\ s.current = data
       /\ s.cached = r.cached
       /\ s.original = IF r.original = NoData THEN r.current ELSE r.original
       /\ s.parent = IF r.parent = Current THEN r.current ELSE r.parent
  BY <1>5, <1>10 DEF ClientWrites
<1>15. UndoneOf(s, disk[b]) = UndoneOf(r, disk[b]) /\ MainOf(s, disk[b]) = MainOf(r, disk[b])
  <2>1. /\ r.transaction \in {NoId, i}
        /\ r.transaction = NoId => r.parent = NoData
        /\ r.transaction = NoId /\ r.original # NoData => r.current = r.original
        /\ r.transaction # NoId => r.original # NoData
    BY <1>1, <1>11, <1>12, <1>14 DEF ShapeOf, NoDiscards
  <2>2. PICK d : d = disk[b]
    OBVIOUS
  <2>3. UndoneOf(s, d) = UndoneOf(r, d) /\ MainOf(s, d) = MainOf(r, d)
    <3>1. ChangedTo(r, s, i, data)
      BY <1>14, <2>1 DEF ChangedTo
    <3>2. QED
      BY <3>1, ChangedViews
  <2>4. QED
    BY <2>2, <2>3
<1>16. UndoneOf(r, disk[b]) = Undone(b) /\ MainOf(r, disk[b]) = InMain(b)
  <2>1. CASE block[b].cached
    BY <1>14, <2>1 DEF Undone, InMain
  <2>2. CASE ~block[b].cached
    BY <1>14, <2>2 DEF Undone, InMain, UndoneOf, MainOf, SeenOf
  <2>3. QED
    BY <2>1, <2>2
<1>17. \A a \in Blocks : /\ Undone(a)' = Undone(a) /\ InMain(a)' = InMain(a)
                         /\ block'[a].previous = block[a].previous
  <2>1. Undone(b)' = Undone(b) /\ InMain(b)' = InMain(b)
    BY <1>3, <1>13, <1>15, <1>16 DEF Undone, InMain
  <2>2. block'[b].previous = block[b].previous
    BY <1>13, <1>14
  <2>3. QED
    BY <1>3, <1>13, <2>1, <2>2 DEF Undone, InMain
<1>18. /\ transaction'[i].state = transaction[i].state
       /\ transaction'[i].hasSub = transaction[i].hasSub
       /\ \A j \in Ids : j # i => transaction'[j] = transaction[j]
  BY <1>1, <1>8, WriteUpdates
<1>19. Calm /\ Calm' /\ ~Safe /\ \A a \in Blocks : Undone(a) = history[1][a]
  <2>1. Calm /\ Calm' /\ ~Safe
    BY <1>2, <1>3 DEF Calm, NoCall, Committing, Entering, Safe
  <2>2. QED
    BY <1>2, <2>1 DEF Known, Views
<1>20. SameContents /\ SameOwners
  <2>1. \A j \in Ids : Open(j)' => Open(j)
    BY <1>4, <1>18 DEF Open
  <2>2. CalmStep
    BY <1>2, <1>3, <1>11, <1>17, <1>19, <2>1 DEF CalmStep
  <2>3. QED
    BY <2>2, CalmSame
<1>21. Views'
  <2>1. Newest' = Newest /\ ~SubWaits' /\ ~Safe'
    BY <1>2, <1>3 DEF Newest, SubWaits, Safe, NoCall, Committing
  <2>2. QED
    BY <1>2, <1>3, <1>17, <1>19, <2>1 DEF Known, Views
<1>22. SubKnown'
  <2>1. transaction'[id'].hasSub <=> transaction[id].hasSub
    BY <1>3, <1>4, <1>18
  <2>2. QED
    BY <1>2, <1>3, <2>1 DEF Known, SubKnown, NoCall, Entering
<1>23. WrittenBack'
  <2>1. \A w \in Writers : b \notin written[w]
    BY <1>3 DEF BusyWriting, Busy, Writers
  <2>2. \A w \in Writers : \A a \in written'[w] : block'[a] = block[a] /\ disk'[a] = disk[a]
    <3>1. \A w \in Writers : written[w] \subseteq Blocks
      BY <1>1, InvParts DEF Types, OtherTypes
    <3>2. QED
      BY <1>3, <1>13, <2>1, <3>1
  <2>3. QED
    BY <1>3, <2>2, StayWritten DEF Known
<1>24. QED
  BY <1>20, <1>21, <1>22, <1>23 DEF Known

\* The blocks of the cache.
LEMMA InvShapes ==
    Inv1 => \A a \in Blocks : block[a] \in BlockType /\ ShapeOf(Cache, block[a])
BY InvParts

\* What has been written stays written if an abort still brings back the same.
LEMMA UndoneWritten ==
    ASSUME Inv1, Inv1', WrittenBack, \A w \in Writers : written'[w] = written[w],
           \A b \in Blocks : Undone(b)' = Undone(b) /\ disk'[b] = disk[b]
    PROVE  WrittenBack'
<1> SUFFICES ASSUME NEW w \in Writers, NEW b \in written'[w]
             PROVE  disk'[b] = Data(block'[b])
  BY DEF WrittenBack
<1>1. b \in written[w] /\ b \in Blocks /\ b \in BusyWriting /\ b \in BusyWriting'
  BY InvParts DEF Types, OtherTypes, BusyWriting, Busy, Writers
<1>2. /\ MayBeWritten(block[b]) /\ MayBeWritten(block'[b])
      /\ block[b] \in BlockType /\ ShapeOf(Cache, block[b])
  BY <1>1, InvParts DEF Inv1, WritersOK
<1>3. block'[b] \in BlockType /\ ShapeOf(Cache', block'[b])
  <2>1. (\A a \in Blocks : block[a] \in BlockType /\ ShapeOf(Cache, block[a]))'
    BY InvShapes, PTL
  <2>2. QED
    BY <1>1, <2>1
<1>4. Data(block[b]) = Undone(b)
  BY <1>2, DataView DEF Undone
<1>5. PICK r, d, c : r = block'[b] /\ d = disk'[b] /\ c = Cache'
  OBVIOUS
<1>6. Data(r) = UndoneOf(r, d)
  BY <1>2, <1>3, <1>5, DataView
<1>7. QED
  BY <1>1, <1>4, <1>5, <1>6 DEF WrittenBack, Undone

\* All but the last.
LEMMA FrontIs ==
    ASSUME NEW S, NEW q \in Seq(S), Len(q) >= 2, NEW r, r = Front(q)
    PROVE  /\ r \in Seq(S) /\ r # <<>> /\ Len(r) = Len(q) - 1 /\ r[1] = q[1]
           /\ r[Len(r)] = q[Len(q) - 1]
<1>1. r = SubSeq(q, 1, Len(q) - 1) /\ Len(q) \in Nat
  BY DEF Front
<1>2. \A j \in 1..Len(q) - 1 : q[j] \in S
  OBVIOUS
<1>3. /\ r \in Seq(S) /\ Len(r) = Len(q) - 1 /\ \A j \in 1..Len(q) - 1 : r[j] = q[j]
  BY <1>1, <1>2
<1>4. r[1] = q[1] /\ r[Len(q) - 1] = q[Len(q) - 1]
  <2>1. 1 \in 1..Len(q) - 1 /\ Len(q) - 1 \in 1..Len(q) - 1
    BY <1>1
  <2>2. QED
    BY <1>3, <2>1
<1>5. Len(r) # 0
  BY <1>1, <1>3
<1>6. QED
  BY <1>3, <1>4, <1>5

\* A failed client transaction leaves nothing behind.
AbortStep ==
    /\ pc \in {"inside", "failed"} /\ pc' = "free" /\ call = NoCall /\ call' = NoCall
    /\ history' = IF pc = "failed" THEN Front(history) ELSE history
    /\ ~SubRuns' /\ CalmStep /\ UNCHANGED <<disk, written>>
    /\ \A b \in Blocks : Seen(b)' = InMain(b)
    /\ hasSub' => unwritten'

\* Aborting a transaction, or its sub transaction, keeps the second part.
LEMMA AbortStepKnown ==
    ASSUME Base, Inv1', Known, AbortStep
    PROVE  Known' /\ SameContents /\ SameOwners
<1>1. /\ SameContents /\ SameOwners
      /\ \A b \in Blocks : Target(b)' = Target(b)
  BY CalmSame DEF AbortStep
<1>2. \A b \in Blocks : Undone(b)' = Undone(b) /\ disk'[b] = disk[b]
  BY DEF AbortStep, CalmStep
<1>3. ~Safe /\ ~Safe' /\ ~SubWaits' /\ call'.op = "none"
  BY DEF AbortStep, Safe, SubWaits, NoCall, Committing
<1>4. /\ history \in Seq([Blocks -> Values]) /\ history # <<>>
      /\ \A b \in Blocks : Undone(b) = history[1][b]
      /\ pc = "inside" => \A b \in Blocks : InMain(b) = Newest[b]
      /\ pc = "failed" => Len(history) >= 2 /\ \A b \in Blocks : InMain(b) = Before[b]
  BY <1>3 DEF Known, Views, AbortStep, SubWaits
<1>5. /\ history' \in Seq([Blocks -> Values]) /\ history' # <<>> /\ history'[1] = history[1]
      /\ \A b \in Blocks : InMain(b) = Newest'[b]
  <2>1. CASE pc = "failed"
    BY <1>4, <2>1, FrontIs DEF AbortStep, Newest, Before
  <2>2. CASE pc = "inside"
    BY <1>4, <2>2 DEF AbortStep, Newest
  <2>3. QED
    BY <2>1, <2>2 DEF AbortStep
<1>6. Views'
  <2>1. pc' = "free"
    BY DEF AbortStep
  <2>2. \A b \in Blocks : Seen(b)' = Newest'[b]
    BY <1>5 DEF AbortStep
  <2>3. \A b \in Blocks : Undone(b)' = history'[1][b]
    BY <1>2, <1>4, <1>5
  <2>4. QED
    BY <1>3, <1>5, <2>1, <2>2, <2>3 DEF Views
<1>7. WrittenBack'
  BY <1>2, UndoneWritten DEF Known, Base, AbortStep
<1>8. SubKnown'
  BY <1>3 DEF AbortStep, SubKnown, Entering
<1>9. QED
  BY <1>1, <1>6, <1>7, <1>8 DEF Known

\* The abort of a transaction.
LEMMA AbortKnown ==
    ASSUME Base, Base', Known, UnlockFailed, ~hasSub
    PROVE  Known' /\ SameContents /\ SameOwners
<1>1. /\ Inv1 /\ NoDiscards /\ Control /\ Inv1'
  BY DEF Base
<1>2. /\ pc \in {"inside", "failed"} /\ AbortTransaction(id) /\ unwritten' = FALSE
      /\ pc' = "free" /\ (hasSub' <=> hasSub) /\ id' = id
      /\ history' = IF pc = "failed" THEN Front(history) ELSE history
  BY DEF UnlockFailed
<1>3. /\ call = NoCall /\ UNCHANGED <<nextId, call, disk, written>>
      /\ transaction' = [transaction EXCEPT ![id] = Gone]
  BY <1>2 DEF AbortTransaction, TransactionLock, Idle
<1>4. PICK i \in Ids : i = id /\ Open(i) /\ AbortTransaction(i)
  BY <1>1, <1>2, <1>3 DEF Control, Kept, Owning, NoCall
<1>5. /\ \A b \in Blocks : block[b] \in BlockType /\ ShapeOf(Cache, block[b])
      /\ transaction \in [Ids -> TransactionType] /\ Cache.transaction = transaction
      /\ nextId \in Nat /\ Cache.block = block
      /\ CacheOK(Cache, nextId) /\ \A j \in Ids : IsOpen(Cache, j) <=> Open(j)
  BY <1>1, InvParts
<1>6. /\ ~Open(i)' /\ \A j \in Ids : j # i => transaction'[j] = transaction[j]
  BY <1>3, <1>4, <1>5 DEF Open, Gone
<1>7. ~transaction[i].hasSub
  BY <1>2, <1>3, <1>4 DEF Known, SubKnown, NoCall
<1>8. ASSUME NEW b \in Blocks
      PROVE  /\ Seen(b)' = InMain(b) /\ Undone(b)' = Undone(b)
             /\ block'[b].previous = block[b].previous
  <2>1. block'[b] = IF block[b].transaction = i THEN AbortedBlock(block[b]) ELSE block[b]
    BY <1>1, <1>4, AbortBlocks
  <2>2. block[b].transaction \in {NoId, i}
    BY <1>4, <1>5, OnlyOpen
  <2>3. PICK r, s, d : /\ r = block[b] /\ s = block'[b] /\ d = disk[b] /\ r \in BlockType
                       /\ ShapeOf(Cache, r)
    BY <1>5
  <2>4. /\ s = IF r.transaction # NoId THEN AbortedBlock(r) ELSE r
        /\ r.transaction # NoId => r.original # NoData
    BY <1>1, <1>4, <2>1, <2>2, <2>3 DEF NoDiscards
  <2>5. SeenOf(s, d) = UndoneOf(r, d) /\ UndoneOf(s, d) = UndoneOf(r, d)
    BY <2>3, <2>4, AbortedViews
  <2>6. MainOf(r, d) = UndoneOf(r, d)
    <3>1. r.parent = NoData
      BY <1>5, <1>7, <2>2, <2>3 DEF ShapeOf
    <3>2. QED
      BY <3>1, PlainViews
  <2>7. s.previous = r.previous
    <3>1. CASE r.transaction # NoId
      BY <2>3, <2>4, <3>1, AbortedIs
    <3>2. QED
      BY <2>4, <3>1
  <2>8. QED
    BY <1>3, <2>3, <2>5, <2>6, <2>7 DEF Seen, Undone, InMain
<1>9. CalmStep
  <2>1. Calm /\ Calm'
    BY <1>2, <1>3 DEF Calm, NoCall, Committing, Entering
  <2>2. \A j \in Ids : Open(j)' => Open(j)
    BY <1>6 DEF Open
  <2>3. pc # "replay" /\ pc' # "replay" /\ disk' = disk /\ nextId' \in Nat /\ nextId <= nextId'
    BY <1>2, <1>3, <1>5
  <2>4. \A b \in Blocks : Undone(b)' = Undone(b) /\ block'[b].previous = block[b].previous
    BY <1>8
  <2>5. QED
    BY <1>5, <2>1, <2>2, <2>3, <2>4 DEF CalmStep
<1>10. ~SubRuns'
  BY <1>2, <1>4, <1>6 DEF SubRuns, Open
<1>11. AbortStep
  BY <1>2, <1>3, <1>8, <1>9, <1>10 DEF AbortStep
<1>12. QED
  BY <1>1, <1>11, AbortStepKnown

\* The abort of a sub transaction.
LEMMA AbortSubKnown ==
    ASSUME Base, Base', Known, UnlockFailed, hasSub
    PROVE  Known' /\ SameContents /\ SameOwners
<1>1. /\ Inv1 /\ NoDiscards /\ Control /\ Inv1'
  BY DEF Base
<1>2. /\ pc \in {"inside", "failed"} /\ AbortSubTransaction(id) /\ (unwritten' <=> unwritten)
      /\ pc' = "free" /\ (hasSub' <=> hasSub) /\ id' = id
      /\ history' = IF pc = "failed" THEN Front(history) ELSE history
  BY DEF UnlockFailed
<1>3. call = NoCall /\ UNCHANGED <<nextId, call, disk, written>>
  BY <1>2 DEF AbortSubTransaction, TransactionLock, Idle
<1>4. PICK i \in Ids : i = id /\ Open(i) /\ AbortSubTransaction(i)
  BY <1>1, <1>2, <1>3 DEF Control, Kept, Owning, NoCall
<1>5. /\ \A b \in Blocks : block[b] \in BlockType /\ ShapeOf(Cache, block[b])
      /\ Cache.transaction = transaction /\ nextId \in Nat /\ Cache.block = block
      /\ CacheOK(Cache, nextId) /\ \A j \in Ids : IsOpen(Cache, j) <=> Open(j)
  BY <1>1, InvParts
<1>6. /\ transaction'[i].state = transaction[i].state /\ ~transaction'[i].hasSub
      /\ \A j \in Ids : j # i => transaction'[j] = transaction[j]
  BY <1>1, <1>4, AbortSubUpdates
<1>7. ASSUME NEW b \in Blocks
      PROVE  /\ Seen(b)' = InMain(b) /\ Undone(b)' = Undone(b)
             /\ block'[b].previous = block[b].previous
  <2>1. block'[b] = IF block[b].transaction # i THEN block[b]
                    ELSE IF block[b].parent = NoData
                    THEN LeftBlock(block[b]) ELSE RestoredBlock(block[b])
    BY <1>1, <1>4, AbortSubBlocks
  <2>2. block[b].transaction \in {NoId, i}
    BY <1>4, <1>5, OnlyOpen
  <2>3. PICK r, s, d : /\ r = block[b] /\ s = block'[b] /\ d = disk[b] /\ r \in BlockType
                       /\ ShapeOf(Cache, r)
    BY <1>5
  <2>4. /\ s = IF r.transaction = NoId THEN r
               ELSE IF r.parent = NoData THEN LeftBlock(r) ELSE RestoredBlock(r)
        /\ r.transaction # NoId => r.original # NoData
    BY <1>1, <1>4, <2>1, <2>2, <2>3 DEF NoDiscards
  <2>5. SeenOf(s, d) = MainOf(r, d) /\ UndoneOf(s, d) = UndoneOf(r, d)
    BY <2>3, <2>4, SubAbortedViews
  <2>6. s.previous = r.previous
    <3>1. CASE r.transaction # NoId /\ r.parent = NoData
      BY <2>3, <2>4, <3>1, LeftIs
    <3>2. CASE r.transaction # NoId /\ r.parent # NoData
      BY <2>3, <2>4, <3>2, RestoredIs
    <3>3. QED
      BY <2>4, <3>1, <3>2
  <2>7. QED
    BY <1>3, <2>3, <2>5, <2>6 DEF Seen, Undone, InMain
<1>8. CalmStep
  <2>1. Calm /\ Calm'
    BY <1>2, <1>3 DEF Calm, NoCall, Committing, Entering
  <2>2. \A j \in Ids : Open(j)' => Open(j)
    BY <1>4, <1>6 DEF Open
  <2>3. pc # "replay" /\ pc' # "replay" /\ disk' = disk /\ nextId' \in Nat /\ nextId <= nextId'
    BY <1>2, <1>3, <1>5
  <2>4. \A b \in Blocks : Undone(b)' = Undone(b) /\ block'[b].previous = block[b].previous
    BY <1>7
  <2>5. QED
    BY <1>5, <2>1, <2>2, <2>3, <2>4 DEF CalmStep
<1>9. ~SubRuns'
  BY <1>2, <1>4, <1>6 DEF SubRuns
<1>10. hasSub' => unwritten'
  BY <1>2 DEF Known, SubKnown
<1>11. AbortStep
  BY <1>2, <1>3, <1>7, <1>8, <1>9, <1>10 DEF AbortStep
<1>12. QED
  BY <1>1, <1>11, AbortStepKnown

\* The contents after a client transaction.
LEMMA ContentsIs ==
    ASSUME Inv1
    PROVE  Contents \in [Blocks -> Values] /\ \A b \in Blocks : Contents[b] = Seen(b)
<1>1. ASSUME NEW b \in Blocks PROVE Seen(b) \in Values
  BY InvParts DEF Types, OtherTypes, BlockType, ShapeOf, Seen, SeenOf
<1>2. QED
  BY <1>1 DEF Contents, Seen, SeenOf

\* A client transaction that is done; its batch is not written yet.
LEMMA UnlockDoneKnown ==
    ASSUME Base, Known, UnlockDone
    PROVE  Known' /\ SameContents /\ SameOwners
<1>1. /\ Inv1 /\ Control /\ nextId \in Nat
  BY InvParts DEF Base
<1>2. /\ pc = "inside" /\ call = NoCall /\ id' = id /\ (hasSub' <=> hasSub)
      /\ history' = Append(history, Contents)
      /\ \/ pc' = "write" /\ UNCHANGED cacheVars /\ (unwritten' <=> unwritten)
         \/ /\ unwritten' = TRUE /\ pc' = "free"
            /\ SyncTransaction(id) \/ UNCHANGED cacheVars
  BY DEF UnlockDone, TransactionLock, Idle
<1>3. /\ Untouched /\ call'.op \in {"none", "sync", "wait"}
      /\ pc' = "write" => call' = NoCall
  <2>1. CASE UNCHANGED cacheVars
    BY <1>2, <2>1 DEF cacheVars, Untouched, NoCall
  <2>2. CASE SyncTransaction(id) /\ pc' = "free"
    <3>1. PICK S : Call("sync", id, FALSE, S)
      BY <2>2 DEF SyncTransaction
    <3>2. /\ UNCHANGED <<block, transaction, nextId, disk, written>>
          /\ call'.op \in {"sync", "wait"}
      BY <3>1, SyncStartsIs
    <3>3. QED
      BY <2>2, <3>2 DEF Untouched
  <2>3. QED
    BY <1>2, <2>1, <2>2
<1>4. /\ WrittenBack'
      /\ \A b \in Blocks : /\ Seen(b)' = Seen(b) /\ Undone(b)' = Undone(b)
                           /\ InMain(b)' = InMain(b)
  BY <1>3, UntouchedViews
<1>5. /\ Calm /\ Calm' /\ ~Safe /\ ~Safe'
  BY <1>2, <1>3 DEF Calm, NoCall, Committing, Entering, Safe
<1>6. SameContents /\ SameOwners
  <2>1. CalmStep
    BY <1>1, <1>2, <1>3, <1>4, <1>5 DEF CalmStep, Untouched, Open
  <2>2. QED
    BY <2>1, CalmSame
<1>7. /\ history \in Seq([Blocks -> Values]) /\ history # <<>>
      /\ \A b \in Blocks : Undone(b) = history[1][b] /\ InMain(b) = Newest[b]
  BY <1>2, <1>5 DEF Known, Views
<1>8. /\ history' \in Seq([Blocks -> Values]) /\ history' # <<>> /\ Len(history') >= 2
      /\ history'[1] = history[1] /\ Newest' = Contents /\ Before' = Newest
  <2>1. PICK v \in [Blocks -> Values] : v = Contents
    BY <1>1, ContentsIs
  <2>2. /\ history' = Append(history, v) /\ Len(history) \in Nat /\ Len(history) # 0
    BY <1>2, <1>7, <2>1
  <2>3. /\ Len(history') = Len(history) + 1 /\ history' \in Seq([Blocks -> Values])
        /\ \A k \in 1..Len(history) : history'[k] = history[k]
        /\ history'[Len(history) + 1] = v
    BY <1>7, <2>2
  <2>4. QED
    BY <2>1, <2>2, <2>3 DEF Newest, Before
<1>9. Views'
  <2>1. \A b \in Blocks : Seen(b)' = Newest'[b]
    BY <1>1, <1>4, <1>8, ContentsIs
  <2>2. \A b \in Blocks : Undone(b)' = history'[1][b] /\ InMain(b)' = Before'[b]
    BY <1>4, <1>7, <1>8
  <2>3. QED
    BY <1>2, <1>5, <1>8, <2>1, <2>2 DEF Views
<1>10. SubKnown'
  BY <1>2, <1>3 DEF Known, SubKnown, Entering, NoCall, Untouched
<1>11. QED
  BY <1>4, <1>6, <1>9, <1>10 DEF Known

\* The log entry is complete.
LEMMA SetEndKnown ==
    ASSUME Base, Known, SetEnd
    PROVE  Known'
<1>1. /\ pc = "log" /\ pc' = "super" /\ call = NoCall
      /\ UNCHANGED <<block, transaction, nextId, call, disk, written, id, history>>
      /\ (hasSub' <=> hasSub) /\ (unwritten' <=> unwritten)
  BY DEF SetEnd, Base, Control, Owning, Entering, cacheVars
<1>2. Untouched
  BY <1>1 DEF Untouched
<1>3. /\ WrittenBack'
      /\ \A b \in Blocks : /\ Seen(b)' = Seen(b) /\ Undone(b)' = Undone(b)
                           /\ InMain(b)' = InMain(b)
  BY <1>2, UntouchedViews
<1>4. Views'
  <2>1. SubRuns' => SubRuns
    BY <1>1 DEF SubRuns, Open
  <2>2. ~Safe /\ ~Safe' /\ (SubWaits' => SubWaits)
    BY <1>1, <2>1 DEF Safe, SubWaits, NoCall, Committing
  <2>3. Newest' = Newest /\ Before' = Before
    BY <1>1 DEF Newest, Before
  <2>4. QED
    BY <1>1, <1>3, <2>2, <2>3 DEF Known, Views
<1>5. SubKnown'
  BY <1>1 DEF Known, SubKnown, Entering
<1>6. QED
  BY <1>3, <1>4, <1>5 DEF Known

\* The last ones.
LEMMA LastOnes ==
    ASSUME NEW S, NEW q \in Seq(S), q # <<>>, NEW k \in {0, 1}, Len(q) > k,
           NEW r, r = SubSeq(q, Len(q) - k, Len(q))
    PROVE  /\ r \in Seq(S) /\ r # <<>> /\ Len(r) = k + 1
           /\ r[1] = q[Len(q) - k] /\ r[Len(r)] = q[Len(q)]
<1> DEFINE n == Len(q)
<1>1. n \in Nat /\ n > k /\ n - k \in 1..n /\ n \in 1..n
  OBVIOUS
<1>2. /\ r \in Seq(S) /\ Len(r) = k + 1 /\ \A j \in 1..k + 1 : r[j] = q[n - k + j - 1]
  BY <1>1
<1>3. r[1] = q[n - k]
  <2>1. 1 \in 1..k + 1 /\ n - k + 1 - 1 = n - k
    BY <1>1
  <2>2. QED
    BY <1>2, <2>1
<1>4. r[k + 1] = q[n]
  <2>1. k + 1 \in 1..k + 1 /\ n - k + (k + 1) - 1 = n
    BY <1>1
  <2>2. QED
    BY <1>2, <2>1
<1>5. r # <<>> /\ r[Len(r)] = q[n]
  <2>1. k + 1 # 0
    OBVIOUS
  <2>2. QED
    BY <1>2, <1>4, <2>1
<1>6. QED
  BY <1>2, <1>3, <1>5

\* The log entry is safe, and what comes after a crash is in it or after it.
LEMMA FlushDriveKnown ==
    ASSUME Base, Known, FlushDrive
    PROVE  Known' /\ SameContents /\ SameOwners
<1>1. /\ Inv1 /\ Control /\ pc = "flush" /\ pc' = "add" /\ call = NoCall
      /\ UNCHANGED cacheVars /\ id' = id /\ (hasSub' <=> hasSub) /\ (unwritten' <=> unwritten)
      /\ history' = SubSeq(history, Len(history) - (IF Detaching THEN 1 ELSE 0), Len(history))
  BY DEF FlushDrive, Base, Control, Owning, Entering
<1>2. Idling
  BY <1>1 DEF Idling, Entering
<1>3. /\ SameContents /\ SameOwners /\ SameViews /\ Mover' = Mover
      /\ (Parting' <=> Parting) /\ (SubRuns' <=> SubRuns) /\ WrittenBack'
  BY <1>1, <1>2, IdlingSame DEF Known
<1>4. /\ history \in Seq([Blocks -> Values]) /\ history # <<>>
      /\ \A b \in Blocks : Seen(b) = Newest[b]
      /\ SubRuns => Len(history) >= 2 /\ \A b \in Blocks : InMain(b) = Before[b]
  BY <1>1 DEF Known, Views, SubWaits
<1>5. /\ Logged # {} /\ id \in Ids /\ Open(id)
  BY <1>1, OpenHere DEF Entering
<1>6. Detaching => SubRuns
  <2>1. SUFFICES ASSUME Detaching PROVE SubRuns
    OBVIOUS
  <2>2. PICK b \in Blocks : block[b].transaction = id /\ block[b].parent # NoData
    BY <1>5, <2>1 DEF Logged, InTransaction, Cache
  <2>3. transaction[id].hasSub
    BY <1>1, <2>2, InvParts DEF ShapeOf
  <2>4. QED
    BY <1>1, <1>5, <2>3 DEF SubRuns, NoCall, Committing
<1>7. Mover = id /\ (Parting <=> Detaching)
  BY <1>1 DEF Mover, Parting, Entering
<1>8. /\ history' \in Seq([Blocks -> Values]) /\ history' # <<>>
      /\ Newest' = Newest
      /\ \A b \in Blocks : Target(b) = history'[1][b]
      /\ Detaching => Len(history') = 2
  <2>1. CASE Detaching
    <3>1. /\ history' \in Seq([Blocks -> Values]) /\ history' # <<>> /\ Len(history') = 2
          /\ history'[1] = Before /\ Newest' = Newest
      BY <1>1, <1>4, <1>6, <2>1, LastOnes DEF Before, Newest
    <3>2. \A b \in Blocks : Target(b) = InMain(b)
      BY <1>5, <1>7, <2>1 DEF Target
    <3>3. QED
      BY <1>4, <1>6, <2>1, <3>1, <3>2
  <2>2. CASE ~Detaching
    <3>1. Len(history) > 0 /\ Len(history) \in Nat
      BY <1>4
    <3>2. history' = SubSeq(history, Len(history) - 0, Len(history))
      BY <1>1, <2>2
    <3>3. /\ history' \in Seq([Blocks -> Values]) /\ history' # <<>> /\ Newest' = Newest
          /\ history'[1] = Newest
      BY <1>4, <3>1, <3>2, LastOnes DEF Newest
    <3>4. \A b \in Blocks : Target(b) = Seen(b)
      BY <1>5, <1>7, <2>2 DEF Target
    <3>5. QED
      BY <1>4, <2>2, <3>3, <3>4
  <2>3. QED
    BY <2>1, <2>2
<1>9. Views'
  <2>1. Safe' /\ ~SubWaits' /\ (Parting' => Detaching)
    BY <1>1, <1>3, <1>7 DEF Safe, SubWaits
  <2>2. QED
    BY <1>1, <1>3, <1>4, <1>8, <2>1 DEF Views, SameViews
<1>10. SubKnown'
  BY <1>1 DEF Known, SubKnown, Entering
<1>11. QED
  BY <1>3, <1>9, <1>10 DEF Known

\* What leaves holds what the client sees or, if a sub transaction stays, the parent has.
LEMMA LeftViews ==
    ASSUME NEW r, NEW s, NEW d, NEW op, NEW i \in Ids, NEW j \in Ids, r.cached,
           r.transaction = i, LeftBehind(r, op, i, j, s)
    PROVE  /\ SeenOf(s, d) = SeenOf(r, d)
           /\ UndoneOf(s, d) = IF op = "detach" THEN MainOf(r, d) ELSE SeenOf(r, d)
           /\ MainOf(s, d) = UndoneOf(s, d)
           /\ s.previous = IF op = "detach" /\ r.parent = NoData THEN NoId ELSE i
<1>1. i # NoId /\ j # NoId
  OBVIOUS
<1>2. /\ s.current = r.current /\ s.cached /\ s.parent = NoData
      /\ s.transaction = IF op = "detach" /\ r.parent # Current THEN j ELSE NoId
      /\ s.transaction # NoId => s.original = IF r.parent = NoData THEN r.original ELSE r.parent
      /\ s.previous = IF op = "detach" /\ r.parent = NoData THEN NoId ELSE i
  BY DEF LeftBehind
<1>3. SeenOf(s, d) = r.current /\ SeenOf(r, d) = r.current
  BY <1>2 DEF SeenOf
<1>4. MainOf(s, d) = UndoneOf(s, d)
  BY <1>2 DEF MainOf, UndoneOf
<1>5. CASE op = "detach" /\ r.parent # Current
  <2>1. s.transaction # NoId
    BY <1>1, <1>2, <1>5
  <2>2. MainOf(r, d) = IF r.parent = NoData THEN r.original ELSE r.parent
    BY <1>1, <1>5 DEF MainOf
  <2>3. QED
    BY <1>2, <1>3, <1>4, <1>5, <2>1, <2>2 DEF UndoneOf
<1>6. CASE ~(op = "detach" /\ r.parent # Current)
  <2>1. s.transaction = NoId /\ UndoneOf(s, d) = r.current
    BY <1>2, <1>3, <1>6 DEF UndoneOf
  <2>2. op = "detach" => MainOf(r, d) = r.current
    BY <1>1, <1>6 DEF MainOf
  <2>3. QED
    BY <1>2, <1>3, <1>4, <2>1, <2>2
<1>7. QED
  BY <1>5, <1>6

\* A transaction leaves; c is the cache once blocks that had to be written first are.
TargetOf(op, b) == IF op = "detach" THEN InMain(b) ELSE Seen(b)
LeaveStep(c, op, i, listener) ==
    /\ MayLeave(c, op, i, listener) /\ Leaves(c, op, i, listener)
    /\ UNCHANGED <<disk, history>> /\ pc # "replay" /\ pc \notin {"super"}
    /\ pc' \in {"free", "failed"} /\ ~hasSub'
    /\ pc' = "failed" => /\ op = "detach" /\ Len(history) >= 2
                         /\ \A b \in Blocks : InMain(b) = Before[b]
    /\ op = "detach" => id' = nextId
    /\ Parted(c, op, i) = Moving /\ (Moving = {} \/ Mover = i)
    /\ \A b \in Blocks :
        /\ SeenOf(c.block[b], disk[b]) = Seen(b) /\ MainOf(c.block[b], disk[b]) = InMain(b)
        /\ Seen(b) = Newest[b] /\ TargetOf(op, b) = history[1][b] /\ Target(b) = history[1][b]
        /\ \/ c.block[b].previous = block[b].previous
           \/ c.block[b].previous = NoId /\ (b \notin Moving => disk[b] = Target(b))

\* Afterwards.
LEMMA LeaveStepBlocks ==
    ASSUME NEW c, NEW op, NEW i, NEW listener, LeaveStep(c, op, i, listener), NEW b \in Blocks
    PROVE  /\ Seen(b)' = Seen(b) /\ Undone(b)' = TargetOf(op, b) /\ InMain(b)' = TargetOf(op, b)
           /\ block'[b].previous =
                IF c.block[b].transaction = i
                THEN (IF b \in Moving THEN i ELSE NoId) ELSE c.block[b].previous
<1>1. /\ i \in Ids /\ CacheOK(c, nextId) /\ IsOpen(c, i)
      /\ op = "detach" => nextId \in Ids
      /\ op \in {"end", "detach"}
  BY DEF LeaveStep, MayLeave, Leaves, Closing
<1>2. /\ c.block[b] \in BlockType /\ ShapeOf(c, c.block[b]) /\ c.block[b].transaction \in {NoId, i}
  BY <1>1, CacheParts, OnlyOpen
<1>3. PICK r, s, d, j : r = c.block[b] /\ s = block'[b] /\ d = disk[b] /\ j = nextId
  OBVIOUS
<1>4. disk'[b] = d /\ SeenOf(r, d) = Seen(b) /\ MainOf(r, d) = InMain(b)
  BY <1>3 DEF LeaveStep
<1>5. CASE r.transaction = i
  <2>1. LeftBehind(r, op, i, j, s)
    BY <1>3, <1>5 DEF LeaveStep, Leaves
  <2>2. r.cached
    BY <1>2, <1>3, <1>5, <1>1 DEF ShapeOf, Absent, NewBlock
  <2>3. PICK k \in Ids : LeftBehind(r, op, i, k, s)
    <3>1. CASE op = "detach"
      BY <1>1, <1>3, <2>1, <3>1
    <3>2. CASE op # "detach"
      BY <1>1, <2>1, <3>2 DEF LeftBehind
    <3>3. QED
      BY <3>1, <3>2
  <2>4. /\ SeenOf(s, d) = SeenOf(r, d)
        /\ UndoneOf(s, d) = IF op = "detach" THEN MainOf(r, d) ELSE SeenOf(r, d)
        /\ MainOf(s, d) = UndoneOf(s, d)
        /\ s.previous = IF op = "detach" /\ r.parent = NoData THEN NoId ELSE i
    BY <1>1, <1>5, <2>2, <2>3, LeftViews
  <2>5. b \in Moving <=> ~(op = "detach" /\ r.parent = NoData)
    BY <1>3, <1>5 DEF LeaveStep, Parted, InTransaction
  <2>6. QED
    BY <1>3, <1>4, <1>5, <2>4, <2>5 DEF Seen, Undone, InMain, TargetOf
<1>6. CASE r.transaction # i
  <2>1. s = r /\ r.transaction = NoId
    BY <1>2, <1>3, <1>6 DEF LeaveStep, Leaves
  <2>2. UndoneOf(r, d) = SeenOf(r, d) /\ MainOf(r, d) = SeenOf(r, d)
    BY <2>1, PlainViews
  <2>3. QED
    BY <1>3, <1>4, <1>6, <2>1, <2>2 DEF Seen, Undone, InMain, TargetOf
<1>7. QED
  BY <1>5, <1>6

\* Then only a transaction that is new is open.
LEMMA LeaveStepOpen ==
    ASSUME NEW c, NEW op, NEW i, NEW listener, LeaveStep(c, op, i, listener), NEW j \in Ids
    PROVE  Open(j)' => op = "detach" /\ j = nextId /\ ~transaction'[j].hasSub
<1>1. /\ i \in Ids /\ CacheOK(c, nextId) /\ IsOpen(c, i) /\ transaction'[i].state = "closed"
      /\ op = "detach" => nextId \in Ids /\ ~transaction'[nextId].hasSub
      /\ j # i => (op = "detach" /\ j = nextId) \/ transaction'[j] = c.transaction[j]
  BY DEF LeaveStep, MayLeave, Leaves, Closing
<1>2. IsOpen(c, j) => j = i
  BY <1>1, CacheParts DEF Transactions, IsOpen
<1>3. QED
  BY <1>1, <1>2 DEF Open, IsOpen

\* It keeps the third invariant.
LEMMA LeaveStepKnown ==
    ASSUME Known, WrittenBack', NEW c, NEW op, NEW i, NEW listener, LeaveStep(c, op, i, listener)
    PROVE  Known'
<1>1. /\ call' = NoCall /\ pc' \in {"free", "failed"} /\ ~hasSub' /\ history' = history
      /\ pc' = "failed" => /\ op = "detach" /\ Len(history) >= 2
                           /\ \A b \in Blocks : InMain(b) = Before[b]
      /\ op = "detach" => id' = nextId
  BY DEF LeaveStep, Leaves
<1>2. /\ nextId \in Nat /\ op = "detach" => nextId \in Ids
  BY DEF LeaveStep, MayLeave, Leaves
<1>3. \A b \in Blocks : /\ Seen(b)' = Newest[b] /\ Undone(b)' = history[1][b]
                        /\ InMain(b)' = TargetOf(op, b)
  <2>1. \A b \in Blocks : /\ Seen(b)' = Seen(b) /\ Undone(b)' = TargetOf(op, b)
                          /\ InMain(b)' = TargetOf(op, b)
    BY LeaveStepBlocks
  <2>2. \A b \in Blocks : Seen(b) = Newest[b] /\ TargetOf(op, b) = history[1][b]
    BY DEF LeaveStep
  <2>3. QED
    BY <2>1, <2>2
<1>4. \A j \in Ids : Open(j)' => op = "detach" /\ j = nextId /\ ~transaction'[j].hasSub
  BY LeaveStepOpen
<1>5. ~SubRuns' /\ ~Safe'
  <2>1. ~SubRuns'
    BY <1>4 DEF SubRuns
  <2>2. QED
    BY <1>1, <2>1 DEF Safe, NoCall, Committing
<1>6. SubWaits' => pc' = "failed"
  BY <1>1, <1>5 DEF SubWaits
<1>7. Views'
  <2>1. /\ history \in Seq([Blocks -> Values]) /\ history # <<>>
    BY DEF Known, Views
  <2>2. Newest' = Newest /\ Before' = Before
    BY <1>1 DEF Newest, Before
  <2>3. pc' = "failed" => \A b \in Blocks : InMain(b)' = Before[b]
    BY <1>1, <1>3 DEF TargetOf
  <2>4. QED
    BY <1>1, <1>3, <1>5, <1>6, <2>1, <2>2, <2>3 DEF Views
<1>8. SubKnown'
  <2>1. pc' = "failed" => ~transaction'[id'].hasSub
    <3>1. pc' = "failed" => op = "detach" /\ id' = nextId
      BY <1>1
    <3>2. op = "detach" => ~transaction'[nextId].hasSub
      BY DEF LeaveStep, Leaves
    <3>3. QED
      BY <3>1, <3>2
  <2>2. QED
    BY <1>1, <2>1 DEF SubKnown, NoCall, Entering
<1>9. QED
  BY <1>7, <1>8 DEF Known

\* What it leaves is held by the log as long as its entry is there.
LEMMA LeaveStepComplete ==
    ASSUME NEW g \in Logs, Complete(g), NEW c, NEW op, NEW i, NEW listener,
           LeaveStep(c, op, i, listener)
    PROVE  Complete(g)'
<1>1. /\ call' = NoCall /\ pc' \in {"free", "failed"} /\ pc # "replay" /\ disk' = disk
      /\ nextId \in Nat /\ i \in Ids /\ (Moving = {} \/ Mover = i)
      /\ nextId' \in Nat /\ nextId <= nextId'
      /\ Closing(c, nextId, op, i, {})
  BY DEF LeaveStep, Leaves, MayLeave
<1>2. Mover' = NoId /\ Moving' = {} /\ \A b \in Blocks : Target(b)' = Undone(b)'
  <2>1. Mover' = NoId
    BY <1>1 DEF Mover, Entering, NoCall, Committing
  <2>2. QED
    BY <2>1 DEF Moving, Target
<1>3. Holds(g)'
  <2> SUFFICES ASSUME NEW b \in Blocks
               PROVE  /\ Latest(g, g.f, b, Target(b)')
                      /\ disk[b] = Target(b)' \/ InLog(g, g.sb, g.f, b, block'[b].previous)
    BY <1>1, <1>2 DEF Holds
  <2>1. /\ Latest(g, g.f, b, Target(b))
        /\ b \in Moving => InLog(g, g.sb, g.f, b, Mover)
        /\ b \notin Moving => disk[b] = Target(b) \/ InLog(g, g.sb, g.f, b, block[b].previous)
    BY <1>1 DEF Complete, Holds
  <2>2. Target(b)' = Target(b)
    <3>1. Undone(b)' = TargetOf(op, b)
      BY LeaveStepBlocks
    <3>2. TargetOf(op, b) = history[1][b] /\ Target(b) = history[1][b]
      BY DEF LeaveStep
    <3>3. QED
      BY <1>2, <3>1, <3>2
  <2>3. block'[b].previous = IF c.block[b].transaction = i
                             THEN (IF b \in Moving THEN i ELSE NoId) ELSE c.block[b].previous
    BY LeaveStepBlocks
  <2>4. /\ \/ c.block[b].previous = block[b].previous
           \/ c.block[b].previous = NoId /\ (b \notin Moving => disk[b] = Target(b))
        /\ Parted(c, op, i) = Moving
    BY DEF LeaveStep
  <2>5. CASE b \in Moving
    <3>1. c.block[b].transaction = i
      BY <2>4, <2>5 DEF Parted, InTransaction
    <3>2. QED
      BY <1>1, <2>1, <2>2, <2>3, <2>5, <3>1
  <2>6. CASE b \notin Moving
    <3>1. c.block[b].transaction = i => c.block[b].previous = NoId
      BY <1>1 DEF Closing, InTransaction
    <3>2. QED
      BY <2>1, <2>2, <2>3, <2>4, <2>6, <3>1
  <2>7. QED
    BY <2>5, <2>6
<1>4. Owners(g)'
  <2> SUFFICES ASSUME NEW k \in g.sb..g.f - 1, NEW j, j = g.chunk[k].owner
               PROVE  j \in Ids /\ j < nextId' /\ g.from[j] <= k /\ (Open(j)' => j = Mover')
    BY DEF Owners
  <2>1. j \in Ids /\ j < nextId /\ g.from[j] <= k
    BY <1>1 DEF Complete, Owners
  <2>2. ~Open(j)'
    <3>1. Open(j)' => j = nextId
      BY <2>1, LeaveStepOpen
    <3>2. j # nextId
      BY <1>1, <2>1
    <3>3. QED
      BY <3>1, <3>2
  <2>3. QED
    BY <1>1, <2>1, <2>2
<1>5. HeldBefore(g)' /\ HeldReplay(g)'
  BY <1>1 DEF HeldBefore, HeldReplay
<1>6. QED
  BY <1>3, <1>4, <1>5 DEF Complete

\* What leaves is not being written.
LEMMA LeaveStepWritten ==
    ASSUME Inv1, WrittenBack, NEW c, NEW op, NEW i, NEW listener, LeaveStep(c, op, i, listener),
           \A w \in Writers : \A b \in written'[w] : b \in written[w] /\ c.block[b] = block[b]
    PROVE  WrittenBack'
<1> SUFFICES ASSUME NEW w \in Writers, NEW b \in written'[w]
             PROVE  disk'[b] = Data(block'[b])
  BY DEF WrittenBack
<1>1. /\ b \in written[w] /\ c.block[b] = block[b] /\ b \in Blocks /\ b \in BusyWriting
  BY InvParts DEF Types, OtherTypes, BusyWriting, Busy, Writers
<1>2. MayBeWritten(block[b])
  BY <1>1 DEF Inv1, WritersOK
<1>3. Closing(c, nextId, op, i, {}) /\ i # NoId /\ disk' = disk
  BY DEF LeaveStep, MayLeave
<1>4. c.block[b].transaction # i
  BY <1>1, <1>2, <1>3 DEF Closing, InTransaction, MayBeWritten
<1>5. block'[b] = block[b]
  BY <1>1, <1>4 DEF LeaveStep, Leaves
<1>6. QED
  BY <1>1, <1>3, <1>5 DEF WrittenBack

\* A transaction that the journal lets go is open.
LEMMA MoverOpen ==
    ASSUME Inv1, Control, Mover # NoId
    PROVE  Mover \in Ids /\ Open(Mover)
<1>1. CASE pc \in Entering
  BY <1>1, OpenHere DEF Mover
<1>2. CASE pc \notin Entering /\ Committing(call.op)
  <2>1. PICK i : i = call.arg /\ Closing(Cache, nextId, call.op, i, Busy("client"))
    BY <1>2 DEF Inv1, CallOK
  <2>2. i \in Ids /\ Open(i)
    BY <2>1, InvParts DEF Closing
  <2>3. Mover = i
    BY <1>2, <2>1 DEF Mover
  <2>4. QED
    BY <2>2, <2>3
<1>3. QED
  BY <1>1, <1>2 DEF Mover

\* What a writer may write of a block that does not move is what it is to be.
LEMMA WritesTarget ==
    ASSUME Inv1, Control, NEW b \in Blocks, MayBeWritten(block[b]), b \notin Moving
    PROVE  Data(block[b]) = Target(b)
<1>1. /\ Data(block[b]) = Undone(b)
      /\ block[b].transaction = NoId => Seen(b) = Undone(b) /\ InMain(b) = Undone(b)
      /\ block[b].parent = NoData => InMain(b) = Undone(b)
  BY InvShapes, DataView DEF Seen, Undone, InMain
<1>2. CASE Mover = NoId
  BY <1>1, <1>2 DEF Target
<1>3. CASE Mover # NoId
  <2>1. Mover \in Ids /\ Open(Mover)
    BY <1>3, MoverOpen
  <2>2. block[b].transaction \in {NoId, Mover}
    BY <2>1, InvParts, OnlyOpen
  <2>3. block[b].transaction = Mover => Parting /\ block[b].parent = NoData
    BY <1>3 DEF Moving
  <2>4. QED
    BY <1>1, <1>3, <2>2, <2>3 DEF Target
<1>4. QED
  BY <1>2, <1>3

\* When a transaction leaves, at the end of its entry or without one.
Leaving(op) ==
    /\ call = NoCall /\ op \in {"end", "detach"} /\ id \in Ids /\ history' = history
    /\ pc \notin {"replay", "super"} /\ pc' \in {"free", "failed"} /\ ~hasSub'
    /\ pc' = "failed" => /\ op = "detach" /\ Len(history) >= 2
                         /\ \A b \in Blocks : InMain(b) = Before[b]
    /\ op = "detach" => id' = nextId
    /\ Parted(Cache, op, id) = Moving /\ (Moving = {} \/ Mover = id) /\ Mover \in {NoId, id}
    /\ \A b \in Blocks :
        /\ Seen(b) = Newest[b] /\ TargetOf(op, b) = history[1][b] /\ Target(b) = history[1][b]

\* The transaction that leaves has no block for the log.
LEMMA NothingLoggedLeaving ==
    ASSUME Base, Known, PrepareEntry, pc' = "free"
    PROVE  Leaving(LeaveOp)
<1>1. LeaveStarts(FALSE)
  BY NothingLoggedLeaves
<1>2. /\ id \in Ids /\ Open(id) /\ call = NoCall /\ Left(LeaveOp) /\ LeaveOp \in {"end", "detach"}
  BY <1>1, LeaveStartsIs
<1>3. /\ pc \in {"write", "flush log"} /\ hasSub' = FALSE /\ Logged = {} /\ history' = history
  BY DEF PrepareEntry
<1>4. Parted(Cache, LeaveOp, id) = {}
  BY <1>2, <1>3, PartedIs
<1>5. Calm /\ ~Safe
  BY <1>2, <1>3 DEF Calm, Safe, Committing, NoCall, Entering
<1>6. Resting
  BY <1>5, CalmRests
<1>7. \A b \in Blocks : Seen(b) = Newest[b] /\ Undone(b) = history[1][b]
  BY <1>3, <1>5 DEF Known, Views
<1>8. ASSUME NEW b \in Blocks PROVE TargetOf(LeaveOp, b) = Undone(b)
  <2>1. block[b].transaction \in {NoId, id} /\ Cache.block = block
    BY <1>2, InvParts, OnlyOpen DEF Base
  <2>2. block[b].transaction = id => LeaveOp = "detach" /\ block[b].parent = NoData
    BY <1>4, <2>1 DEF Parted, InTransaction
  <2>3. /\ block[b].transaction = NoId => Seen(b) = Undone(b) /\ InMain(b) = Undone(b)
        /\ block[b].parent = NoData => InMain(b) = Undone(b)
    BY PlainViews DEF Seen, Undone, InMain
  <2>4. QED
    BY <2>1, <2>2, <2>3 DEF TargetOf
<1>9. QED
  BY <1>2, <1>3, <1>4, <1>6, <1>7, <1>8 DEF Leaving, Resting, Left

\* The transaction that leaves has its entry in the log.
LEMMA EndEntryLeaving ==
    ASSUME Base, Known, EndEntry
    PROVE  Leaving(LeaveOp)
<1>1. LeaveStarts(TRUE)
  BY EndEntryLeaves
<1>2. /\ id \in Ids /\ Open(id) /\ call = NoCall /\ Left(LeaveOp) /\ LeaveOp \in {"end", "detach"}
  BY <1>1, LeaveStartsIs
<1>3. /\ pc = "ending" /\ pc' \in {"free", "failed"} /\ history' = history /\ (hasSub' <=> hasSub)
      /\ pc' = "failed" => Detaching
  BY DEF EndEntry
<1>4. /\ Mover = id /\ (Parting <=> Detaching) /\ (LeaveOp = "detach" <=> Detaching)
      /\ (LeaveOp = "detach" <=> Parting)
  BY <1>3 DEF Mover, Parting, Entering, LeaveOp
<1>5. Parted(Cache, LeaveOp, id) = Moving
  <2>1. Cache.block = block /\ id # NoId
    BY <1>2 DEF Cache
  <2>2. QED
    BY <1>4, <2>1 DEF Parted, Moving, InTransaction
<1>6. ~hasSub
  BY <1>3 DEF Known, SubKnown, Entering
<1>7. /\ \A b \in Blocks : Seen(b) = Newest[b] /\ Target(b) = history[1][b]
      /\ Parting => Len(history) = 2
  BY <1>3 DEF Known, Views, Safe
<1>8. \A b \in Blocks : TargetOf(LeaveOp, b) = Target(b)
  BY <1>2, <1>4 DEF TargetOf, Target
<1>9. Detaching => \A b \in Blocks : InMain(b) = Before[b]
  <2>1. Detaching => Before = history[1]
    <3>1. PICK n : n = Len(history)
      OBVIOUS
    <3>2. Before = history[n - 1]
      BY <3>1 DEF Before
    <3>3. n = 2 => Before = history[1]
      BY <3>2
    <3>4. QED
      BY <1>4, <1>7, <3>1, <3>3
  <2>2. Detaching => \A b \in Blocks : InMain(b) = TargetOf(LeaveOp, b)
    BY <1>4 DEF TargetOf
  <2>3. QED
    BY <1>7, <1>8, <2>1, <2>2
<1>10. QED
  BY <1>2, <1>3, <1>4, <1>5, <1>6, <1>7, <1>8, <1>9 DEF Leaving, Left

\* Without blocks to be written first, it leaves at once.
LEMMA LeavesAtOnce ==
    ASSUME Base, Known, NEW listener, LeaveStarts(listener), Leaving(LeaveOp), InBoth(id) = {}
    PROVE  LeaveStep(Cache, LeaveOp, id, listener) /\ WrittenBack'
<1>1. MayLeave(Cache, LeaveOp, id, listener) /\ Leaves(Cache, LeaveOp, id, listener)
  BY LeavesNow
<1>2. UNCHANGED <<disk, written>>
  BY LeaveStartsIs DEF Call
<1>3. LeaveStep(Cache, LeaveOp, id, listener)
  <2>1. \A b \in Blocks : Cache.block[b] = block[b]
    BY DEF Cache
  <2>2. PICK c, op, i : c = Cache /\ op = LeaveOp /\ i = id
    OBVIOUS
  <2>3. \A b \in Blocks :
            /\ SeenOf(c.block[b], disk[b]) = Seen(b) /\ MainOf(c.block[b], disk[b]) = InMain(b)
            /\ c.block[b].previous = block[b].previous
    BY <2>1, <2>2 DEF Seen, InMain
  <2>4. MayLeave(c, op, i, listener) /\ Leaves(c, op, i, listener) /\ Leaving(op)
    BY <1>1, <2>2
  <2>5. Parted(c, op, i) = Moving /\ (Moving = {} \/ Mover = i)
    BY <2>2 DEF Leaving
  <2>6. LeaveStep(c, op, i, listener)
    BY <1>2, <2>3, <2>4, <2>5 DEF LeaveStep, Leaving
  <2>7. QED
    BY <2>2, <2>6
<1>4. \A w \in Writers : \A b \in written'[w] : b \in written[w] /\ Cache.block[b] = block[b]
  BY <1>2 DEF Cache
<1>5. QED
  BY <1>3, <1>4, LeaveStepWritten DEF Base, Known

\* Otherwise it counts as safe until it does.
LEMMA LeavesLater ==
    ASSUME Base, Known, NEW listener, LeaveStarts(listener), Leaving(LeaveOp), InBoth(id) # {}
    PROVE  Known' /\ SameContents /\ SameOwners
<1>1. PICK op, S : op = LeaveOp /\ S = InBoth(id)
  OBVIOUS
<1>2. Call(op, id, listener, S) /\ S # {} /\ Leaving(op) /\ Inv1 /\ nextId \in Nat
  BY <1>1, LeaveStartsIs, InvParts DEF Base
<1>3. /\ call' = [op |-> op, arg |-> id, hook |-> listener]
      /\ UNCHANGED <<block, transaction, nextId, events, notifying, disk, written>>
  BY <1>2, Zenon DEF Call
<1>4. call'.op = op /\ call'.arg = id
  BY <1>3
<1>5. /\ WrittenBack'
      /\ \A b \in Blocks : /\ Seen(b)' = Seen(b) /\ Undone(b)' = Undone(b)
                           /\ InMain(b)' = InMain(b)
  <2>1. Untouched
    BY <1>3 DEF Untouched
  <2>2. QED
    BY <2>1, UntouchedViews
<1>6. /\ call = NoCall /\ op \in {"end", "detach"} /\ id \in Ids /\ history' = history
      /\ pc \notin {"replay", "super"} /\ pc' \in {"free", "failed"} /\ ~hasSub'
      /\ pc' = "failed" => /\ op = "detach" /\ Len(history) >= 2
                           /\ \A b \in Blocks : InMain(b) = Before[b]
      /\ Parted(Cache, op, id) = Moving /\ (Moving = {} \/ Mover = id) /\ Mover \in {NoId, id}
      /\ \A b \in Blocks :
            /\ Seen(b) = Newest[b] /\ TargetOf(op, b) = history[1][b] /\ Target(b) = history[1][b]
  BY <1>2 DEF Leaving
<1>7. Mover' = id /\ (Parting' <=> op = "detach") /\ Safe'
  BY <1>4, <1>6 DEF Mover, Parting, Safe, Entering, Committing
<1>8. Moving' = Moving
  <2>1. Cache.block = block /\ id # NoId
    BY <1>6 DEF Cache
  <2>2. Moving' = Parted(Cache, op, id)
    BY <1>3, <1>7, <2>1 DEF Parted, Moving, InTransaction
  <2>3. QED
    BY <1>6, <2>2
<1>9. \A b \in Blocks : Target(b)' = Target(b) /\ Target(b) = history'[1][b]
  <2>1. \A b \in Blocks : Target(b)' = TargetOf(op, b)
    BY <1>5, <1>6, <1>7 DEF Target, TargetOf
  <2>2. QED
    BY <1>6, <2>1
<1>10. SameContents
  BY <1>3, <1>5, <1>6, <1>7, <1>8, <1>9 DEF SameContents
<1>11. SameOwners
  <2>1. \A i \in Ids : Open(i)' => Open(i)
    BY <1>3 DEF Open
  <2>2. \A i \in Ids : i = Mover => Mover' = Mover
    BY <1>6, <1>7
  <2>3. QED
    BY <1>2, <1>3, <2>1, <2>2 DEF SameOwners
<1>12. Views'
  <2>1. /\ history \in Seq([Blocks -> Values]) /\ history # <<>>
    BY DEF Known, Views
  <2>2. Newest' = Newest /\ Before' = Before
    BY <1>6 DEF Newest, Before
  <2>3. SubWaits' => pc' = "failed"
    BY <1>4, <1>6 DEF SubWaits, SubRuns, Committing
  <2>4. QED
    BY <1>5, <1>6, <1>7, <1>9, <2>1, <2>2, <2>3 DEF Views
<1>13. SubKnown'
  BY <1>4, <1>6 DEF SubKnown, Entering
<1>14. QED
  BY <1>5, <1>10, <1>11, <1>12, <1>13 DEF Known

\* After its writes, it does.
LEMMA LeavesWritten ==
    ASSUME Base, Known, ClientWritten, Committing(call.op), JournalSame
    PROVE  WrittenBack' /\ \E c, op, i, listener : LeaveStep(c, op, i, listener)
<1>1. Inv1 /\ NoDiscards /\ Control /\ JournalTypes
  BY DEF Base
<1>2. PICK S, d, op, i, listener : LeaveGoesOn(S, d, op, i, listener)
  BY DEF LeaveGoesOn
<1>3. /\ MayLeave(d, op, i, listener) /\ Leaves(d, op, i, listener) /\ Left(op)
      /\ pc \in {"free", "failed"} /\ Mover = i /\ S \in SUBSET Blocks
      /\ \A b \in Blocks : d.block[b] = IF b \in S THEN Done(block[b]) ELSE block[b]
  BY <1>2, LeaveWritten
<1>4. /\ pc' = pc /\ (hasSub' <=> hasSub) /\ history' = history /\ (unwritten' <=> unwritten)
      /\ UNCHANGED <<disk, toWrite>> /\ written' = [written EXCEPT !["client"] = {}]
  BY DEF ClientWritten, WriteEnds, JournalSame, journalVars
<1>5. op = call.op /\ i = call.arg /\ S = written["client"] /\ i \in Ids /\ op \in {"end", "detach"}
  BY <1>2, <1>3 DEF LeaveGoesOn, MayLeave
<1>6. ~hasSub
  <2>1. CASE op = "end"
    BY <1>1, <1>5, <2>1 DEF Control, Kept, Known, SubKnown
  <2>2. CASE op = "detach"
    BY <1>5, <2>2 DEF Known, SubKnown
  <2>3. QED
    BY <1>5, <2>1, <2>2
<1>7. Safe /\ (Parting <=> op = "detach")
  BY <1>3, <1>5 DEF Safe, Parting, Entering
<1>8. \A b \in Blocks : /\ Seen(b) = Newest[b] /\ Target(b) = history[1][b]
                        /\ TargetOf(op, b) = Target(b)
  <2>1. \A b \in Blocks : Seen(b) = Newest[b] /\ Target(b) = history[1][b]
    BY <1>3, <1>7 DEF Known, Views
  <2>2. \A b \in Blocks : TargetOf(op, b) = Target(b)
    BY <1>3, <1>5, <1>7 DEF Target, TargetOf
  <2>3. QED
    BY <2>1, <2>2
<1>9. Parted(d, op, i) = Moving
  <2>1. Parted(d, op, i) = Parted(Cache, op, i)
    <3>1. \A o, j : Parted(d, o, j) = Parted(Cache, o, j)
      BY <1>1, <1>3, PartedDone
    <3>2. QED
      BY <3>1
  <2>2. Cache.block = block /\ i # NoId
    BY <1>5 DEF Cache
  <2>3. Parted(Cache, op, i) = Moving
    BY <1>3, <1>7, <2>2 DEF Parted, Moving, InTransaction
  <2>4. QED
    BY <2>1, <2>3
<1>10. ASSUME NEW b \in Blocks
       PROVE  /\ SeenOf(d.block[b], disk[b]) = Seen(b) /\ MainOf(d.block[b], disk[b]) = InMain(b)
              /\ \/ d.block[b].previous = block[b].previous
                 \/ d.block[b].previous = NoId /\ (b \notin Moving => disk[b] = Target(b))
  <2>1. CASE b \in S
    <3>1. b \in BusyWriting /\ disk[b] = Data(block[b])
      BY <1>5, <2>1 DEF BusyWriting, Busy, Known, WrittenBack, Writers
    <3>2. b \notin Moving => disk[b] = Target(b)
      BY <1>1, <3>1, WritesTarget DEF Inv1, WritersOK
    <3>3. PICK r, e : r \in BlockType /\ r = block[b] /\ e = disk[b]
      BY <1>1, InvShapes
    <3>4. /\ SeenOf(Done(r), e) = SeenOf(r, e) /\ MainOf(Done(r), e) = MainOf(r, e)
          /\ Done(r).previous = NoId
      BY <3>3, DoneViews
    <3>5. QED
      BY <1>3, <2>1, <3>2, <3>3, <3>4 DEF Seen, InMain
  <2>2. CASE b \notin S
    BY <1>3, <2>2 DEF Seen, InMain
  <2>3. QED
    BY <2>1, <2>2
<1>11. pc' = "failed" => /\ op = "detach" /\ Len(history) >= 2
                         /\ \A b \in Blocks : InMain(b) = Before[b]
  <2>1. pc' = "failed" => op = "detach"
    BY <1>3, <1>5 DEF Left, Kept, Owning
  <2>2. pc = "failed" => Len(history) >= 2 /\ \A b \in Blocks : InMain(b) = Before[b]
    BY DEF Known, Views, SubWaits
  <2>3. QED
    BY <1>4, <2>1, <2>2
<1>12. op = "detach" => id' = nextId
  BY <1>3 DEF Left
<1>13. LeaveStep(d, op, i, listener)
  BY <1>3, <1>4, <1>6, <1>8, <1>9, <1>10, <1>11, <1>12 DEF LeaveStep
<1>14. \A w \in Writers : \A b \in written'[w] : b \in written[w] /\ d.block[b] = block[b]
  <2>1. written \in [Writers -> SUBSET Blocks] /\ Disjoint
    BY <1>1 DEF Inv1, Types, OtherTypes, WritersOK
  <2>2. SUFFICES ASSUME NEW w \in Writers, NEW b \in written'[w]
                 PROVE  b \in written[w] /\ b \in Blocks /\ b \notin S
    BY <1>3
  <2>3. w \in {"background", "memory"} /\ b \in written[w]
    BY <1>4, <2>1 DEF Writers
  <2>4. QED
    BY <1>5, <2>1, <2>3 DEF Busy, Disjoint, Writers
<1>15. QED
  BY <1>1, <1>13, <1>14, LeaveStepWritten DEF Known

\* Views that stay leave who owns what.
LEMMA QuietOwners ==
    ASSUME Base, Quiet, CallFrame, UNCHANGED <<id, pc, unwritten>>
    PROVE  /\ SameOwners
           /\ Mover' = Mover /\ Moving' = Moving
<1>1. Mover' = Mover /\ Moving' = Moving
  BY QuietMoving DEF Base
<1>2. nextId \in Nat /\ nextId' = nextId /\ \A i \in Ids : Open(i)' <=> Open(i)
  BY InvParts DEF Base, Quiet, SameOpen
<1>3. QED
  BY <1>1, <1>2 DEF SameOwners

\* A writer writes a block.
LEMMA WriteBlockKnown ==
    ASSUME Base, Known, NEW w \in Writers, WriteBlock(w), JournalSame
    PROVE  Known' /\ SameContents /\ SameOwners
<1>1. /\ Inv1 /\ Control /\ Replaying /\ WrittenBack /\ toWrite[w] # {}
  BY DEF Base, Known, WriteBlock
<1>2. PICK b : WroteOne(w, b)
  BY <1>1, WroteOneIs
<1>3. /\ UNCHANGED <<block, transaction, nextId, call>> /\ b \in Blocks
      /\ MayBeWritten(block[b]) /\ disk' = [disk EXCEPT ![b] = Data(block[b])]
      /\ disk \in [Blocks -> Values]
  BY <1>2 DEF WroteOne
<1>4. /\ WrittenBack' /\ disk'[b] = Undone(b)
      /\ \A a \in Blocks : /\ Seen(a)' = Seen(a) /\ Undone(a)' = Undone(a)
                           /\ InMain(a)' = InMain(a)
                           /\ a # b => disk'[a] = disk[a]
  BY <1>1, <1>2, WroteOneViews
<1>5. pc # "replay"
  BY <1>1, NotReplaying
<1>6. Quiet /\ CallFrame
  BY <1>3, QuietSame DEF CallFrame
<1>7. UNCHANGED <<id, pc, unwritten, hasSub, history>>
  BY DEF JournalSame, journalVars
<1>8. Known' /\ SameViews
  BY <1>4, <1>5, <1>6, <1>7, QuietKnown
<1>9. /\ SameOwners /\ Mover' = Mover /\ Moving' = Moving
  BY <1>6, <1>7, QuietOwners
<1>10. b \notin Moving => disk'[b] = Target(b)
  <2>1. disk'[b] = Data(block[b])
    BY <1>3
  <2>2. QED
    BY <1>1, <1>3, <2>1, WritesTarget
<1>11. \A a \in Blocks :
          \/ disk'[a] = disk[a] /\ block'[a].previous = block[a].previous
          \/ disk'[a] = Undone(a) /\ (a \notin Moving => disk'[a] = Target(a))
  BY <1>3, <1>4, <1>10
<1>12. SameContents
  BY <1>5, <1>7, <1>8, <1>9, <1>11 DEF SameContents, SameViews
<1>13. QED
  BY <1>8, <1>9, <1>12

\* A writer is done with the blocks S: what they have is on the disk.
BlocksWritten(S) ==
    /\ S \in SUBSET Blocks /\ disk' = disk
    /\ \A b \in S : MayBeWritten(block[b]) /\ disk[b] = Data(block[b])
    /\ \A b \in Blocks : block'[b] = IF b \in S THEN Done(block[b]) ELSE block[b]
    /\ \A w \in Writers : written'[w] \subseteq written[w] \ S

\* Marking blocks as written keeps the second part.
LEMMA BlocksWrittenKnown ==
    ASSUME Base, Known, NEW S, BlocksWritten(S), Quiet, CallFrame, JournalSame, pc # "replay"
    PROVE  Known' /\ SameContents /\ SameOwners
<1>1. /\ Inv1 /\ Control /\ WrittenBack
  BY DEF Base, Known
<1>2. UNCHANGED <<id, pc, unwritten, hasSub, history>>
  BY DEF JournalSame, journalVars
<1>3. ASSUME NEW b \in Blocks
      PROVE  Seen(b)' = Seen(b) /\ Undone(b)' = Undone(b) /\ InMain(b)' = InMain(b)
  <2>1. block[b] \in BlockType /\ disk' = disk
    BY <1>1, InvParts DEF BlocksWritten
  <2>2. block'[b] = IF b \in S THEN Done(block[b]) ELSE block[b]
    BY DEF BlocksWritten
  <2>3. QED
    BY <2>1, <2>2, DoneViews DEF Seen, Undone, InMain
<1>4. WrittenBack'
  <2>1. ASSUME NEW w \in Writers, NEW b \in written'[w]
        PROVE  disk'[b] = Data(block'[b])
    <3>1. b \in written[w] /\ b \notin S /\ disk' = disk
      BY DEF BlocksWritten
    <3>2. b \in Blocks
      BY <1>1, <3>1, InvParts DEF Types, OtherTypes
    <3>3. block'[b] = block[b]
      BY <3>1, <3>2 DEF BlocksWritten
    <3>4. QED
      BY <1>1, <3>1, <3>3 DEF WrittenBack
  <2>2. QED
    BY <2>1 DEF WrittenBack
<1>5. Known' /\ SameViews
  BY <1>2, <1>3, <1>4, QuietKnown
<1>6. /\ SameOwners /\ Mover' = Mover /\ Moving' = Moving
  BY <1>2, QuietOwners
<1>7. ASSUME NEW b \in Blocks
      PROVE  \/ disk'[b] = disk[b] /\ block'[b].previous = block[b].previous
             \/ disk'[b] = Undone(b) /\ (b \notin Moving => disk'[b] = Target(b))
  <2>1. CASE b \in S
    <3>1. disk' = disk /\ disk[b] = Data(block[b]) /\ MayBeWritten(block[b])
      BY <2>1 DEF BlocksWritten
    <3>2. Data(block[b]) = Undone(b)
      BY <1>1, <3>1, InvShapes, DataView DEF Undone
    <3>3. b \notin Moving => Data(block[b]) = Target(b)
      BY <1>1, <3>1, WritesTarget
    <3>4. QED
      BY <3>1, <3>2, <3>3
  <2>2. CASE b \notin S
    BY <2>2 DEF BlocksWritten
  <2>3. QED
    BY <2>1, <2>2
<1>8. SameContents
  BY <1>2, <1>5, <1>6, <1>7 DEF SameContents, SameViews
<1>9. QED
  BY <1>5, <1>6, <1>8

\* What a writer has written is as far as that.
LEMMA WriterWritten ==
    ASSUME Base, Known, NEW w \in Writers, NEW S, S = written[w],
           written' = [written EXCEPT ![w] = {}], disk' = disk,
           \A b \in Blocks : block'[b] = IF b \in S THEN Done(block[b]) ELSE block[b]
    PROVE  BlocksWritten(S)
<1>1. /\ Inv1 /\ WrittenBack /\ WritersOK /\ written \in [Writers -> SUBSET Blocks]
  BY InvParts DEF Base, Known, Inv1, Types, OtherTypes
<1>2. S \in SUBSET Blocks /\ S \subseteq BusyWriting
  BY <1>1 DEF BusyWriting, Busy, Writers
<1>3. \A b \in S : MayBeWritten(block[b]) /\ disk[b] = Data(block[b])
  BY <1>1, <1>2 DEF WritersOK, WrittenBack
<1>4. \A v \in Writers : written'[v] \subseteq written[v] \ S
  <2>1. Disjoint
    BY <1>1 DEF WritersOK
  <2>2. ASSUME NEW v \in Writers, v # w PROVE written[v] \cap S = {}
    BY <2>1, <2>2 DEF Disjoint, Busy, Writers
  <2>3. QED
    BY <1>1, <2>2
<1>5. QED
  BY <1>2, <1>3, <1>4 DEF BlocksWritten

\* So does the background writer, when it is done with its blocks.
LEMMA BackgroundWrittenKnown ==
    ASSUME Base, Known, BackgroundWritten, JournalSame
    PROVE  Known' /\ SameContents /\ SameOwners
<1>1. Inv1
  BY DEF Base
<1>2. PICK w \in Writers : w = "background"
  BY DEF Writers
<1>3. PICK S : S = written[w]
  OBVIOUS
<1>4. PICK d : d = BlocksDone(Cache, S)
  OBVIOUS
<1>5. /\ S # {} /\ written' = [written EXCEPT ![w] = {}] /\ disk' = disk
      /\ UNCHANGED <<nextId, call>>
      /\ block' = d.block /\ transaction' = d.transaction
  BY <1>2, <1>3, <1>4 DEF BackgroundWritten, WriteEnds, Becomes
<1>6. S \in SUBSET Blocks
  BY <1>1, <1>3 DEF Inv1, Types, OtherTypes
<1>7. Quiet /\ \A b \in Blocks : block'[b] = IF b \in S THEN Done(block[b]) ELSE block[b]
  BY <1>1, <1>4, <1>5, <1>6, QuietDone
<1>8. CallFrame
  BY <1>5 DEF CallFrame
<1>9. pc # "replay"
  BY <1>3, <1>5, NotReplaying DEF Base
<1>10. BlocksWritten(S)
  BY <1>3, <1>5, <1>7, WriterWritten
<1>11. QED
  BY <1>7, <1>8, <1>9, <1>10, BlocksWrittenKnown

\* The same of the client's writer in a sync.
LEMMA SyncWrittenKnown ==
    ASSUME Base, Known, ClientWritten, call.op = "sync", JournalSame
    PROVE  Known' /\ SameContents /\ SameOwners
<1>1. Inv1
  BY DEF Base
<1>2. PICK w \in Writers : w = "client"
  BY DEF Writers
<1>3. PICK S : S = written["client"]
  OBVIOUS
<1>4. PICK d : d = BlocksDone(Cache, S)
  OBVIOUS
<1>5. CallMayFinish(d, S)
  BY <1>1, <1>3, <1>4, ClientWrittenParts
<1>6. /\ CacheOK(d, nextId) /\ Finish(d, call.op, call.arg, call.hook) /\ S \in SUBSET Blocks
  BY <1>5 DEF CallMayFinish
<1>7. d \in CacheType
  BY <1>6, CacheParts DEF CacheOK
<1>8. /\ block' = d.block /\ transaction' = d.transaction /\ nextId' = nextId
      /\ call' = [NoCall EXCEPT !.op = "wait"]
  <2>1. Becomes([d EXCEPT !.events = Append(@, Sync)]) /\ UNCHANGED nextId
        /\ call' = [NoCall EXCEPT !.op = "wait"]
    BY <1>6 DEF Finish
  <2>2. QED
    BY <1>7, <2>1 DEF Becomes, CacheType
<1>9. /\ S # {} /\ written' = [written EXCEPT ![w] = {}] /\ disk' = disk /\ S = written[w]
  BY <1>2, <1>3 DEF ClientWritten, WriteEnds
<1>10. Quiet /\ \A b \in Blocks : block'[b] = IF b \in S THEN Done(block[b]) ELSE block[b]
  BY <1>1, <1>4, <1>6, <1>8, QuietDone
<1>11. CallFrame
  BY <1>8 DEF CallFrame, NoCall
<1>12. pc # "replay"
  BY <1>9, NotReplaying DEF Base
<1>13. BlocksWritten(S)
  BY <1>9, <1>10, WriterWritten
<1>14. QED
  BY <1>10, <1>11, <1>12, <1>13, BlocksWrittenKnown

\* With an empty cache: what the disk holds is what the volume holds.
Vacant ==
    /\ EmptyCache /\ ~hasSub /\ history \in Seq([Blocks -> Values]) /\ history # <<>>
    /\ pc = "replay" \/ (pc = "free" /\ history = <<disk>>)

\* Then there is nothing to be known.
LEMMA VacantKnown == Vacant => Known
<1> SUFFICES ASSUME Vacant PROVE Known
  OBVIOUS
<1>1. /\ block = [b \in Blocks |-> Absent] /\ transaction = [i \in Ids |-> Gone]
      /\ written = [w \in Writers |-> {}] /\ call = NoCall /\ ~hasSub
      /\ pc \in {"free", "replay"}
  BY DEF Vacant, EmptyCache
<1>2. SubKnown
  BY <1>1 DEF SubKnown, NoCall, Entering
<1>3. WrittenBack
  BY <1>1 DEF WrittenBack
<1>4. ~SubRuns
  BY <1>1 DEF SubRuns, Open, Gone
<1>9. ~Safe
  BY <1>1 DEF Safe, Committing, NoCall
<1>10. ~SubWaits
  BY <1>1, <1>4 DEF SubWaits
<1>5. \A b \in Blocks : Seen(b) = disk[b] /\ Undone(b) = disk[b]
  BY <1>1 DEF Seen, Undone, SeenOf, UndoneOf, Absent, NewBlock
<1>6. pc = "free" => \A b \in Blocks : Newest[b] = disk[b] /\ history[1][b] = disk[b]
  <2>1. pc = "free" => Len(history) = 1 /\ history[1] = disk
    BY DEF Vacant
  <2>2. QED
    BY <2>1 DEF Newest
<1>7. Views
  BY <1>1, <1>5, <1>6, <1>9, <1>10 DEF Views, Vacant
<1>8. QED
  BY <1>2, <1>3, <1>7 DEF Known

\* It holds in the beginning.
LEMMA InitKnown ==
    ASSUME Init
    PROVE  Known
<1>1. EmptyCache
  BY BlockCacheAssumption DEF Init, CacheInit, EmptyCache, Values
<1>2. Vacant
  BY <1>1 DEF Vacant, EmptyCache, Init
<1>3. QED
  BY <1>2, VacantKnown

\* After a crash, and during the replay.
LEMMA CrashKnown ==
    ASSUME Known, Base', Crash
    PROVE  Known'
<1>1. /\ ~hasSub' /\ history' = history /\ pc' = "replay"
  BY DEF Crash
<1>2. EmptyCache'
  BY <1>1 DEF Base, Replaying
<1>3. Vacant'
  BY <1>1, <1>2 DEF Vacant, Known, Views
<1>4. QED
  BY <1>3, VacantKnown, PTL

\* The replay keeps the second part, and does not fail.
LEMMA ReplayKnown ==
    ASSUME Base, Known, Base', ReplayNext \/ ReplayBlock
    PROVE  Known' /\ pc = "replay" /\ pc' = "replay"
<1>1. /\ pc = "replay" /\ history' = history /\ (hasSub' <=> hasSub)
      /\ pc' \in {"replay", "readonly"}
  BY DEF ReplayNext, ReplayBlock
<1>2. pc' = "replay"
  BY <1>1 DEF Base, JournalTypes, Owning, Entering
<1>3. EmptyCache' /\ ~unwritten /\ ~hasSub
  BY <1>1, <1>2 DEF Base, Replaying, Known, SubKnown
<1>4. Vacant'
  BY <1>1, <1>2, <1>3 DEF Vacant, Known, Views
<1>5. Known'
  BY <1>4, VacantKnown, PTL
<1>6. QED
  BY <1>1, <1>2, <1>5

\* At the end of the replay.
LEMMA ReplayEndsKnown ==
    ASSUME Base, Known, ReplayEnds
    PROVE  Known' /\ Vacant' /\ pc' = "free"
<1>1. /\ pc = "replay" /\ pc' = "free" /\ history' = <<disk>> /\ (hasSub' <=> hasSub)
      /\ UNCHANGED cacheVars
  BY DEF ReplayEnds
<1>2. EmptyCache /\ ~unwritten /\ ~hasSub /\ disk \in [Blocks -> Values]
  BY <1>1 DEF Base, Replaying, Known, SubKnown, EmptyCache
<1>3. EmptyCache' /\ disk' = disk
  BY <1>1, <1>2 DEF EmptyCache, cacheVars
<1>4. Vacant'
  BY <1>1, <1>2, <1>3 DEF Vacant
<1>5. Known'
  BY <1>4, VacantKnown, PTL
<1>6. QED
  BY <1>1, <1>4, <1>5

\* Nothing happens.
LEMMA StutterKnown ==
    ASSUME Base, Known, UNCHANGED vars
    PROVE  /\ Known'
           /\ pc # "replay" => SameContents /\ SameOwners
<1>1. UNCHANGED <<block, transaction, nextId, disk, written, call, id, pc, unwritten, hasSub, history>>
  BY DEF vars, cacheVars, journalVars
<1>2. CASE pc # "replay"
  <2>1. Untouched /\ CallFrame
    BY <1>1 DEF Untouched, CallFrame
  <2>2. QED
    BY <1>1, <1>2, <2>1, UntouchedKnown
<1>3. CASE pc = "replay"
  <2>1. EmptyCache /\ ~hasSub
    BY <1>3 DEF Base, Replaying, Known, SubKnown
  <2>2. UNCHANGED cacheVars
    BY DEF vars
  <2>3. EmptyCache'
    BY <2>1, <2>2 DEF EmptyCache, cacheVars
  <2>4. Vacant'
    BY <1>1, <1>3, <2>1, <2>3 DEF Vacant, Known, Views
  <2>5. Known'
    BY <2>4, VacantKnown, PTL
  <2>6. QED
    BY <1>3, <2>5
<1>4. QED
  BY <1>2, <1>3

\* The entries that are still needed begin at or after q.
Needed(g, q) ==
    /\ Moving # {} => Mover \in Ids /\ q <= g.from[Mover]
    /\ \A b \in Blocks : block[b].previous \in Ids => q <= g.from[block[b].previous]

\* What is needed of the log is still there if it begins at q.
LEMMA NeededStays ==
    ASSUME NEW g \in Logs, NEW h \in Logs, NEW q \in Nat, pc # "replay", Complete(g),
           Moved(g, h, g.s, q, g.e, g.f, g.x), g.sb <= q, g.e <= g.f, Needed(g, q)
    PROVE  Complete(h)
<1>1. /\ h.chunk = g.chunk /\ h.from = g.from /\ h.f = g.f /\ h.sb = q /\ h.s = g.s /\ h.e = g.e
      /\ g.sb \in Nat /\ g.e \in Nat /\ g.f \in Nat
      /\ \A i \in Ids : g.from[i] \in Nat
  BY LogNumbers DEF Moved
<1>2. \A p, b, k, j : LastAt(h, p, b, k, j) <=> LastAt(g, p, b, k, j)
  BY <1>1 DEF LastAt
<1>3. \A p, b, v : Latest(h, p, b, v) <=> Latest(g, p, b, v)
  BY <1>1, <1>2 DEF Latest
<1>4. ASSUME NEW p \in Nat, p <= g.f, NEW b, NEW i, InLog(g, g.sb, p, b, i),
             i \in Ids => q <= g.from[i]
      PROVE  i \in Ids /\ InLog(h, h.sb, p, b, i)
  <2>1. PICK k \in g.sb..p - 1 : \E j \in 1..Len(g.chunk[k].runs) :
                LastAt(g, p, b, k, j) /\ g.chunk[k].owner = i
    BY <1>4 DEF InLog
  <2>2. k \in g.sb..g.f - 1 /\ k \in Nat
    BY <1>1, <1>4, <2>1
  <2>3. i \in Ids /\ g.from[i] <= k
    BY <2>1, <2>2 DEF Complete, Owners
  <2>4. q <= k
    <3>1. PICK n \in Nat : n = g.from[i]
      BY <1>1, <2>3
    <3>2. q <= n /\ n <= k
      BY <1>4, <2>3, <3>1
    <3>3. QED
      BY <2>2, <3>2
  <2>5. k \in h.sb..p - 1
    BY <1>1, <1>4, <2>1, <2>2, <2>4
  <2>6. QED
    BY <1>1, <1>2, <2>1, <2>3, <2>5 DEF InLog
<1>5. Holds(h)
  <2> SUFFICES ASSUME NEW b \in Blocks
               PROVE  /\ Latest(h, h.f, b, Target(b))
                      /\ b \in Moving => InLog(h, h.sb, h.f, b, Mover)
                      /\ b \notin Moving =>
                            disk[b] = Target(b) \/ InLog(h, h.sb, h.f, b, block[b].previous)
    BY DEF Holds
  <2>1. /\ Latest(g, g.f, b, Target(b))
        /\ b \in Moving => InLog(g, g.sb, g.f, b, Mover)
        /\ b \notin Moving => disk[b] = Target(b) \/ InLog(g, g.sb, g.f, b, block[b].previous)
    BY DEF Complete, Holds
  <2>2. g.f <= g.f
    BY <1>1
  <2>3. b \in Moving => InLog(h, h.sb, h.f, b, Mover)
    BY <1>1, <1>4, <2>1, <2>2 DEF Needed
  <2>4. InLog(g, g.sb, g.f, b, block[b].previous) => InLog(h, h.sb, h.f, b, block[b].previous)
    BY <1>1, <1>4, <2>2 DEF Needed
  <2>5. QED
    BY <1>1, <1>3, <2>1, <2>3, <2>4
<1>6. HeldBefore(h)
  <2> SUFFICES ASSUME NEW b \in Blocks, pc = "super"
               PROVE  /\ Latest(h, h.e, b, Undone(b))
                      /\ disk[b] = Undone(b) \/ InLog(h, h.sb, h.e, b, block[b].previous)
    BY DEF HeldBefore
  <2>1. /\ Latest(g, g.e, b, Undone(b))
        /\ disk[b] = Undone(b) \/ InLog(g, g.sb, g.e, b, block[b].previous)
    BY DEF Complete, HeldBefore
  <2>2. InLog(g, g.sb, g.e, b, block[b].previous) => InLog(h, h.sb, h.e, b, block[b].previous)
    BY <1>1, <1>4 DEF Needed
  <2>3. QED
    BY <1>1, <1>3, <2>1, <2>2
<1>7. Owners(h)
  <2>1. h.sb..h.f - 1 \subseteq g.sb..g.f - 1
    BY <1>1
  <2>2. QED
    BY <1>1, <2>1 DEF Complete, Owners
<1>8. QED
  BY <1>5, <1>6, <1>7 DEF Complete, HeldReplay

\* The hook that lets log_start pass an entry passes none that is needed.
LEMMA PassedNeeded ==
    ASSUME Base, Base', NEW g \in Logs, Geometry(g), EntryWritten, NEW q, Passed(g, q)
    PROVE  Needed(g, q)
<1>1. /\ UNCHANGED <<block, transaction, call, pc, id>> /\ pc # "replay"
  <2>1. UNCHANGED <<block, transaction, call, pc, id>> /\ notifying # NoId
    BY DEF EntryWritten, HookReturns, cacheVars
  <2>2. QED
    BY <2>1, NotReplaying DEF Base
<1>2. /\ Inv1 /\ Control /\ JournalTypes' /\ Tracked' /\ Reasons'
  BY DEF Base
<1>3. ASSUME NEW i, InEntries(i)' PROVE q <= g.from[i]
  BY <1>3 DEF Passed, InEntries
<1>4. ASSUME NEW b \in Blocks, block[b].previous \in Ids PROVE q <= g.from[block[b].previous]
  <2>1. PICK i \in Ids : i = block[b].previous /\ i # NoId
    BY <1>4
  <2>2. transaction[i].state = "closed"
    BY <1>2, <2>1, InvParts DEF ShapeOf
  <2>3. /\ \A c \in Blocks : block'[c].previous # NoId => transaction'[block'[c].previous].hook
        /\ \A j \in Ids : transaction'[j].state = "closed" /\ transaction'[j].hook => InEntries(j)'
    BY <1>2 DEF Tracked, TrackedIn, Waiting, Cache
  <2>4. QED
    BY <1>1, <1>3, <2>1, <2>2, <2>3
<1>5. ASSUME Moving # {} PROVE Mover \in Ids /\ q <= g.from[Mover]
  <2>1. Mover # NoId
    BY <1>5 DEF Moving
  <2>2. Mover \in Ids
    BY <1>2, <2>1, MoverOpen
  <2>3. CASE pc \in {"super", "end"}
    <3>1. Mover = id /\ g.from[id] = g.e /\ q <= g.e
      BY <2>3 DEF Mover, Entering, Geometry, Placed, Passed
    <3>2. QED
      BY <2>2, <3>1
  <2>4. CASE pc \in {"flush", "add"}
    <3>1. Mover = id /\ q <= g.from[id]
      BY <2>4 DEF Mover, Entering, Passed
    <3>2. QED
      BY <2>2, <3>1
  <2>5. CASE pc = "ending"
    <3>1. InEntries(id)' /\ id' = id
      BY <1>1, <1>2, <2>5 DEF Reasons
    <3>2. PICK i : i = id /\ i = Mover
      BY <2>5 DEF Mover, Entering
    <3>3. InEntries(i)'
      BY <3>1, <3>2 DEF InEntries
    <3>4. QED
      BY <1>3, <2>2, <3>2, <3>3
  <2>6. CASE pc \notin Entering
    <3>1. Committing(call.op) /\ Mover = call.arg /\ (Parting <=> call.op = "detach")
      BY <2>1, <2>6 DEF Mover, Parting
    <3>2. Parted(Cache, call.op, call.arg) # {}
      <4>1. Cache.block = block
        BY DEF Cache
      <4>2. Parted(Cache, call.op, call.arg) = Moving
        BY <2>1, <3>1, <4>1 DEF Parted, Moving, InTransaction
      <4>3. QED
        BY <1>5, <4>2
    <3>3. InEntries(call.arg)'
      <4>1. LeavingOK(Cache, call.op, call.arg, call.hook)'
        BY <1>1, <1>2, <3>1 DEF Reasons
      <4>2. Parted(Cache, call.op, call.arg)' = Parted(Cache, call.op, call.arg)
        BY <1>1 DEF Parted, InTransaction, Cache
      <4>3. QED
        BY <3>2, <4>1, <4>2 DEF LeavingOK
    <3>4. PICK i : i = call.arg /\ i = Mover
      BY <3>1
    <3>5. InEntries(i)'
      BY <1>1, <3>3, <3>4 DEF InEntries
    <3>6. QED
      BY <1>3, <2>2, <3>4, <3>5
  <2>7. QED
    BY <2>3, <2>4, <2>5, <2>6 DEF Entering
<1>6. QED
  BY <1>4, <1>5 DEF Needed

\* It keeps the log complete.
LEMMA EntryWrittenComplete ==
    ASSUME Base, Base', Known, NEW g \in Logs, Geometry(g), Complete(g), EntryWritten, ~flaw'
    PROVE  \E h \in Logs : Geometry(h)' /\ Complete(h)'
<1>1. PICK h \in Logs : Geometry(h)' /\ \E q : Passed(g, q) /\ Moved(g, h, g.s, q, g.e, g.f, g.x)
  BY EntryWrittenGeometry
<1>2. PICK q : Passed(g, q) /\ Moved(g, h, g.s, q, g.e, g.f, g.x)
  BY <1>1
<1>3. Needed(g, q)
  BY <1>2, PassedNeeded
<1>4. q \in Nat /\ g.sb <= q /\ g.e <= g.f
  BY <1>2, LogNumbers DEF Passed, Geometry, Order
<1>5. SameContents /\ SameOwners
  BY AwayKnown
<1>6. Complete(h)
  BY <1>2, <1>3, <1>4, <1>5, NeededStays DEF SameContents
<1>7. SameLog(h, h)
  <2>1. h.s \in Nat
    BY LogNumbers
  <2>2. QED
    BY <2>1 DEF SameLog
<1>8. Complete(h)'
  BY <1>5, <1>6, <1>7, SameContentsKept
<1>9. QED
  BY <1>1, <1>8

\* Steps that leave the log as it is, but for the places in it.
LEMMA MovedComplete ==
    ASSUME NEW g \in Logs, Geometry(g), Complete(g), SameContents, SameOwners,
           NEW h \in Logs, NEW s, NEW e, NEW x, Moved(g, h, s, g.sb, e, g.f, x),
           s \in {g.s, g.sb}, pc' = "super" => e = g.e
    PROVE  Complete(h)'
<1>1. g.s \in Nat /\ g.sb \in Nat /\ g.s <= g.sb
  BY LogNumbers DEF Geometry, Order
<1>2. s \in Nat /\ g.s <= s
  BY <1>1
<1>3. SameLog(g, h)
  BY <1>1, <1>2 DEF SameLog, Moved
<1>4. QED
  BY <1>3, SameContentsKept

\* The superblock is written, or the pointers in the memory are set.
LEMMA PointersComplete ==
    ASSUME Base, Known, NEW g \in Logs, Geometry(g), Complete(g),
           WriteSuperBlock \/ HookWritesSuper \/ SetLogEnd \/ HookSetsStart
    PROVE  \E h \in Logs : Geometry(h)' /\ Complete(h)'
<1>1. SameContents /\ SameOwners
  BY IdleKnown, AwayKnown
<1>2. CASE WriteSuperBlock \/ HookWritesSuper
  <2>1. PICK h \in Logs : Geometry(h)' /\ Moved(g, h, g.sb, g.sb, g.e, g.f, g.f)
    BY <1>2, SuperWrittenGeometry
  <2>2. Complete(h)'
    BY <1>1, <2>1, MovedComplete
  <2>3. QED
    BY <2>1, <2>2
<1>3. CASE SetLogEnd
  <2>1. PICK h \in Logs : Geometry(h)' /\ Moved(g, h, g.s, g.sb, g.f, g.f, g.x)
    BY <1>3, SetLogEndGeometry
  <2>2. pc' # "super"
    BY <1>3 DEF SetLogEnd
  <2>3. Complete(h)'
    BY <1>1, <2>1, <2>2, MovedComplete
  <2>4. QED
    BY <2>1, <2>3
<1>4. CASE HookSetsStart
  <2>1. PICK h \in Logs : Geometry(h)' /\ Moved(g, h, g.s, g.sb, g.e, g.f, g.x)
    BY <1>4, HookSetsStartGeometry
  <2>2. Complete(h)'
    BY <1>1, <2>1, MovedComplete
  <2>3. QED
    BY <2>1, <2>2
<1>5. QED
  BY <1>2, <1>3, <1>4

\* Steps that leave the log alone.
LEMMA AloneComplete ==
    ASSUME NEW g \in Logs, Complete(g), SameContents, SameOwners
    PROVE  Complete(g)'
<1>1. SameLog(g, g)
  BY LogNumbers DEF SameLog
<1>2. QED
  BY <1>1, SameContentsKept

\* The entry of the transaction after what was in the log before: its current data.
NewEntry(g, h) ==
    /\ g.e \in Nat /\ h.f \in Nat /\ g.e <= h.f
    /\ \A k \in 0..g.e - 1 : h.chunk[k] = g.chunk[k]
    /\ \A k \in g.e..h.f - 1 :
        /\ h.chunk[k].owner = id
        /\ \A j \in 1..Len(h.chunk[k].runs) :
            /\ h.chunk[k].runs[j] \in Logged
            /\ h.chunk[k].data[j] = block[h.chunk[k].runs[j]].current
    /\ \A k, l \in g.e..h.f - 1 : \A j \in 1..Len(h.chunk[k].runs), i \in 1..Len(h.chunk[l].runs) :
            h.chunk[k].runs[j] = h.chunk[l].runs[i] => k = l
    /\ \A b \in Logged : \E k \in g.e..h.f - 1 : \E j \in 1..Len(h.chunk[k].runs) :
            h.chunk[k].runs[j] = b

\* The arrays that _WriteTransactionToLog() has written are such an entry.
LEMMA NewEntryIs ==
    ASSUME Inv1, id \in Ids, NEW g \in Logs, NEW n, NEW runs, NEW off, Layout(n, runs, off),
           NEW h, Appended(g, h, n, runs, off)
    PROVE  NewEntry(g, h)
<1>1. /\ n \in Nat \ {0} /\ runs \in [0..n - 1 -> Seq(Blocks)] /\ g.e \in Nat /\ h.f = g.e + n
  BY LogNumbers DEF Layout, Appended
<1>2. h.f \in Nat /\ g.e <= h.f
  BY <1>1
<1>3. \A k \in 0..g.e - 1 : h.chunk[k] = g.chunk[k]
  BY DEF Appended
<1>4. ASSUME NEW k \in g.e..h.f - 1
      PROVE  \E a \in 0..n - 1 : k = g.e + a /\ h.chunk[k] = EntryArray(runs[a])
  <2>0. PICK e \in Nat : e = g.e /\ h.f = e + n /\ k \in e..e + n - 1 /\ n \in Nat
    BY <1>1
  <2>1. PICK a \in Int : a = k - e
    BY <2>0
  <2>2. k \in Nat /\ a \in 0..n /\ a < n /\ a \in 0..n - 1 /\ k = g.e + a
    BY <2>0, <2>1
  <2>3. h.chunk[k] = EntryArray(runs[a])
    BY <2>2 DEF Appended
  <2>4. QED
    BY <2>2, <2>3
<1>5. ASSUME NEW a \in 0..n - 1
      PROVE  /\ EntryArray(runs[a]).owner = id /\ EntryArray(runs[a]).runs = runs[a]
             /\ \A j \in 1..Len(runs[a]) :
                    /\ runs[a][j] \in Logged
                    /\ EntryArray(runs[a]).data[j] = block[runs[a][j]].current
  <2>1. runs[a] \in Seq(Blocks) /\ \A j \in 1..Len(runs[a]) : runs[a][j] \in Logged
    BY <1>1 DEF Layout
  <2>2. QED
    BY <2>1, EntryArrayType
<1>6. \A k \in g.e..h.f - 1 :
        /\ h.chunk[k].owner = id
        /\ \A j \in 1..Len(h.chunk[k].runs) :
            /\ h.chunk[k].runs[j] \in Logged
            /\ h.chunk[k].data[j] = block[h.chunk[k].runs[j]].current
  BY <1>4, <1>5
<1>7. ASSUME NEW k \in g.e..h.f - 1, NEW l \in g.e..h.f - 1,
             NEW j \in 1..Len(h.chunk[k].runs), NEW i \in 1..Len(h.chunk[l].runs),
             h.chunk[k].runs[j] = h.chunk[l].runs[i]
      PROVE  k = l
  <2>1. PICK a \in 0..n - 1 : k = g.e + a /\ h.chunk[k] = EntryArray(runs[a])
    BY <1>4
  <2>2. PICK c \in 0..n - 1 : l = g.e + c /\ h.chunk[l] = EntryArray(runs[c])
    BY <1>4
  <2>3. /\ j \in 1..Len(runs[a]) /\ i \in 1..Len(runs[c]) /\ runs[a][j] = runs[c][i]
    BY <1>5, <1>7, <2>1, <2>2
  <2>4. a = c
    BY <2>3 DEF Layout
  <2>5. QED
    BY <2>1, <2>2, <2>4
<1>8. ASSUME NEW b \in Logged
      PROVE  \E k \in g.e..h.f - 1 : \E j \in 1..Len(h.chunk[k].runs) : h.chunk[k].runs[j] = b
  <2>1. PICK a \in 0..n - 1 : \E j \in 1..Len(runs[a]) : runs[a][j] = b
    BY DEF Layout
  <2>2. PICK k \in Nat : k = g.e + a
    BY <1>1
  <2>3. k \in g.e..h.f - 1
    BY <1>1, <2>2
  <2>4. h.chunk[k].runs = runs[a]
    <3>1. a \in 0..n /\ a < n
      BY <1>1
    <3>2. h.chunk[k] = EntryArray(runs[a])
      BY <2>2, <3>1 DEF Appended
    <3>3. QED
      BY <1>5, <3>2
  <2>5. QED
    BY <2>1, <2>3, <2>4
<1>9. QED
  BY <1>1, <1>2, <1>3, <1>6, <1>7, <1>8 DEF NewEntry

\* What is the last of a block in the log then.
LEMMA NewLast ==
    ASSUME NEW g, NEW h, NewEntry(g, h), NEW b, NEW k \in Nat, k < h.f, NEW j
    PROVE  /\ k >= g.e /\ LastAt(h, h.f, b, k, j) =>
                    b \in Logged /\ h.chunk[k].data[j] = block[b].current
           /\ k < g.e /\ LastAt(h, h.f, b, k, j) =>
                    b \notin Logged /\ LastAt(g, g.e, b, k, j)
           /\ k < g.e /\ b \notin Logged /\ LastAt(g, g.e, b, k, j) => LastAt(h, h.f, b, k, j)
<1>1. /\ g.e \in Nat /\ h.f \in Nat /\ g.e <= h.f
      /\ \A l \in 0..g.e - 1 : h.chunk[l] = g.chunk[l]
      /\ \A l \in g.e..h.f - 1 : \A i \in 1..Len(h.chunk[l].runs) :
            /\ h.chunk[l].runs[i] \in Logged
            /\ h.chunk[l].data[i] = block[h.chunk[l].runs[i]].current
      /\ \A a \in Logged : \E l \in g.e..h.f - 1 : \E i \in 1..Len(h.chunk[l].runs) :
            h.chunk[l].runs[i] = a
  BY DEF NewEntry
<1>2. ASSUME k >= g.e, LastAt(h, h.f, b, k, j)
      PROVE  b \in Logged /\ h.chunk[k].data[j] = block[b].current
  <2>1. k \in g.e..h.f - 1 /\ j \in 1..Len(h.chunk[k].runs) /\ h.chunk[k].runs[j] = b
    BY <1>1, <1>2 DEF LastAt
  <2>2. QED
    BY <1>1, <2>1
<1>3. ASSUME k < g.e, LastAt(h, h.f, b, k, j)
      PROVE  b \notin Logged /\ LastAt(g, g.e, b, k, j)
  <2>1. /\ j \in 1..Len(h.chunk[k].runs) /\ h.chunk[k].runs[j] = b
        /\ \A l \in k + 1..h.f - 1 : \A i \in 1..Len(h.chunk[l].runs) : h.chunk[l].runs[i] # b
    BY <1>3 DEF LastAt
  <2>2. /\ \A l \in g.e..h.f - 1 : l \in k + 1..h.f - 1
        /\ \A l \in k + 1..g.e - 1 : l \in k + 1..h.f - 1 /\ l \in 0..g.e - 1
        /\ k \in 0..g.e - 1
    BY <1>1, <1>3
  <2>3. b \notin Logged
    BY <1>1, <2>1, <2>2
  <2>4. LastAt(g, g.e, b, k, j)
    <3>1. g.chunk[k] = h.chunk[k]
      BY <1>1, <2>2
    <3>2. \A l \in k + 1..g.e - 1 : g.chunk[l] = h.chunk[l] /\ l \in k + 1..h.f - 1
      BY <1>1, <2>2
    <3>3. \A l \in k + 1..g.e - 1 : \A i \in 1..Len(g.chunk[l].runs) : g.chunk[l].runs[i] # b
      BY <2>1, <3>2
    <3>4. QED
      BY <2>1, <3>1, <3>3 DEF LastAt
  <2>5. QED
    BY <2>3, <2>4
<1>4. ASSUME k < g.e, b \notin Logged, LastAt(g, g.e, b, k, j)
      PROVE  LastAt(h, h.f, b, k, j)
  <2>1. k \in 0..g.e - 1
    BY <1>1, <1>4
  <2>2. /\ j \in 1..Len(h.chunk[k].runs) /\ h.chunk[k].runs[j] = b
    BY <1>1, <1>4, <2>1 DEF LastAt
  <2>3. ASSUME NEW l \in k + 1..h.f - 1, NEW i \in 1..Len(h.chunk[l].runs)
        PROVE  h.chunk[l].runs[i] # b
    <3>1. CASE l < g.e
      <4>1. l \in 0..g.e - 1 /\ l \in k + 1..g.e - 1
        BY <1>1, <3>1
      <4>2. h.chunk[l] = g.chunk[l]
        BY <1>1, <4>1
      <4>3. \A m \in 1..Len(g.chunk[l].runs) : g.chunk[l].runs[m] # b
        BY <1>4, <4>1 DEF LastAt
      <4>4. QED
        BY <4>2, <4>3
    <3>2. CASE ~(l < g.e)
      <4>1. l \in g.e..h.f - 1
        BY <1>1, <3>2
      <4>2. QED
        BY <1>1, <1>4, <4>1
    <3>3. QED
      BY <3>1, <3>2
  <2>4. QED
    BY <2>2, <2>3 DEF LastAt
<1>5. QED
  BY <1>2, <1>3, <1>4

\* The last of a block that is in the entry is there.
LEMMA NewIn ==
    ASSUME NEW g, NEW h, NewEntry(g, h), NEW b \in Logged
    PROVE  \E k \in g.e..h.f - 1 : \E j \in 1..Len(h.chunk[k].runs) :
                LastAt(h, h.f, b, k, j) /\ h.chunk[k].owner = id
<1>1. PICK k \in g.e..h.f - 1 : \E j \in 1..Len(h.chunk[k].runs) : h.chunk[k].runs[j] = b
  BY DEF NewEntry
<1>2. PICK j \in 1..Len(h.chunk[k].runs) : h.chunk[k].runs[j] = b
  BY <1>1
<1>3. ASSUME NEW l \in k + 1..h.f - 1, NEW i \in 1..Len(h.chunk[l].runs)
      PROVE  h.chunk[l].runs[i] # b
  <2>1. g.e \in Nat /\ h.f \in Nat
    BY DEF NewEntry
  <2>2. l \in g.e..h.f - 1 /\ l # k
    BY <2>1
  <2>3. QED
    BY <1>2, <2>2 DEF NewEntry
<1>4. LastAt(h, h.f, b, k, j)
  BY <1>2, <1>3 DEF LastAt
<1>5. h.chunk[k].owner = id
  BY DEF NewEntry
<1>6. QED
  BY <1>4, <1>5

\* What the blocks are to be once the entry counts: what it holds of them, or what they were.
SetsEnd ==
    /\ pc = "log" /\ pc' = "super" /\ id \in Ids /\ Open(id) /\ id + 1 = nextId
    /\ UNCHANGED <<block, transaction, nextId, disk, id, call>>
    /\ Mover = NoId /\ Moving = {} /\ Mover' = id /\ Moving' = Logged
    /\ \A b \in Blocks : Target(b) = Undone(b) /\ Undone(b)' = Undone(b)
    /\ \A b \in Logged : Target(b)' = block[b].current
    /\ \A b \in Blocks \ Logged : Target(b)' = Undone(b)

\* Without a flaw, that is what setting log_end does.
LEMMA SetsEndIs ==
    ASSUME Base, SetEnd, ~flaw'
    PROVE  SetsEnd
<1>1. /\ Inv1 /\ Control /\ pc = "log" /\ pc' = "super"
      /\ UNCHANGED <<block, transaction, nextId, disk, id, call>>
  BY DEF Base, SetEnd, cacheVars
<1>2. /\ id \in Ids /\ Open(id) /\ id + 1 = nextId /\ ~Committing(call.op)
  BY <1>1, OpenHere
<1>3. Calm
  BY <1>1, <1>2 DEF Calm, Entering
<1>4. Resting
  BY <1>3, CalmRests
<1>5. Mover' = id /\ (Parting' <=> Detaching)
  BY <1>1 DEF Mover, Parting, Entering, Detaching, TransactionSize
<1>6. Logged = {b \in Blocks : block[b].transaction = id /\ (Detaching => block[b].parent # NoData)}
  BY DEF Logged, InTransaction, Cache
<1>7. Moving' = Logged
  BY <1>1, <1>2, <1>5, <1>6 DEF Moving
<1>8. \A b \in Blocks : Undone(b)' = Undone(b) /\ Seen(b)' = Seen(b) /\ InMain(b)' = InMain(b)
  BY <1>1 DEF Undone, Seen, InMain
<1>9. \A b \in Blocks : Target(b)' = IF Detaching THEN InMain(b) ELSE Seen(b)
  BY <1>2, <1>5, <1>8 DEF Target
<1>10. \A b \in Blocks : /\ block[b].transaction = NoId =>
                                Seen(b) = Undone(b) /\ InMain(b) = Undone(b)
                         /\ block[b].parent = NoData => InMain(b) = Undone(b)
                         /\ block[b].parent = Current /\ block[b].cached => InMain(b) = Seen(b)
                         /\ block[b].cached => Seen(b) = block[b].current
  BY PlainViews DEF Seen, Undone, InMain, SeenOf
<1>11. Detaching => \A b \in Logged : block[b].parent = Current
  BY <1>1 DEF SetEnd
<1>12. \A b \in Logged : Target(b)' = block[b].current
  BY <1>1, <1>2, <1>9, <1>10, <1>11, LoggedData
<1>13. ASSUME NEW b \in Blocks \ Logged
       PROVE  Target(b)' = Undone(b)
  <2>1. block[b].transaction \in {NoId, id} /\ Cache.block = block
    BY <1>1, <1>2, InvParts, OnlyOpen
  <2>2. block[b].transaction = id => Detaching /\ block[b].parent = NoData
    BY <1>6
  <2>3. QED
    BY <1>9, <1>10, <2>1, <2>2
<1>14. QED
  BY <1>1, <1>2, <1>4, <1>5, <1>7, <1>8, <1>12, <1>13 DEF SetsEnd, Resting

\* The log that ends with the entry holds that.
LEMMA SetsEndHolds ==
    ASSUME NEW g \in Logs, g.e = g.f, g.s <= g.sb, g.sb <= g.e, Complete(g), SetsEnd,
           NEW h, NewEntry(g, h), h.s = g.s, h.sb = g.sb
    PROVE  Holds(h)'
<1>0. pc' # "replay"
  BY DEF SetsEnd
<1> SUFFICES ASSUME NEW b \in Blocks
             PROVE  /\ Latest(h, h.f, b, Target(b)')
                    /\ b \in Moving' => InLog(h, h.sb, h.f, b, Mover')
                    /\ b \notin Moving' =>
                            disk'[b] = Target(b)' \/ InLog(h, h.sb, h.f, b, block'[b].previous)
  BY <1>0 DEF Holds
<1>1. /\ g.s \in Nat /\ g.sb \in Nat /\ g.e \in Nat /\ h.f \in Nat /\ g.e <= h.f
      /\ \A k \in 0..g.e - 1 : h.chunk[k] = g.chunk[k]
  BY LogNumbers DEF NewEntry
<1>2. /\ Latest(g, g.e, b, Undone(b))
      /\ disk[b] = Undone(b) \/ InLog(g, g.sb, g.e, b, block[b].previous)
  BY DEF Complete, Holds, SetsEnd
<1>3. /\ disk' = disk /\ block' = block /\ Mover' = id /\ Moving' = Logged
      /\ b \in Logged => Target(b)' = block[b].current
      /\ b \notin Logged => Target(b)' = Undone(b)
  BY DEF SetsEnd
<1>4. Latest(h, h.f, b, Target(b)')
  <2> SUFFICES ASSUME NEW k \in h.s..h.f - 1, NEW j \in 1..Len(h.chunk[k].runs),
                      LastAt(h, h.f, b, k, j)
               PROVE  h.chunk[k].data[j] = Target(b)'
    BY DEF Latest
  <2>1. k \in Nat /\ k < h.f /\ k \in g.s..h.f - 1
    BY <1>1
  <2>2. CASE k >= g.e
    BY <1>3, <2>1, <2>2, NewLast
  <2>3. CASE ~(k >= g.e)
    <3>1. k < g.e /\ k \in g.s..g.e - 1 /\ k \in 0..g.e - 1
      BY <1>1, <2>1, <2>3
    <3>2. b \notin Logged /\ LastAt(g, g.e, b, k, j)
      BY <2>1, <3>1, NewLast
    <3>3. h.chunk[k] = g.chunk[k]
      BY <1>1, <3>1
    <3>4. g.chunk[k].data[j] = Undone(b)
      BY <1>2, <3>1, <3>2, <3>3 DEF Latest
    <3>5. QED
      BY <1>3, <3>2, <3>3, <3>4
  <2>4. QED
    BY <2>2, <2>3
<1>5. b \in Logged => InLog(h, h.sb, h.f, b, id)
  <2>1. SUFFICES ASSUME b \in Logged PROVE InLog(h, h.sb, h.f, b, id)
    OBVIOUS
  <2>2. PICK k \in g.e..h.f - 1 : \E j \in 1..Len(h.chunk[k].runs) :
            LastAt(h, h.f, b, k, j) /\ h.chunk[k].owner = id
    BY <2>1, NewIn
  <2>3. k \in h.sb..h.f - 1
    BY <1>1
  <2>4. QED
    BY <2>2, <2>3 DEF InLog
<1>6. b \notin Logged =>
        disk[b] = Undone(b) \/ InLog(h, h.sb, h.f, b, block[b].previous)
  <2>1. SUFFICES ASSUME b \notin Logged, InLog(g, g.sb, g.e, b, block[b].previous)
                 PROVE  InLog(h, h.sb, h.f, b, block[b].previous)
    BY <1>2
  <2>2. PICK k \in g.sb..g.e - 1 : \E j \in 1..Len(g.chunk[k].runs) :
            LastAt(g, g.e, b, k, j) /\ g.chunk[k].owner = block[b].previous
    BY <2>1 DEF InLog
  <2>3. PICK j \in 1..Len(g.chunk[k].runs) :
            LastAt(g, g.e, b, k, j) /\ g.chunk[k].owner = block[b].previous
    BY <2>2
  <2>4. k \in Nat /\ k < h.f /\ k < g.e /\ k \in h.sb..h.f - 1 /\ k \in 0..g.e - 1
    BY <1>1
  <2>5. LastAt(h, h.f, b, k, j)
    BY <2>1, <2>3, <2>4, NewLast
  <2>6. h.chunk[k] = g.chunk[k]
    BY <1>1, <2>4
  <2>7. QED
    BY <2>3, <2>4, <2>5, <2>6 DEF InLog
<1>7. QED
  BY <1>3, <1>4, <1>5, <1>6

\* So does the log without the entry, as long as the superblock is not written.
LEMMA SetsEndBefore ==
    ASSUME NEW g \in Logs, g.e = g.f, Complete(g), SetsEnd, NEW h, NewEntry(g, h),
           h.s = g.s, h.sb = g.sb, h.e = g.e
    PROVE  HeldBefore(h)'
<1> SUFFICES ASSUME NEW b \in Blocks
             PROVE  /\ Latest(h, h.e, b, Undone(b)')
                    /\ disk'[b] = Undone(b)' \/ InLog(h, h.sb, h.e, b, block'[b].previous)
  BY DEF HeldBefore
<1>1. /\ g.s \in Nat /\ g.sb \in Nat /\ g.e \in Nat
      /\ \A k \in 0..g.e - 1 : h.chunk[k] = g.chunk[k]
  BY LogNumbers DEF NewEntry
<1>2. /\ Latest(g, g.e, b, Undone(b))
      /\ disk[b] = Undone(b) \/ InLog(g, g.sb, g.e, b, block[b].previous)
  BY DEF Complete, Holds, SetsEnd
<1>3. disk' = disk /\ block' = block /\ Undone(b)' = Undone(b)
  BY DEF SetsEnd
<1>4. ASSUME NEW k \in Nat, k < g.e, NEW j
      PROVE  LastAt(h, g.e, b, k, j) <=> LastAt(g, g.e, b, k, j)
  <2>1. k \in 0..g.e - 1 /\ \A l \in k + 1..g.e - 1 : l \in 0..g.e - 1
    BY <1>1, <1>4
  <2>2. h.chunk[k] = g.chunk[k] /\ \A l \in k + 1..g.e - 1 : h.chunk[l] = g.chunk[l]
    BY <1>1, <2>1
  <2>3. QED
    BY <2>2 DEF LastAt
<1>5. Latest(h, h.e, b, Undone(b))
  <2> SUFFICES ASSUME NEW k \in g.s..g.e - 1, NEW j \in 1..Len(h.chunk[k].runs),
                      LastAt(h, g.e, b, k, j)
               PROVE  h.chunk[k].data[j] = Undone(b)
    BY DEF Latest
  <2>1. k \in Nat /\ k < g.e /\ k \in 0..g.e - 1
    BY <1>1
  <2>2. h.chunk[k] = g.chunk[k] /\ LastAt(g, g.e, b, k, j)
    BY <1>1, <1>4, <2>1
  <2>3. QED
    BY <1>2, <2>2 DEF Latest
<1>6. ASSUME InLog(g, g.sb, g.e, b, block[b].previous)
      PROVE  InLog(h, h.sb, h.e, b, block[b].previous)
  <2>1. PICK k \in g.sb..g.e - 1 : \E j \in 1..Len(g.chunk[k].runs) :
            LastAt(g, g.e, b, k, j) /\ g.chunk[k].owner = block[b].previous
    BY <1>6 DEF InLog
  <2>2. k \in Nat /\ k < g.e /\ k \in 0..g.e - 1
    BY <1>1
  <2>3. h.chunk[k] = g.chunk[k]
    BY <1>1, <2>2
  <2>4. QED
    BY <1>4, <2>1, <2>2, <2>3 DEF InLog
<1>7. QED
  BY <1>2, <1>3, <1>5, <1>6

\* And all of the entry is the transaction's.
LEMMA SetsEndOwners ==
    ASSUME Inv1, NEW g \in Logs, g.e = g.f, Complete(g), SetsEnd, NEW h, NewEntry(g, h),
           h.sb = g.sb, h.from[id] = g.e, \A i \in Ids : i # id => h.from[i] = g.from[i]
    PROVE  Owners(h)'
<1>1. /\ g.sb \in Nat /\ g.e \in Nat /\ h.f \in Nat
      /\ \A k \in 0..g.e - 1 : h.chunk[k] = g.chunk[k]
      /\ \A k \in g.e..h.f - 1 : h.chunk[k].owner = id
  BY LogNumbers DEF NewEntry
<1>2. /\ id \in Ids /\ Open(id) /\ id + 1 = nextId /\ nextId' = nextId /\ Mover = NoId /\ Mover' = id
      /\ \A i \in Ids : Open(i)' <=> Open(i)
  BY DEF SetsEnd, Open
<1>3. nextId \in Nat /\ id \in Nat /\ id < nextId
  <2>1. nextId \in Nat
    BY InvParts
  <2>2. QED
    BY <1>2, <2>1
<1>4. ASSUME NEW k \in g.sb..h.f - 1, NEW i, i = h.chunk[k].owner
      PROVE  i \in Ids /\ i < nextId' /\ h.from[i] <= k /\ (Open(i)' => i = Mover')
  <2>1. CASE k < g.e
    <3>1. k \in g.sb..g.f - 1 /\ k \in 0..g.e - 1
      BY <1>1, <2>1
    <3>2. h.chunk[k] = g.chunk[k]
      BY <1>1, <3>1
    <3>3. pc # "replay"
      BY DEF SetsEnd
    <3>4. i \in Ids /\ i < nextId /\ g.from[i] <= k /\ (Open(i) => i = Mover)
      BY <1>4, <3>1, <3>2, <3>3 DEF Complete, Owners
    <3>5. i # id
      BY <1>2, <3>4
    <3>6. QED
      BY <1>2, <3>4, <3>5
  <2>2. CASE ~(k < g.e)
    <3>1. k \in g.e..h.f - 1 /\ g.e <= k
      BY <1>1, <2>2
    <3>2. i = id
      BY <1>1, <1>4, <3>1
    <3>3. QED
      BY <1>2, <1>3, <3>1, <3>2
  <2>3. QED
    BY <2>1, <2>2
<1>5. QED
  BY <1>4 DEF Owners

\* The log is complete with the new entry.
LEMMA SetEndComplete ==
    ASSUME Base, Known, NEW g \in Logs, Geometry(g), Complete(g), SetEnd, ~flaw'
    PROVE  \E h \in Logs : Geometry(h)' /\ Complete(h)'
<1>1. /\ Inv1 /\ id \in Ids /\ Logged # {} /\ pc = "log" /\ pc' = "super"
  BY OpenHere DEF Base, SetEnd
<1>2. PICK n, runs, off : Layout(n, runs, off)
  BY <1>1, EntryLayout
<1>3. PICK h : Appended(g, h, n, runs, off)
  BY <1>1, <1>2, AppendedIs
<1>4. /\ h \in Logs /\ h.s = g.s /\ h.sb = g.sb /\ h.e = g.e /\ h.from[id] = g.e
      /\ \A i \in Ids : i # id => h.from[i] = g.from[i]
  BY <1>3 DEF Appended
<1>5. Geometry(h)'
  BY <1>2, <1>3, SetEndGeometry
<1>6. g.e = g.f /\ g.s <= g.sb /\ g.sb <= g.e
  BY <1>1 DEF Geometry, Order
<1>7. NewEntry(g, h)
  BY <1>1, <1>2, <1>3, NewEntryIs
<1>8. SetsEnd
  BY SetsEndIs
<1>9. Holds(h)' /\ HeldBefore(h)' /\ Owners(h)'
  BY <1>1, <1>4, <1>6, <1>7, <1>8, SetsEndHolds, SetsEndBefore, SetsEndOwners
<1>10. HeldReplay(h)'
  BY <1>1 DEF HeldReplay
<1>11. QED
  BY <1>4, <1>5, <1>9, <1>10 DEF Complete

\* What the blocks are to be is what the volume held at some point since the last entry
\* that counts as safe.
LEMMA TargetInHistory ==
    ASSUME Base, Known, pc # "replay"
    PROVE  \E n \in 1..Len(history) : \A b \in Blocks : Target(b) = history[n][b]
<1>1. /\ history \in Seq([Blocks -> Values]) /\ history # <<>>
      /\ ~Safe => \A b \in Blocks : Undone(b) = history[1][b]
      /\ Safe => \A b \in Blocks : Target(b) = history[1][b]
      /\ pc \notin {"inside", "replay"} => \A b \in Blocks : Seen(b) = Newest[b]
      /\ pc = "flush" \/ pc \in {"super", "end"} =>
            (SubRuns => Len(history) >= 2 /\ \A b \in Blocks : InMain(b) = Before[b])
  BY DEF Known, Views, SubWaits
<1>2. PICK n \in Nat \ {0} : n = Len(history)
  BY <1>1
<1>3. 1 \in 1..n /\ n \in 1..n
  BY <1>2
<1>4. CASE Safe
  BY <1>1, <1>2, <1>3, <1>4
<1>5. CASE ~Safe /\ pc \notin Entering
  <2>1. Calm
    BY <1>5 DEF Calm, Safe
  <2>2. Resting
    BY <2>1, CalmRests
  <2>3. QED
    BY <1>1, <1>2, <1>3, <1>5, <2>2 DEF Resting
<1>6. CASE ~Safe /\ pc \in Entering
  <2>1. pc \in {"super", "end", "flush"}
    BY <1>6 DEF Safe, Entering
  <2>2. /\ Inv1 /\ id \in Ids /\ Open(id) /\ Logged # {} /\ ~Committing(call.op)
    BY <1>6, OpenHere DEF Base
  <2>3. Mover = id /\ (Parting <=> Detaching)
    BY <1>6 DEF Mover, Parting
  <2>4. CASE ~Detaching
    <3>1. \A b \in Blocks : Target(b) = Newest[b]
      BY <1>1, <2>1, <2>2, <2>3, <2>4 DEF Target
    <3>2. QED
      BY <1>2, <1>3, <3>1 DEF Newest
  <2>5. CASE Detaching
    <3>1. PICK b \in Blocks : block[b].transaction = id /\ block[b].parent # NoData
      BY <2>2, <2>5 DEF Logged, InTransaction, Cache
    <3>2. transaction[id].hasSub
      BY <2>2, <3>1, InvParts DEF ShapeOf
    <3>3. SubRuns
      BY <2>2, <3>2 DEF SubRuns
    <3>4. n >= 2 /\ \A c \in Blocks : Target(c) = history[n - 1][c]
      BY <1>1, <1>2, <2>1, <2>2, <2>3, <2>5, <3>3 DEF Target, Before
    <3>5. n - 1 \in 1..n
      BY <1>2, <3>4
    <3>6. QED
      BY <1>2, <3>4, <3>5
  <2>6. QED
    BY <2>4, <2>5
<1>7. QED
  BY <1>4, <1>5, <1>6

\* Some point that the replay of the log as it is on the disk leads to.
CanReplay(g) == \E n \in 1..Len(history) : Replayable(g, history[n])

\* What the log and the disk hold can be replayed.
LEMMA CanReplayIs ==
    ASSUME Base, Known, NEW g \in Logs, Geometry(g), Complete(g)
    PROVE  CanReplay(g)
<1>1. /\ g.s \in Nat /\ g.sb \in Nat /\ g.e \in Nat /\ g.f \in Nat /\ g.s <= g.sb
      /\ g.x = g.f \/ (pc = "super" /\ g.x = g.e)
  BY LogNumbers DEF Geometry, Order
<1>2. ASSUME NEW b, NEW p, NEW i, InLog(g, g.sb, p, b, i), p \in Nat
      PROVE  Has(g, g.s, p, b)
  <2>1. PICK k \in g.sb..p - 1 : \E j \in 1..Len(g.chunk[k].runs) : LastAt(g, p, b, k, j)
    BY <1>2 DEF InLog
  <2>2. k \in g.s..p - 1
    BY <1>1, <1>2
  <2>3. QED
    BY <2>1, <2>2 DEF Has, LastAt
<1>3. CASE pc = "replay"
  BY <1>3 DEF Complete, HeldReplay, CanReplay
<1>4. CASE pc # "replay" /\ g.x = g.f
  <2>1. PICK n \in 1..Len(history) : \A b \in Blocks : Target(b) = history[n][b]
    BY <1>4, TargetInHistory
  <2>2. ASSUME NEW b \in Blocks
        PROVE  /\ Latest(g, g.x, b, history[n][b])
               /\ disk[b] = history[n][b] \/ Has(g, g.s, g.x, b)
    <3>1. /\ Latest(g, g.f, b, Target(b))
          /\ b \in Moving => InLog(g, g.sb, g.f, b, Mover)
          /\ b \notin Moving => disk[b] = Target(b) \/ InLog(g, g.sb, g.f, b, block[b].previous)
      BY <1>4 DEF Complete, Holds
    <3>2. QED
      BY <1>1, <1>2, <1>4, <2>1, <3>1
  <2>3. Replayable(g, history[n])
    BY <2>2 DEF Replayable
  <2>4. QED
    BY <2>3 DEF CanReplay
<1>5. CASE pc = "super" /\ g.x = g.e
  <2>1. /\ history \in Seq([Blocks -> Values]) /\ history # <<>> /\ ~Safe
        /\ \A b \in Blocks : Undone(b) = history[1][b]
    <3>1. call = NoCall
      BY <1>5 DEF Base, Control, Owning, Entering
    <3>2. ~Safe
      BY <1>5, <3>1 DEF Safe, Committing, NoCall
    <3>3. QED
      BY <1>5, <3>2 DEF Known, Views
  <2>2. 1 \in 1..Len(history)
    BY <2>1
  <2>3. ASSUME NEW b \in Blocks
        PROVE  /\ Latest(g, g.x, b, history[1][b])
               /\ disk[b] = history[1][b] \/ Has(g, g.s, g.x, b)
    <3>1. /\ Latest(g, g.e, b, Undone(b))
          /\ disk[b] = Undone(b) \/ InLog(g, g.sb, g.e, b, block[b].previous)
      BY <1>5 DEF Complete, HeldBefore
    <3>2. QED
      BY <1>1, <1>2, <1>5, <2>1, <3>1
  <2>4. Replayable(g, history[1])
    BY <2>3 DEF Replayable
  <2>5. QED
    BY <2>2, <2>4 DEF CanReplay
<1>6. QED
  BY <1>1, <1>3, <1>4, <1>5

\* A log that can be replayed to the same as before.
LEMMA ReplayStays ==
    ASSUME NEW g, NEW h, h.chunk = g.chunk, h.s = g.s, h.x = g.x, CanReplay(g),
           history' = history,
           \A b \in Blocks : disk'[b] = disk[b] \/ Has(g, g.s, g.x, b)
    PROVE  CanReplay(h)'
<1>1. PICK n \in 1..Len(history) : Replayable(g, history[n])
  BY DEF CanReplay
<1>2. PICK v : v = history[n] /\ v = history'[n]
  OBVIOUS
<1>3. ASSUME NEW b \in Blocks
      PROVE  Latest(h, h.x, b, v[b]) /\ (disk'[b] = v[b] \/ Has(h, h.s, h.x, b))
  <2>1. Latest(g, g.x, b, v[b]) /\ (disk[b] = v[b] \/ Has(g, g.s, g.x, b))
    BY <1>1, <1>2 DEF Replayable
  <2>2. Latest(h, h.x, b, v[b])
    BY <2>1 DEF Latest, LastAt
  <2>3. Has(g, g.s, g.x, b) => Has(h, h.s, h.x, b)
    BY DEF Has
  <2>4. QED
    BY <2>1, <2>2, <2>3
<1>4. Replayable(h, v)'
  BY <1>3 DEF Replayable
<1>5. QED
  BY <1>2, <1>4 DEF CanReplay

\* While the log is replayed there is nothing else to hold.
ReplayingHeld == \A h : pc = "replay" /\ CanReplay(h) => Complete(h)

\* So a log that can be replayed is complete then.
LEMMA ReplayingComplete == ReplayingHeld
BY DEF ReplayingHeld, Complete, Holds, HeldBefore, Owners, HeldReplay, CanReplay

\* A log that is empty, when the cache is.
EmptyHeld ==
    \A h \in Logs : Vacant /\ pc = "free" /\ Moved(h, h, h.f, h.f, h.f, h.f, h.f) => Complete(h)

\* It is complete.
LEMMA EmptyComplete == EmptyHeld
<1> SUFFICES ASSUME NEW h \in Logs, Vacant, pc = "free", Moved(h, h, h.f, h.f, h.f, h.f, h.f)
             PROVE  Complete(h)
  BY DEF EmptyHeld
<1>1. /\ block = [b \in Blocks |-> Absent] /\ call = NoCall
  BY DEF Vacant, EmptyCache
<1>2. /\ h.s = h.f /\ h.sb = h.f /\ h.f \in Nat
  BY LogNumbers DEF Moved
<1>3. h.s..h.f - 1 = {} /\ h.sb..h.f - 1 = {}
  BY <1>2
<1>4. Calm
  BY <1>1 DEF Calm, Entering, Committing, NoCall
<1>5. Resting
  BY <1>4, CalmRests
<1>6. \A b \in Blocks : Target(b) = disk[b]
  BY <1>1, <1>5 DEF Resting, Undone, UndoneOf, SeenOf, Absent, NewBlock
<1>7. Holds(h)
  BY <1>3, <1>5, <1>6 DEF Holds, Latest, Resting
<1>8. Owners(h)
  BY <1>3 DEF Owners
<1>9. QED
  BY <1>7, <1>8 DEF Complete, HeldBefore, HeldReplay

\* In the beginning.
LEMMA InitComplete ==
    ASSUME Init
    PROVE  \E h \in Logs : Geometry(h) /\ Complete(h)
<1>1. PICK h \in Logs : Geometry(h) /\ Moved(h, h, h.f, h.f, h.f, h.f, h.f)
  BY InitGeometry
<1>2. EmptyCache
  BY BlockCacheAssumption DEF Init, CacheInit, EmptyCache, Values
<1>3. Vacant /\ pc = "free"
  BY <1>2 DEF Vacant, EmptyCache, Init
<1>4. QED
  BY <1>1, <1>3, EmptyComplete DEF EmptyHeld

\* After the replay.
LEMMA ReplayEndsComplete ==
    ASSUME Base, Known, NEW g \in Logs, Geometry(g), ReplayEnds
    PROVE  \E h \in Logs : Geometry(h)' /\ Complete(h)'
<1>1. PICK h \in Logs : Geometry(h)' /\ Moved(g, h, g.f, g.f, g.f, g.f, g.f)
  BY ReplayEndsGeometry
<1>2. Vacant' /\ pc' = "free"
  BY ReplayEndsKnown
<1>3. Moved(h, h, h.f, h.f, h.f, h.f, h.f)
  BY <1>1 DEF Moved
<1>4. Complete(h)'
  <2>1. EmptyHeld'
    BY EmptyComplete, PTL
  <2>2. Vacant' /\ pc' = "free" /\ Moved(h, h, h.f, h.f, h.f, h.f, h.f) => Complete(h)'
    BY <2>1 DEF EmptyHeld, Moved
  <2>3. QED
    BY <1>2, <1>3, <2>2
<1>5. QED
  BY <1>1, <1>4

\* The same after a step.
LEMMA ReplayingCompleteNext ==
    ASSUME NEW h, pc' = "replay", CanReplay(h)'
    PROVE  Complete(h)'
<1>1. ReplayingHeld'
  BY ReplayingComplete, PTL
<1>2. QED
  BY <1>1 DEF ReplayingHeld

\* A crash, and the steps of the replay.
LEMMA CrashComplete ==
    ASSUME Base, Known, NEW g \in Logs, Geometry(g), Complete(g), Crash
    PROVE  \E h \in Logs : Geometry(h)' /\ Complete(h)'
<1>1. PICK h \in Logs : Geometry(h)' /\ Moved(g, h, g.s, g.s, g.x, g.x, g.x)
  BY CrashGeometry
<1>2. CanReplay(g)
  BY CanReplayIs
<1>3. pc' = "replay" /\ disk' = disk /\ history' = history
  BY DEF Crash
<1>4. CanReplay(h)'
  BY <1>1, <1>2, <1>3, ReplayStays DEF Moved
<1>5. Complete(h)'
  BY <1>3, <1>4, ReplayingCompleteNext
<1>6. QED
  BY <1>1, <1>5

\* The replay goes on to the next array.
LEMMA ReplayNextComplete ==
    ASSUME Base, Base', Known, NEW g \in Logs, Geometry(g), Complete(g), ReplayNext
    PROVE  \E h \in Logs : Geometry(h)' /\ Complete(h)'
<1>1. PICK h \in Logs : Geometry(h)' /\ Moved(g, h, g.s, g.sb, g.e, g.f, g.x)
  BY ReplayNextGeometry
<1>2. CanReplay(g)
  BY CanReplayIs
<1>3. pc' = "replay" /\ disk' = disk /\ history' = history
  BY ReplayKnown DEF ReplayNext, cacheVars
<1>4. CanReplay(h)'
  BY <1>1, <1>2, <1>3, ReplayStays DEF Moved
<1>5. Complete(h)'
  BY <1>3, <1>4, ReplayingCompleteNext
<1>6. QED
  BY <1>1, <1>5

\* The replay writes a block of an array that is in the log.
LEMMA ReplayBlockComplete ==
    ASSUME Base, Base', Known, NEW g \in Logs, Geometry(g), Complete(g), ReplayBlock
    PROVE  Complete(g)'
<1>1. CanReplay(g)
  BY CanReplayIs
<1>2. pc = "replay" /\ pc' = "replay" /\ history' = history /\ todo # <<>>
      /\ disk' = [disk EXCEPT ![Head(todo)[1]] = Head(todo)[2]]
  BY ReplayKnown DEF ReplayBlock
<1>3. todo \in Seq(Blocks \X Values) /\ disk \in [Blocks -> Values]
  BY <1>2, InvParts DEF Base, JournalTypes, Types, OtherTypes
<1>4. /\ g.r \in Nat /\ g.s \in Nat /\ g.x = g.f /\ g.r <= g.f /\ g.f \in Nat
  BY <1>2, LogNumbers DEF Geometry, Order, Replay
<1>5. PICK k \in Int : k = g.r - 1
  BY <1>4
<1>6. PICK n : n = Len(g.chunk[k].runs) - Len(todo)
  OBVIOUS
<1>7. /\ g.s < g.r /\ n >= 0
      /\ \A j \in 1..Len(todo) : todo[j] = <<g.chunk[k].runs[n + j], g.chunk[k].data[n + j]>>
  BY <1>2, <1>5, <1>6 DEF Geometry, Replay
<1>8. k \in g.s..g.x - 1 /\ k \in Nat
  BY <1>4, <1>5, <1>7
<1>9. PICK b \in Blocks : b = Head(todo)[1] /\ \A a \in Blocks : a # b => disk'[a] = disk[a]
  BY <1>2, <1>3
<1>10. Has(g, g.s, g.x, b)
  <2>1. PICK m \in Nat, l \in Nat : m = Len(g.chunk[k].runs) /\ l = Len(todo) /\ l > 0
    <3>1. Len(g.chunk[k].runs) \in Nat
      BY <1>8, ChunkType
    <3>2. Len(todo) \in Nat /\ Len(todo) > 0
      BY <1>2, <1>3
    <3>3. QED
      BY <3>1, <3>2
  <2>2. n = m - l /\ n + 1 \in 1..m /\ 1 \in 1..l
    BY <1>6, <1>7, <2>1
  <2>3. todo[1] = <<g.chunk[k].runs[n + 1], g.chunk[k].data[n + 1]>>
    BY <1>7, <2>1, <2>2
  <2>4. b = g.chunk[k].runs[n + 1]
    BY <1>2, <1>3, <1>9, <2>3
  <2>5. QED
    BY <1>8, <2>1, <2>2, <2>4 DEF Has
<1>11. CanReplay(g)'
  BY <1>1, <1>2, <1>9, <1>10, ReplayStays
<1>12. QED
  BY <1>2, <1>11, ReplayingCompleteNext

\* What a step has to keep.
LogKept ==
    /\ Known'
    /\ \A g \in Logs : Geometry(g) /\ Complete(g) /\ ~flaw' =>
            \E h \in Logs : Geometry(h)' /\ Complete(h)'

\* Steps that leave the log alone.
LEMMA AloneKept ==
    ASSUME Known', \A g \in Logs : Geometry(g) => Geometry(g)',
           \/ SameContents /\ SameOwners
           \/ \A g \in Logs : Complete(g) => Complete(g)'
    PROVE  LogKept
<1>1. \A g \in Logs : Complete(g) => Complete(g)'
  BY AloneComplete
<1>2. QED
  BY <1>1 DEF LogKept

\* A transaction leaves the journal, at once or when the call is done.
LEMMA LeaveStepKept ==
    ASSUME Known, WrittenBack', NEW c, NEW op, NEW i, NEW listener, LeaveStep(c, op, i, listener),
           \A g \in Logs : Geometry(g) => Geometry(g)'
    PROVE  LogKept
<1>1. Known'
  BY LeaveStepKnown
<1>2. \A g \in Logs : Complete(g) => Complete(g)'
  BY LeaveStepComplete
<1>3. QED
  BY <1>1, <1>2, AloneKept

\* A transaction starts to leave: at once, or after the blocks have been written that
\* wait for an earlier one.
LEMMA LeaveStartsKept ==
    ASSUME Base, Known, NEW listener, LeaveStarts(listener), Leaving(LeaveOp),
           \A g \in Logs : Geometry(g) => Geometry(g)'
    PROVE  LogKept
<1>1. CASE InBoth(id) = {}
  <2>1. LeaveStep(Cache, LeaveOp, id, listener) /\ WrittenBack'
    BY <1>1, LeavesAtOnce
  <2>2. PICK c, op, i : c = Cache /\ op = LeaveOp /\ i = id
    OBVIOUS
  <2>3. LeaveStep(c, op, i, listener)
    BY <2>1, <2>2
  <2>4. QED
    BY <2>1, <2>3, LeaveStepKept
<1>2. CASE InBoth(id) # {}
  <2>1. Known' /\ SameContents /\ SameOwners
    BY <1>2, LeavesLater
  <2>2. QED
    BY <2>1, AloneKept
<1>3. QED
  BY <1>1, <1>2

\* The steps of the client without the log.
LEMMA ClientKept ==
    ASSUME Base, Base', Known, Client
    PROVE  LogKept
<1>1. \A g \in Logs : Geometry(g) => Geometry(g)'
  BY ClientGeometry DEF Client
<1>2. Known' /\ SameContents /\ SameOwners
  <2>1. CASE Lock
    BY <2>1, LockNewKnown, LockSubKnown
  <2>2. CASE UnlockFailed
    BY <2>2, AbortKnown, AbortSubKnown
  <2>3. CASE UnlockDone
    BY <2>3, UnlockDoneKnown
  <2>4. CASE FlushLog \/ FlushBlocks
    BY <2>4, IdleKnown, SyncsKnown
  <2>5. CASE \E b \in Blocks : Write(b)
    BY <2>5, WriteKnown
  <2>6. QED
    BY <2>1, <2>2, <2>3, <2>4, <2>5 DEF Client
<1>3. QED
  BY <1>1, <1>2, AloneKept

\* An entry is prepared.
LEMMA PrepareKept ==
    ASSUME Base, Known, PrepareEntry
    PROVE  LogKept
<1>1. \A g \in Logs : Geometry(g) => Geometry(g)'
  BY ClientGeometry, RoomGeometry
<1>2. pc' \in {"free", "log", "space"}
  BY DEF PrepareEntry
<1>3. CASE pc' = "free"
  <2>1. PICK listener : listener = FALSE
    OBVIOUS
  <2>2. LeaveStarts(listener) /\ Leaving(LeaveOp)
    BY <1>3, <2>1, NothingLoggedLeaves, NothingLoggedLeaving
  <2>3. QED
    BY <1>1, <2>2, LeaveStartsKept
<1>4. CASE pc' \in {"log", "space"}
  <2>1. Known' /\ SameContents /\ SameOwners
    BY <1>4, IdleKnown, SyncsKnown
  <2>2. QED
    BY <1>1, <2>1, AloneKept
<1>5. QED
  BY <1>2, <1>3, <1>4

\* An entry ends.
LEMMA EndEntryKept ==
    ASSUME Base, Known, EndEntry
    PROVE  LogKept
<1>1. \A g \in Logs : Geometry(g) => Geometry(g)'
  BY ClientGeometry
<1>2. PICK listener : listener = TRUE
  OBVIOUS
<1>3. LeaveStarts(listener) /\ Leaving(LeaveOp)
  BY <1>2, EndEntryLeaves, EndEntryLeaving
<1>4. QED
  BY <1>1, <1>3, LeaveStartsKept

\* The client's writer is done.
LEMMA ClientWrittenKept ==
    ASSUME Base, Known, ClientWritten, JournalSame
    PROVE  LogKept
<1>1. \A g \in Logs : Geometry(g) => Geometry(g)'
  BY CacheGeometry
<1>2. call.op \in {"end", "detach", "sync"}
  <2>1. PICK S, d : S = written["client"] /\ d = BlocksDone(Cache, S)
    OBVIOUS
  <2>2. call.op \in {"end", "detach", "discard", "sync"}
    BY <2>1, ClientWrittenParts DEF Base, CallMayFinish
  <2>3. QED
    BY <2>2 DEF Base, Control
<1>3. CASE call.op = "sync"
  <2>1. Known' /\ SameContents /\ SameOwners
    BY <1>3, SyncWrittenKnown
  <2>2. QED
    BY <1>1, <2>1, AloneKept
<1>4. CASE call.op \in {"end", "detach"}
  <2>1. Committing(call.op)
    BY <1>4 DEF Committing
  <2>2. WrittenBack' /\ \E c, op, i, listener : LeaveStep(c, op, i, listener)
    BY <2>1, LeavesWritten
  <2>3. PICK c, op, i, listener : LeaveStep(c, op, i, listener)
    BY <2>2
  <2>4. QED
    BY <1>1, <2>2, <2>3, LeaveStepKept
<1>5. QED
  BY <1>2, <1>3, <1>4

\* The steps within the log, and the replay.
LEMMA InsideKept ==
    ASSUME Base, Base', Known, Inside
    PROVE  LogKept
<1>1. CASE PrepareEntry \/ EndEntry
  BY <1>1, PrepareKept, EndEntryKept
<1>2. CASE TooLarge \/ HaveSpace \/ WriteLogBlock \/ AddEntry \/ FlushDrive
  <2>1. Known' /\ SameContents /\ SameOwners
    BY <1>2, IdleKnown, FlushDriveKnown
  <2>2. \A g \in Logs : Geometry(g) => Geometry(g)'
    BY <1>2, ClientGeometry, RoomGeometry, WriteLogBlockGeometry, AddEntryGeometry
  <2>3. QED
    BY <2>1, <2>2, AloneKept
<1>3. CASE SetEnd
  BY <1>3, SetEndKnown, SetEndComplete DEF LogKept
<1>4. CASE WriteSuperBlock \/ SetLogEnd
  BY <1>4, IdleKnown, PointersComplete DEF LogKept
<1>5. CASE ReplayNext \/ ReplayBlock
  <2>1. Known'
    BY <1>5, ReplayKnown
  <2>2. QED
    BY <1>5, <2>1, ReplayNextComplete, ReplayBlockComplete, ReplayBlockGeometry DEF LogKept
<1>6. CASE ReplayEnds
  BY <1>6, ReplayEndsKnown, ReplayEndsComplete DEF LogKept
<1>7. CASE WriteBlock("client") /\ UNCHANGED journalVars
  <2>1. JournalSame /\ "client" \in Writers
    BY <1>7 DEF JournalSame, Writers
  <2>2. Known' /\ SameContents /\ SameOwners
    BY <1>7, <2>1, WriteBlockKnown
  <2>3. \A g \in Logs : Geometry(g) => Geometry(g)'
    BY <1>7, <2>1, CacheGeometry
  <2>4. QED
    BY <2>2, <2>3, AloneKept
<1>8. CASE ClientWritten /\ UNCHANGED journalVars
  BY <1>8, ClientWrittenKept DEF JournalSame
<1>9. QED
  BY <1>1, <1>2, <1>3, <1>4, <1>5, <1>6, <1>7, <1>8 DEF Inside

\* The cache's thread, and the hook.
LEMMA WriterThreadKept ==
    ASSUME Base, Base', Known, WriterThread
    PROVE  LogKept
<1>1. CASE Background /\ UNCHANGED journalVars
  <2>1. JournalSame /\ "background" \in Writers
    BY <1>1 DEF JournalSame, Writers
  <2>2. Known' /\ SameContents /\ SameOwners
    BY <1>1, <2>1, WriteBlockKnown, BackgroundWrittenKnown, AwayKnown DEF Background
  <2>3. \A g \in Logs : Geometry(g) => Geometry(g)'
    BY <1>1, <2>1, CacheGeometry DEF Background
  <2>4. QED
    BY <2>2, <2>3, AloneKept
<1>2. CASE EntryWritten
  BY <1>2, AwayKnown, EntryWrittenComplete DEF LogKept
<1>3. CASE HookWritesSuper \/ HookSetsStart
  BY <1>3, AwayKnown, PointersComplete DEF LogKept
<1>4. QED
  BY <1>1, <1>2, <1>3 DEF WriterThread

\* All steps.
LEMMA NextKept ==
    ASSUME Base, Base', Known, [Next]_vars
    PROVE  LogKept
<1>1. CASE Crash
  BY <1>1, CrashKnown, CrashComplete DEF LogKept
<1>2. CASE UNCHANGED vars
  <2>1. Known' /\ (pc # "replay" => SameContents /\ SameOwners)
    BY <1>2, StutterKnown
  <2>2. JournalSame /\ UNCHANGED cacheVars
    BY <1>2 DEF vars, JournalSame
  <2>3. \A g \in Logs : Geometry(g) => Geometry(g)'
    BY <2>2, CacheGeometry
  <2>4. CASE pc = "replay"
    <3>1. ASSUME NEW g \in Logs, Geometry(g), Complete(g) PROVE Complete(g)'
      <4>1. CanReplay(g)
        BY <3>1, CanReplayIs
      <4>2. pc' = "replay" /\ disk' = disk /\ history' = history
        BY <2>2, <2>4 DEF JournalSame, journalVars, cacheVars
      <4>3. CanReplay(g)'
        BY <4>1, <4>2, ReplayStays
      <4>4. QED
        BY <4>2, <4>3, ReplayingCompleteNext
    <3>2. QED
      BY <2>1, <2>3, <3>1 DEF LogKept
  <2>5. CASE pc # "replay"
    BY <2>1, <2>3, <2>5, AloneKept
  <2>6. QED
    BY <2>4, <2>5
<1>3. QED
  BY <1>1, <1>2, ClientKept, InsideKept, WriterThreadKept DEF Next

\* The invariant of the journal: what the memory is like, what it holds, and what the log
\* holds, unless a flaw has got in the way.
JInv2 == Base /\ Known /\ (~flaw => \E g \in Logs : Geometry(g) /\ Complete(g))

\* A flaw remains.
LEMMA FlawStays ==
    ASSUME Base, [Next]_vars, ~flaw'
    PROVE  ~flaw
<1>1. flaw => flaw'
  BY DEF Next, Client, Inside, WriterThread, Lock, UnlockFailed, UnlockDone, FlushLog,
         FlushBlocks, Write, TooLarge, PrepareEntry, HaveSpace, WriteLogBlock, SetEnd,
         WriteSuperBlock, SetLogEnd, FlushDrive, AddEntry, EndEntry, ReplayNext,
         ReplayBlock, ReplayEnds, EntryWritten, HookWritesSuper, HookSetsStart, Crash,
         logVars, journalVars, vars
<1>2. QED
  BY <1>1

\* The invariant has that of the geometry of the log as a part.
LEMMA JInv2Geometry ==
    ASSUME JInv2
    PROVE  JInv1
  BY DEF JInv1, JInv2

\* All steps keep the invariant.
LEMMA StepJInv2 ==
    ASSUME JInv2, [Next]_vars
    PROVE  JInv2'
<1>1. Base /\ Known /\ JInv1
  BY JInv2Geometry DEF JInv2
<1>2. Base'
  BY <1>1, NextBase
<1>3. LogKept
  BY <1>1, <1>2, NextKept
<1>4. ASSUME ~flaw' PROVE \E h \in Logs : Geometry(h)' /\ Complete(h)'
  <2>1. ~flaw
    BY <1>1, <1>4, FlawStays
  <2>2. PICK g \in Logs : Geometry(g) /\ Complete(g)
    BY <2>1 DEF JInv2
  <2>3. QED
    BY <1>3, <1>4, <2>2 DEF LogKept
<1>5. QED
  BY <1>2, <1>3, <1>4 DEF JInv2, LogKept

\* The invariant is one of the specification.
LEMMA JInv2Holds == Spec => []JInv2
<1>1. Init => JInv2
  BY InitBase, InitKnown, InitComplete DEF JInv2
<1>2. JInv2 /\ [Next]_vars => JInv2'
  BY StepJInv2
<1>3. QED
  BY <1>1, <1>2, PTL DEF Spec

\* What the replay starts from, and the loop of ReplayLog() once.
ReplayStart == [ok |-> TRUE, last |-> -1, at |-> super.start, disk |-> disk]
Replays(r) == IF r.at = super.end \/ ~r.ok THEN r ELSE ReplayArray(r)
ReplayRun(f, m) == f = [n \in 0..m |-> IF n = 0 THEN ReplayStart ELSE Replays(f[n - 1])]

\* The loop makes a sequence of states.
LEMMA ReplayRunExists ==
    ASSUME NEW m \in Nat
    PROVE  \E f : ReplayRun(f, m)
<1> DEFINE S == {k \in Nat : ~ \E f : ReplayRun(f, k)}
<1>1. SUFFICES ASSUME S # {} PROVE FALSE
  OBVIOUS
<1>2. PICK k \in S : \A l \in S : k <= l
  <2>1. S \in SUBSET Nat
    OBVIOUS
  <2> HIDE DEF S
  <2>2. QED
    BY <1>1, <2>1, SmallestExists
<1>3. k \in Nat /\ ~ \E f : ReplayRun(f, k)
  OBVIOUS
<1>4. CASE k = 0
  <2>1. ReplayRun([n \in 0..k |-> ReplayStart], k)
    <3>1. \A n \in 0..k : n = 0
      BY <1>4
    <3>2. QED
      BY <3>1 DEF ReplayRun
  <2>2. QED
    BY <1>3, <2>1
<1>5. CASE k # 0
  <2>1. k - 1 \in Nat /\ k - 1 < k
    BY <1>3, <1>5
  <2>2. k - 1 \notin S
    <3> HIDE DEF S
    <3>1. QED
      BY <1>2, <1>3, <2>1
  <2>3. PICK f : ReplayRun(f, k - 1)
    BY <2>1, <2>2
  <2> DEFINE h == [n \in 0..k |-> IF n < k THEN f[n] ELSE Replays(f[k - 1])]
  <2>4. \A n \in 0..k : h[n] = IF n = 0 THEN ReplayStart ELSE Replays(h[n - 1])
    <3>1. TAKE n \in 0..k
    <3>2. CASE n < k
      <4>1. n \in 0..k - 1 /\ h[n] = f[n]
        BY <1>3, <3>2
      <4>2. f[n] = IF n = 0 THEN ReplayStart ELSE Replays(f[n - 1])
        BY <2>3, <4>1 DEF ReplayRun
      <4>3. n # 0 => h[n - 1] = f[n - 1]
        BY <1>3, <3>2
      <4>4. QED
        BY <4>1, <4>2, <4>3
    <3>3. CASE ~(n < k)
      <4>1. n = k /\ n # 0
        BY <1>3, <1>5, <3>3
      <4>2. h[n] = Replays(f[n - 1])
        BY <4>1
      <4>3. h[n - 1] = f[n - 1]
        BY <1>3, <4>1
      <4>4. QED
        BY <4>1, <4>2, <4>3
    <3>4. QED
      BY <3>2, <3>3
  <2>5. ReplayRun(h, k)
    <3>1. h = [n \in 0..k |-> h[n]]
      OBVIOUS
    <3> HIDE DEF h
    <3>2. QED
      BY <2>4, <3>1 DEF ReplayRun
  <2>6. QED
    BY <1>3, <2>5
<1>6. QED
  BY <1>4, <1>5

\* Replayed is the last of these states.
LEMMA ReplayedIs ==
    \E f : ReplayRun(f, LogSize) /\ Replayed = f[LogSize]
<1>1. LogSize \in Nat
  BY JournalAssumption
<1>2. \E f : ReplayRun(f, LogSize)
  BY <1>1, ReplayRunExists
<1> DEFINE after == CHOOSE f : ReplayRun(f, LogSize)
<1>3. ReplayRun(after, LogSize)
  BY <1>2
<1>4. Replayed = after[LogSize]
  BY DEF Replayed, ReplayRun, ReplayStart, Replays
<1>5. QED
  BY <1>3, <1>4

\* What the replay has made of the disk, before array r: each block is what the last array
\* with it says.
ReplayedBlock(g, r, d, b) ==
    \/ \E k \in g.s..r - 1 : \E j \in 1..Len(g.chunk[k].runs) :
            LastAt(g, r, b, k, j) /\ d[b] = g.chunk[k].data[j]
    \/ ~Has(g, g.s, r, b) /\ d[b] = disk[b]
ReplayedTo(g, r, d) ==
    /\ d = [b \in Blocks |-> d[b]]
    /\ \A b \in Blocks : ReplayedBlock(g, r, d, b)

\* A block that an array does not list stays.
LEMMA PassesBlock ==
    ASSUME NEW g, g.s \in Nat, NEW r \in Nat, g.s <= r, NEW b \in Blocks, NEW d, NEW e,
           ~ \E j \in 1..Len(g.chunk[r].runs) : g.chunk[r].runs[j] = b,
           ReplayedBlock(g, r, d, b), e[b] = d[b]
    PROVE  ReplayedBlock(g, r + 1, e, b)
<1>1. CASE \E k \in g.s..r - 1 : \E j \in 1..Len(g.chunk[k].runs) :
               LastAt(g, r, b, k, j) /\ d[b] = g.chunk[k].data[j]
  <2>0. PICK k \in g.s..r - 1 : \E j \in 1..Len(g.chunk[k].runs) :
                LastAt(g, r, b, k, j) /\ d[b] = g.chunk[k].data[j]
    BY <1>1
  <2>1. PICK j \in 1..Len(g.chunk[k].runs) :
                LastAt(g, r, b, k, j) /\ d[b] = g.chunk[k].data[j]
    BY <2>0
  <2>2. k \in g.s..(r + 1) - 1
    OBVIOUS
  <2>3. \A l \in k + 1..(r + 1) - 1 : l \in k + 1..r - 1 \/ l = r
    OBVIOUS
  <2>4. LastAt(g, r + 1, b, k, j)
    BY <2>1, <2>3 DEF LastAt
  <2>5. QED
    BY <2>1, <2>2, <2>4 DEF ReplayedBlock
<1>2. CASE ~Has(g, g.s, r, b) /\ d[b] = disk[b]
  <2>1. \A l \in g.s..(r + 1) - 1 : l \in g.s..r - 1 \/ l = r
    OBVIOUS
  <2>2. ~Has(g, g.s, r + 1, b)
    BY <1>2, <2>1 DEF Has
  <2>3. QED
    BY <1>2, <2>2 DEF ReplayedBlock
<1>3. QED
  BY <1>1, <1>2 DEF ReplayedBlock

\* A block that an array lists becomes what it says.
LEMMA ReplacesBlock ==
    ASSUME NEW g, g.s \in Nat, NEW r \in Nat, g.s <= r, NEW b \in Blocks, NEW e,
           NEW j \in 1..Len(g.chunk[r].runs), g.chunk[r].runs[j] = b,
           e[b] = g.chunk[r].data[j]
    PROVE  ReplayedBlock(g, r + 1, e, b)
<1>1. r \in g.s..(r + 1) - 1 /\ (r + 1)..(r + 1) - 1 = {}
  OBVIOUS
<1>2. LastAt(g, r + 1, b, r, j)
  BY <1>1 DEF LastAt
<1>3. QED
  BY <1>1, <1>2 DEF ReplayedBlock

\* Where the replay is in its loop.
ReplayAt(g, r, z) ==
    /\ r \in Nat /\ z.ok /\ ReplayFrom(g, z.at, z.last, r) /\ ReplayedTo(g, r, z.disk)

\* The loop once.
LEMMA ReplayArrayAt ==
    ASSUME JournalTypes, NEW g \in Logs, Geometry(g), Mountable, NEW r, NEW z,
           ReplayAt(g, r, z), z.at # super.end
    PROVE  ReplayAt(g, r + 1, ReplayArray(z)) /\ r < g.x
<1>1. r \in Nat /\ g.s \in Nat /\ g.x \in Nat /\ ReplayFrom(g, z.at, z.last, r)
  BY DEF ReplayAt, Logs
<1>2. PICK a : a = z.at
  OBVIOUS
<1>3. PICK last : last = z.last
  OBVIOUS
<1>4. ReplayFinds(g, a, last, r)
  BY <1>1, <1>2, <1>3, ReplayStep
<1>5. /\ a # last /\ g.s <= r /\ r < g.x
      /\ log[a % LogSize].runs = g.chunk[r].runs
      /\ Len(g.chunk[r].runs) \in Nat \ {0}
      /\ \A j \in 1..Len(g.chunk[r].runs) :
            log[(a + j) % LogSize].data = g.chunk[r].data[j]
      /\ ReplayFrom(g, (a + 1 + Len(g.chunk[r].runs)) % LogSize, a, r + 1)
  BY <1>4 DEF ReplayFinds
<1> DEFINE w == ReplayArray(z)
           array == g.chunk[r].runs
           e == [b \in Blocks |->
                    IF \E j \in 1..Len(array) : array[j] = b
                    THEN log[(a + (CHOOSE j \in 1..Len(array) : array[j] = b)) % LogSize].data
                    ELSE z.disk[b]]
<1>6. array # <<>>
  <2>1. Len(array) # 0
    BY <1>5
  <2>2. QED
    BY <2>1
<1>7. w.ok /\ w.last = a /\ w.at = (a + 1 + Len(array)) % LogSize /\ w.disk = e
  <2>1. log[z.at % LogSize].runs = array
    BY <1>2, <1>5
  <2>2. w = [ok |-> z.at # z.last, last |-> z.at, at |-> (z.at + 1 + Len(array)) % LogSize,
             disk |-> [b \in Blocks |->
                IF \E j \in 1..Len(array) : array[j] = b
                THEN log[(z.at + (CHOOSE j \in 1..Len(array) : array[j] = b)) % LogSize].data
                ELSE z.disk[b]]]
    <3> HIDE DEF array
    <3>1. QED
      BY <1>6, <2>1 DEF ReplayArray
  <2>3. w = [ok |-> a # last, last |-> a, at |-> (a + 1 + Len(array)) % LogSize, disk |-> e]
    <3> HIDE DEF array, w
    <3>1. QED
      BY <1>2, <1>3, <2>2
  <2> HIDE DEF w, e
  <2>4. QED
    BY <1>5, <2>3
<1>8. ReplayedTo(g, r + 1, e)
  <2>1. e = [b \in Blocks |-> e[b]]
    OBVIOUS
  <2>2. ASSUME NEW b \in Blocks PROVE ReplayedBlock(g, r + 1, e, b)
    <3>1. CASE \E j \in 1..Len(array) : array[j] = b
      <4>1. PICK j \in 1..Len(array) : /\ array[j] = b
                                       /\ j = CHOOSE i \in 1..Len(array) : array[i] = b
        BY <3>1
      <4>2. e[b] = log[(a + j) % LogSize].data
        BY <4>1
      <4>3. e[b] = g.chunk[r].data[j]
        BY <1>5, <4>1, <4>2
      <4> HIDE DEF e
      <4>4. QED
        BY <1>1, <1>5, <4>1, <4>3, ReplacesBlock
    <3>2. CASE ~ \E j \in 1..Len(array) : array[j] = b
      <4>1. e[b] = z.disk[b]
        BY <3>2
      <4>2. ReplayedBlock(g, r, z.disk, b)
        BY DEF ReplayAt, ReplayedTo
      <4>3. PICK d : d = z.disk
        OBVIOUS
      <4> HIDE DEF e
      <4>4. QED
        BY <1>1, <1>5, <3>2, <4>1, <4>2, <4>3, PassesBlock
    <3>3. QED
      BY <3>1, <3>2
  <2> HIDE DEF e
  <2>3. QED
    BY <2>1, <2>2 DEF ReplayedTo
<1> HIDE DEF e, w
<1>9. ReplayAt(g, r + 1, w)
  BY <1>1, <1>5, <1>7, <1>8 DEF ReplayAt
<1>10. QED
  BY <1>5, <1>9 DEF w

\* The loop, n times: it has replayed n arrays, or all.
LEMMA ReplayLoop ==
    ASSUME JournalTypes, disk \in [Blocks -> Values], NEW g \in Logs, Geometry(g), Mountable,
           NEW f, ReplayRun(f, LogSize), NEW m \in 0..LogSize
    PROVE  \E r : ReplayAt(g, r, f[m]) /\ (r = g.s + m \/ r = g.x)
<1> DEFINE There(n) == \E r : ReplayAt(g, r, f[n]) /\ (r = g.s + n \/ r = g.x)
           S == {n \in 0..LogSize : ~There(n)}
<1>1. LogSize \in Nat /\ g.s \in Nat /\ g.x \in Nat /\ g.s <= g.x
  BY SuperIs
<1>2. \A n \in 0..LogSize : f[n] = IF n = 0 THEN ReplayStart ELSE Replays(f[n - 1])
  <2>1. DOMAIN f = 0..LogSize /\ LogSize \in Nat
    BY <1>1 DEF ReplayRun
  <2>2. QED
    BY <2>1 DEF ReplayRun
<1>3. There(0)
  <2>1. PICK z : z = f[0]
    OBVIOUS
  <2>2. z = ReplayStart
    BY <1>1, <1>2, <2>1
  <2>3. z.ok /\ z.last = -1 /\ z.at = super.start /\ z.disk = disk
    BY <2>2 DEF ReplayStart
  <2>4. ReplayFrom(g, z.at, z.last, g.s)
    BY <1>1, <2>3 DEF ReplayFrom
  <2>5. ReplayedTo(g, g.s, z.disk)
    <3>1. disk = [b \in Blocks |-> disk[b]]
      OBVIOUS
    <3>2. g.s..g.s - 1 = {}
      BY <1>1
    <3>3. \A b \in Blocks : ~Has(g, g.s, g.s, b)
      BY <3>2 DEF Has
    <3>4. QED
      BY <2>3, <3>1, <3>3 DEF ReplayedTo, ReplayedBlock
  <2>6. ReplayAt(g, g.s, z) /\ g.s = g.s + 0
    BY <1>1, <2>3, <2>4, <2>5 DEF ReplayAt
  <2>7. QED
    BY <2>1, <2>6
<1>4. ASSUME NEW n \in 0..LogSize, n # 0, There(n - 1) PROVE There(n)
  <2>1. PICK z : z = f[n - 1]
    OBVIOUS
  <2>2. PICK r : ReplayAt(g, r, z) /\ (r = g.s + (n - 1) \/ r = g.x)
    BY <1>4, <2>1
  <2>3. f[n] = Replays(z)
    BY <1>2, <1>4, <2>1
  <2>4. r \in Nat /\ z.ok /\ ReplayFrom(g, z.at, z.last, r)
    BY <2>2 DEF ReplayAt
  <2>5. PICK a : a = z.at
    OBVIOUS
  <2>6. PICK last : last = z.last
    OBVIOUS
  <2>7. a = super.end <=> r = g.x
    BY <2>4, <2>5, <2>6, ReplayDone
  <2>8. CASE a = super.end
    <3>1. f[n] = z
      BY <2>3, <2>5, <2>8 DEF Replays
    <3>2. QED
      BY <2>2, <2>7, <2>8, <3>1
  <2>9. CASE a # super.end
    <3>1. f[n] = ReplayArray(z)
      BY <2>3, <2>4, <2>5, <2>9 DEF Replays
    <3>2. ReplayAt(g, r + 1, ReplayArray(z))
      BY <2>2, <2>5, <2>9, ReplayArrayAt
    <3>3. r + 1 = g.s + n
      BY <1>1, <1>4, <2>2, <2>7, <2>9
    <3>4. QED
      BY <3>1, <3>2, <3>3
  <2>10. QED
    BY <2>8, <2>9
<1> HIDE DEF There
<1>5. S = {}
  <2>1. SUFFICES ASSUME S # {} PROVE FALSE
    OBVIOUS
  <2>2. S \in SUBSET Nat
    BY <1>1
  <2>3. PICK n \in S : \A l \in S : n <= l
    <3> HIDE DEF S
    <3>1. QED
      BY <2>1, <2>2, SmallestExists
  <2>4. n \in 0..LogSize /\ ~There(n) /\ n # 0
    BY <1>3, <2>3
  <2>5. n - 1 \in 0..LogSize /\ n - 1 < n /\ n \in Nat
    BY <1>1, <2>4
  <2>6. n - 1 \notin S
    <3> HIDE DEF S
    <3>1. QED
      BY <2>3, <2>5
  <2>7. There(n - 1)
    BY <2>5, <2>6
  <2>8. QED
    BY <1>4, <2>4, <2>7
<1>6. There(m)
  BY <1>5
<1>7. QED
  BY <1>6 DEF There

\* The log is not longer than the loop is repeated.
LEMMA ReplayIsShort ==
    ASSUME JournalTypes, NEW g \in Logs, Geometry(g), Mountable
    PROVE  g.x <= g.s + LogSize
<1>1. /\ g.s \in Nat /\ g.x \in Nat /\ g.f \in Nat /\ g.ls \in Nat /\ LogSize \in Nat
      /\ g.ls <= g.s /\ g.s <= g.x /\ g.x <= g.f
  BY SuperIs
<1>2. PICK a \in Nat, b \in Nat : a = g.pos[g.ls] /\ b = g.pos[g.f]
  BY <1>1 DEF Logs
<1>3. b - a <= LogSize
  BY <1>2 DEF Geometry, Laid
<1>4. a + (g.f - g.ls) <= b
  <2>1. g.ls \in 0..g.f /\ g.f \in 0..g.f /\ g.ls <= g.f
    BY <1>1
  <2>2. g.pos[g.ls] + (g.f - g.ls) <= g.pos[g.f]
    BY <2>1 DEF Geometry, Laid
  <2>3. QED
    BY <1>2, <2>2
<1>5. QED
  BY <1>1, <1>3, <1>4

\* All of it is replayed.
LEMMA ReplayedAll ==
    ASSUME JournalTypes, disk \in [Blocks -> Values], NEW g \in Logs, Geometry(g), Mountable
    PROVE  Recovers /\ ReplayedTo(g, g.x, Replayed.disk)
<1>1. PICK f : ReplayRun(f, LogSize) /\ Replayed = f[LogSize]
  BY ReplayedIs
<1>2. LogSize \in Nat /\ LogSize \in 0..LogSize
  BY JournalAssumption
<1>3. PICK z : z = f[LogSize]
  OBVIOUS
<1>4. PICK r : ReplayAt(g, r, z) /\ (r = g.s + LogSize \/ r = g.x)
  BY <1>1, <1>2, <1>3, ReplayLoop
<1>5. /\ r \in Nat /\ z.ok /\ ReplayFrom(g, z.at, z.last, r)
      /\ ReplayedTo(g, r, z.disk)
  BY <1>4 DEF ReplayAt
<1>6. r = g.x
  <2>1. g.s \in Nat /\ g.x \in Nat /\ r <= g.x
    BY <1>5, SuperIs DEF ReplayFrom
  <2>2. g.x <= g.s + LogSize
    BY ReplayIsShort
  <2>3. QED
    BY <1>2, <1>4, <1>5, <2>1, <2>2
<1>7. PICK a : a = z.at
  OBVIOUS
<1>8. PICK last : last = z.last
  OBVIOUS
<1>9. a = super.end
  BY <1>5, <1>6, <1>7, <1>8, ReplayDone
<1>10. QED
  BY <1>1, <1>3, <1>5, <1>6, <1>7, <1>9 DEF Recovers

\* A mount finds what the log and the disk hold together.
LEMMA ReplayIsConsistent ==
    ASSUME Base, Known, NEW g \in Logs, Geometry(g), Complete(g), Mountable
    PROVE  ReplayMakesConsistent
<1>1. JournalTypes /\ disk \in [Blocks -> Values]
  BY DEF Base, Inv1, Types, OtherTypes
<1>2. CanReplay(g)
  BY CanReplayIs
<1>3. PICK n \in 1..Len(history) : Replayable(g, history[n])
  BY <1>2 DEF CanReplay
<1>4. PICK v : v = history[n]
  OBVIOUS
<1>5. Replayable(g, v)
  BY <1>3, <1>4
<1>6. v \in [Blocks -> Values]
  BY <1>3, <1>4 DEF Known, Views
<1>7. PICK d : d = Replayed.disk
  OBVIOUS
<1>8. Recovers /\ ReplayedTo(g, g.x, d)
  BY <1>1, <1>7, ReplayedAll
<1>9. ASSUME NEW b \in Blocks PROVE d[b] = v[b]
  <2>1. ReplayedBlock(g, g.x, d, b)
    BY <1>8 DEF ReplayedTo
  <2>2. Latest(g, g.x, b, v[b]) /\ (disk[b] = v[b] \/ Has(g, g.s, g.x, b))
    BY <1>5 DEF Replayable
  <2>3. QED
    BY <2>1, <2>2 DEF ReplayedBlock, Latest
<1>10. d = v
  BY <1>6, <1>8, <1>9 DEF ReplayedTo
<1>11. QED
  BY <1>4, <1>7, <1>8, <1>10 DEF ReplayMakesConsistent

\* ReplayLog(): a crash, followed by a mount, leaves a volume that holds all client
\* transactions up to some point in their order, and every one that was flushed.
THEOREM CrashSafeHolds == Spec => []CrashSafe
<1>1. JInv2 => CrashSafe
  <2>1. SUFFICES ASSUME JInv2, ~Exposed PROVE ReplayMakesConsistent
    BY DEF CrashSafe
  <2>2. ~flaw /\ Mountable
    BY <2>1 DEF Exposed, Mountable
  <2>3. PICK g \in Logs : Geometry(g) /\ Complete(g)
    BY <2>1, <2>2 DEF JInv2
  <2>4. QED
    BY <2>1, <2>2, <2>3, ReplayIsConsistent DEF JInv2
<1>2. QED
  BY <1>1, JInv2Holds, PTL

=============================================================================
