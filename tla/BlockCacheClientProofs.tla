----------------------- MODULE BlockCacheClientProofs -----------------------
(***************************************************************************)
(* What TLAPS proves about the block cache under an arbitrary client: that *)
(* its counts and assertions hold, what reaches the disk, when a           *)
(* transaction is reported as written, and what an abort restores.         *)
(***************************************************************************)
EXTENDS BlockCacheClient, BlockCacheProofs

USE IdsAre DEF NoId, NoData, Current, Sync

(***************************************************************************)
(* The types of what the module BlockCacheClient adds, and the stamps.     *)
(***************************************************************************)
GhostTypes ==
    /\ stamp \in Values /\ active \in SUBSET Values /\ committed \in SUBSET Values
    /\ defined \in SUBSET Blocks
    /\ base \in [Blocks -> Values \cup {NoData}] /\ subBase \in [Blocks -> Values \cup {NoData}]
    /\ owed \in [Ids -> [Blocks -> Values \cup {NoData}]]

\* Stamps grow, an open transaction has one to write with, and its sub transaction one of
\* its own.
StampsOK ==
    /\ \A x \in active \cup committed : x <= stamp
    /\ \A x \in committed, y \in active : x < y
    /\ \A i \in Ids : Open(i) /\ call.op # "end" =>
            /\ active # {}
            /\ transaction[i].hasSub /\ ~Committing(call.op) => active \ {Max(active)} # {}

ActiveOK == GhostTypes /\ StampsOK

\* What is seen and kept has the type of contents.
LEMMA KeptType ==
    ASSUME Inv1
    PROVE  Kept \in [Blocks -> Values \cup {NoData}] /\ Nothing \in [Blocks -> Values \cup {NoData}]
<1>1. \A b \in Blocks : View[b] \in Values \cup {NoData}
  <2> SUFFICES ASSUME NEW b \in Blocks PROVE View[b] \in Values \cup {NoData}
    OBVIOUS
  <2>1. block[b].current \in Values \cup {NoData}
    BY InvParts DEF BlockType
  <2>2. disk[b] \in Values
    BY DEF Inv1, Types, OtherTypes
  <2>3. QED
    BY <2>1, <2>2 DEF View
<1>2. QED
  BY <1>1 DEF Kept, Nothing

\* The stamp a client writes with.
LEMMA MaxActive ==
    ASSUME NEW S \in SUBSET Values, S # {}
    PROVE  Max(S) \in S /\ \A x \in S : x <= Max(S)
<1>1. S \in SUBSET Nat /\ \A x \in S : x <= MaxStamp
  BY BlockCacheAssumption DEF Values
<1>2. MaxStamp \in Nat
  BY BlockCacheAssumption
<1>3. QED
  BY <1>1, <1>2, MaxIsLargest

-----------------------------------------------------------------------------
(* The stamps of the open transaction *)

\* The stamps stay right if transactions are only closed and calls end.
LEMMA ActiveFrame ==
    ASSUME ActiveOK, UNCHANGED <<stamp, active, committed>>,
           \A i \in Ids : Open(i)' /\ call'.op # "end" =>
                /\ Open(i) /\ call.op # "end"
                /\ transaction'[i].hasSub /\ ~Committing(call'.op) =>
                        transaction[i].hasSub /\ ~Committing(call.op)
    PROVE  StampsOK'
BY DEF ActiveOK, StampsOK

\* Steps of the client that keep the lock.
LEMMA StartActive ==
    ASSUME Inv1, ActiveOK, Start
    PROVE  StampsOK'
<1>1. /\ stamp' = stamp + 1 /\ active' = {stamp'} /\ committed' = committed
      /\ \A i \in Ids : ~Open(i)
      /\ nextId \in Ids /\ call' = call
      /\ transaction' = [transaction EXCEPT ![nextId] = [Gone EXCEPT !.state = "open"]]
  BY DEF Start, StartTransaction
<1>2. stamp \in Nat /\ committed \in SUBSET Nat /\ transaction \in [Ids -> TransactionType]
  BY InvParts, BlockCacheAssumption DEF ActiveOK, GhostTypes, Values
<1> DEFINE t == [Gone EXCEPT !.state = "open"]
<1>3. t.hasSub = FALSE
  BY DEF Gone
<1> HIDE DEF t
<1>4. \A i \in Ids : transaction'[i] = IF i = nextId THEN t ELSE transaction[i]
  BY <1>1, <1>2 DEF t
<1>5. \A i \in Ids : Open(i)' => ~transaction'[i].hasSub
  BY <1>1, <1>3, <1>4 DEF Open
<1>6. \A x \in committed : x <= stamp
  BY DEF ActiveOK, StampsOK
<1>7. /\ \A x \in active' \cup committed' : x <= stamp'
      /\ \A x \in committed', y \in active' : x < y
  BY <1>1, <1>2, <1>6
<1>8. QED
  BY <1>1, <1>5, <1>7 DEF ActiveOK, StampsOK

\* cache_start_sub_transaction() gives out a new stamp.
LEMMA StartSubActive ==
    ASSUME Inv1, ActiveOK, NEW i \in Ids, StartSub(i)
    PROVE  StampsOK'
<1>1. /\ stamp' = stamp + 1 /\ active' = active \cup {stamp'} /\ committed' = committed
      /\ Open(i) /\ Idle /\ call' = call
  BY DEF StartSub, StartSubTransaction, TransactionLock
<1>2. /\ stamp \in Nat /\ committed \in SUBSET Nat /\ active \in SUBSET Nat
  BY InvParts, BlockCacheAssumption DEF ActiveOK, GhostTypes, Values
<1>3. \A x \in active \cup committed : x <= stamp
  BY DEF ActiveOK, StampsOK
<1>4. call.op = "none"
  BY <1>1 DEF Idle, NoCall
<1>5. active # {}
  BY <1>1, <1>4 DEF ActiveOK, StampsOK
<1>6. active' \ {Max(active')} # {}
  <2>1. PICK x \in active : TRUE
    BY <1>5
  <2>2. x \in active' /\ stamp' \in active' /\ x # stamp'
    BY <1>1, <1>2, <1>3
  <2>3. QED
    BY <2>2
<1>7. /\ \A x \in active' \cup committed' : x <= stamp'
      /\ \A x \in committed', y \in active' : x < y
  <2>1. \A x \in committed, y \in active : x < y
    BY DEF ActiveOK, StampsOK
  <2>2. QED
    BY <1>1, <1>2, <1>3, <2>1
<1>8. QED
  BY <1>6, <1>7 DEF ActiveOK, StampsOK

\* cache_abort_transaction() drops the stamps of the transaction.
LEMMA AbortActive ==
    ASSUME Inv1, Inv1', ActiveOK, NEW i \in Ids, Abort(i)
    PROVE  StampsOK'
<1>1. /\ stamp' = stamp /\ active' = {} /\ committed' = committed /\ Open(i)
      /\ transaction' = [transaction EXCEPT ![i] = Gone]
  BY DEF Abort, AbortTransaction
<1>2. ASSUME NEW j \in Ids PROVE ~Open(j)'
  <2>1. transaction'[j] = IF j = i THEN Gone ELSE transaction[j]
    BY <1>1, InvParts
  <2>2. j # i => ~Open(j)
    BY <1>1, InvParts, CacheParts DEF Transactions
  <2>3. QED
    BY <2>1, <2>2, GoneIs DEF Open
<1>3. QED
  BY <1>1, <1>2 DEF ActiveOK, StampsOK

\* cache_abort_sub_transaction() drops the last stamp.
LEMMA AbortSubActive ==
    ASSUME Inv1, ActiveOK, NEW i \in Ids, AbortSub(i)
    PROVE  StampsOK'
<1>1. /\ stamp' = stamp /\ active' = active \ {Max(active)} /\ committed' = committed
      /\ Open(i) /\ Idle /\ AbortSubTransaction(i) /\ transaction[i].hasSub
  BY DEF AbortSub, AbortSubTransaction, TransactionLock
<1>2. ~Committing(call.op) /\ call.op # "end"
  BY <1>1 DEF Idle, NoCall, Committing
<1>3. active' # {}
  BY <1>1, <1>2 DEF ActiveOK, StampsOK
<1>4. \A j \in Ids : Open(j)' => ~transaction'[j].hasSub
  <2>1. ~transaction'[i].hasSub /\ \A j \in Ids : j # i => transaction'[j] = transaction[j]
    BY <1>1, AbortSubUpdates
  <2>2. \A j \in Ids : j # i => ~Open(j)
    BY <1>1, InvParts, CacheParts DEF Transactions
  <2>3. QED
    BY <2>1, <2>2 DEF Open
<1>5. QED
  BY <1>1, <1>3, <1>4 DEF ActiveOK, StampsOK

\* get_writable_cached_block() changes no stamps.
LEMMA WriteActive ==
    ASSUME Inv1, ActiveOK, NEW i \in Ids, NEW b \in Blocks, NEW cleared \in BOOLEAN,
           Write(b, i, cleared)
    PROVE  StampsOK'
<1>1. /\ UNCHANGED <<stamp, active, committed>> /\ GetWritable(b, i, cleared, Max(active))
      /\ call' = call
  BY DEF Write, GetWritable
<1>2. /\ transaction'[i].state = transaction[i].state
      /\ transaction'[i].hasSub = transaction[i].hasSub
      /\ \A j \in Ids : j # i => transaction'[j] = transaction[j]
  BY <1>1, WriteUpdates
<1>3. QED
  BY <1>1, <1>2, ActiveFrame DEF Open

\* Calls of the client that may let go of the lock.
LEMMA EndActive ==
    ASSUME Inv1, ActiveOK, NEW i \in Ids, End(i)
    PROVE  StampsOK'
<1>1. /\ Idle /\ Open(i) /\ Call("end", i, TRUE, InBoth(i))
      /\ committed' = committed \cup active /\ active' = {} /\ stamp' = stamp
  BY DEF End, EndTransaction, TransactionLock
<1>2. \A j \in Ids : Open(j)' => call'.op = "end"
  <2>1. CASE InBoth(i) = {}
    <3>1. Finish(Cache, "end", i, TRUE) /\ IsOpen(Cache, i)
      BY <1>1, <2>1, InvParts DEF Call
    <3>2. PICK op \in {"end", "detach", "discard", "sync"}, hook \in BOOLEAN :
                op = "end" /\ hook = TRUE
      OBVIOUS
    <3>3. FinishedCall(Cache, op, i)
      BY <3>1, <3>2, InvParts, FinishIs
    <3>4. QED
      BY <3>2, <3>3 DEF FinishedCall
  <2>2. CASE InBoth(i) # {}
    BY <1>1, <2>2, CallMarks
  <2>3. QED
    BY <2>1, <2>2
<1>3. QED
  BY <1>1, <1>2 DEF ActiveOK, StampsOK

\* cache_detach_sub_transaction() keeps the last stamp for the new transaction.
LEMMA DetachActive ==
    ASSUME Inv1, ActiveOK, NEW i \in Ids, Detach(i)
    PROVE  StampsOK'
<1>1. /\ Idle /\ Open(i) /\ Call("detach", i, TRUE, InBoth(i)) /\ nextId \in Ids
      /\ committed' = committed \cup (active \ {Max(active)})
      /\ active' = {Max(active)} /\ stamp' = stamp
  BY DEF Detach, DetachSubTransaction, TransactionLock
<1>2. /\ stamp \in Nat /\ committed \in SUBSET Nat /\ active \in SUBSET Nat
      /\ active \in SUBSET Values
  BY InvParts, BlockCacheAssumption DEF ActiveOK, GhostTypes, Values
<1>3. active # {}
  BY <1>1 DEF ActiveOK, StampsOK, Idle, NoCall
<1>4. Max(active) \in active /\ \A x \in active : x <= Max(active)
  BY <1>2, <1>3, MaxActive
<1>5. /\ \A x \in active \cup committed : x <= stamp
      /\ \A x \in committed, y \in active : x < y
  BY DEF ActiveOK, StampsOK
<1>6. /\ \A x \in active' \cup committed' : x <= stamp'
      /\ \A x \in committed', y \in active' : x < y
  <2>1. \A x \in active \ {Max(active)} : x < Max(active)
    <3> DEFINE m == Max(active)
    <3>1. m \in Nat /\ \A x \in active : x \in Nat /\ x <= m
      BY <1>2, <1>4
    <3> HIDE DEF m
    <3>2. \A x \in active \ {m} : x < m
      BY <3>1
    <3>3. QED
      BY <3>2 DEF m
  <2>2. QED
    BY <1>1, <1>4, <1>5, <2>1
<1>7. \A j \in Ids : Open(j)' => ~transaction'[j].hasSub \/ Committing(call'.op)
  <2>1. CASE InBoth(i) = {}
    <3>1. Finish(Cache, "detach", i, TRUE) /\ IsOpen(Cache, i)
      BY <1>1, <2>1, InvParts DEF Call
    <3>2. PICK op \in {"end", "detach", "discard", "sync"}, hook \in BOOLEAN :
                op = "detach" /\ hook = TRUE
      OBVIOUS
    <3>3. FinishedCall(Cache, op, i)
      BY <1>1, <3>1, <3>2, InvParts, FinishIs
    <3>4. QED
      BY <3>2, <3>3 DEF FinishedCall
  <2>2. CASE InBoth(i) # {}
    BY <1>1, <2>2, CallMarks DEF Committing
  <2>3. QED
    BY <2>1, <2>2
<1>8. QED
  BY <1>1, <1>6, <1>7 DEF ActiveOK, StampsOK

\* Calls that commit nothing change no stamps.
LEMMA CallActive ==
    ASSUME Inv1, ActiveOK, Idle, NEW op \in {"end", "detach", "discard", "sync"},
           op \in {"discard", "sync"}, NEW arg, NEW hook \in BOOLEAN, NEW S,
           Call(op, arg, hook, S), UNCHANGED <<stamp, active, committed>>
    PROVE  StampsOK'
<1>1. call.op = "none" /\ ~Committing(call.op)
  BY DEF Idle, NoCall, Committing
<1>2. transaction' = transaction
  <2>1. CASE S = {}
    <3>1. Finish(Cache, op, arg, hook)
      BY <2>1 DEF Call
    <3>2. FinishedCall(Cache, op, arg)
      BY <3>1, InvParts, FinishIs DEF Committing
    <3>3. QED
      BY <3>2, InvParts DEF FinishedCall
  <2>2. CASE S # {}
    BY <2>2 DEF Call
  <2>3. QED
    BY <2>1, <2>2
<1>3. QED
  BY <1>1, <1>2, ActiveFrame DEF Open

\* The client's call goes on.
LEMMA ClientWrittenActive ==
    ASSUME Inv1, ActiveOK, ClientWritten, UNCHANGED ghosts
    PROVE  StampsOK'
<1> DEFINE S == written["client"]
           d == BlocksDone(Cache, S)
<1>1. S # {} /\ Finish(d, call.op, call.arg, call.hook) /\ toWrite["client"] = {}
      /\ UNCHANGED <<stamp, active, committed>>
  BY DEF ClientWritten, WriteEnds, ghosts
<1>2. CacheOK(Cache, nextId) /\ nextId \in Nat /\ Types
  BY InvParts
<1>3. /\ call.op \in {"end", "detach", "discard", "sync"} /\ call.hook \in BOOLEAN
      /\ Committing(call.op) => Closing(Cache, nextId, call.op, call.arg, Busy("client"))
  BY <1>1, <1>2 DEF Inv1, CallOK, Types, CallType, Busy
<1>4. S \in SUBSET BusyWriting /\ S \in SUBSET Blocks
  BY <1>2 DEF BusyWriting, Busy, Types, OtherTypes, Writers
<1>5. CacheOK(d, nextId)
  BY <1>4, WriteEndsParts
<1>6. \A i \in Ids : IsOpen(d, i) => Open(i) /\ d.transaction[i].hasSub = transaction[i].hasSub
  BY <1>4, DoneOpen
<1>7. Committing(call.op) => Closing(d, nextId, call.op, call.arg, Busy("client") \ S)
  BY <1>2, <1>3, <1>4, ClosingDone
<1> HIDE DEF d, S
<1>8. FinishedCall(d, call.op, call.arg)
  BY <1>1, <1>2, <1>3, <1>5, <1>7, FinishIs DEF Closing, Committing
<1>9. CASE call.op = "end"
  BY <1>1, <1>8, <1>9 DEF FinishedCall, ActiveOK, StampsOK
<1>10. CASE call.op = "detach"
  <2>1. call.arg \in Ids /\ Open(call.arg)
    BY <1>3, <1>10, InvParts DEF Closing, Committing
  <2>2. active # {}
    BY <1>10, <2>1 DEF ActiveOK, StampsOK
  <2>3. QED
    BY <1>1, <1>8, <1>10, <2>2 DEF FinishedCall, ActiveOK, StampsOK
<1>11. CASE call.op \in {"discard", "sync"}
  <2>1. transaction' = d.transaction
    BY <1>8, <1>11 DEF FinishedCall
  <2>2. \A i \in Ids : Open(i)' => Open(i) /\ transaction'[i].hasSub = transaction[i].hasSub
    BY <1>6, <2>1 DEF Open, IsOpen
  <2>3. call.op # "end" /\ ~Committing(call.op)
    BY <1>11 DEF Committing
  <2>4. QED
    BY <1>1, <2>2, <2>3, ActiveFrame
<1>12. QED
  BY <1>3, <1>9, <1>10, <1>11

\* The other writers mark their blocks clean or drop them.
LEMMA WriterDoneActive ==
    ASSUME Inv1, ActiveOK, BackgroundWritten \/ WrittenRemoved, UNCHANGED ghosts
    PROVE  StampsOK'
<1>0. PICK w \in Writers : \/ w = "background" /\ BackgroundWritten
                           \/ w = "memory" /\ WrittenRemoved
  BY DEF Writers
<1> DEFINE S == written[w]
           d == BlocksDone(Cache, S)
<1>1. transaction' = d.transaction /\ call' = call /\ UNCHANGED <<stamp, active, committed>>
  <2>1. CASE w = "background"
    BY <1>0, <2>1 DEF BackgroundWritten, Becomes, ghosts
  <2>2. CASE w = "memory"
    BY <1>0, <2>2 DEF WrittenRemoved, Becomes, BlocksDone, ghosts
  <2>3. QED
    BY <1>0, <2>1, <2>2
<1>2. S \in SUBSET Blocks
  BY InvParts DEF Types, OtherTypes, Writers
<1>3. \A i \in Ids : IsOpen(d, i) => Open(i) /\ d.transaction[i].hasSub = transaction[i].hasSub
  BY <1>2, DoneOpen
<1> HIDE DEF d, S
<1>4. \A i \in Ids : Open(i)' => Open(i) /\ transaction'[i].hasSub = transaction[i].hasSub
  BY <1>1, <1>3 DEF Open, IsOpen
<1>5. QED
  BY <1>1, <1>4, ActiveFrame

\* Steps that touch no transaction.
LEMMA OthersActive ==
    ASSUME ActiveOK, transaction' = transaction, UNCHANGED <<stamp, active, committed>>,
           call' = call \/ call.op = "wait"
    PROVE  StampsOK'
<1>1. call.op = "wait" => ~Committing(call.op) /\ call.op # "end"
  BY DEF Committing
<1>2. QED
  BY <1>1, ActiveFrame DEF Open

-----------------------------------------------------------------------------
(***************************************************************************)
(* What cache_detach_sub_transaction() goes by is right as long as the sub *)
(* transaction has not misled it.                                          *)
(***************************************************************************)
Parted == \A i \in Ids : Open(i) /\ transaction[i].hasSub => Divided(Cache, i)

\* A discard in progress is not about a block that a sub transaction could discard.
HarmlessDiscard == call.op = "discard" => ~MisleadsDiscarded(call.arg)

DividedOK == division = "exact" => Parted /\ HarmlessDiscard

\* No sub transaction is open after the step, and no discard in progress.
LEMMA NoSubDivided ==
    ASSUME \A i \in Ids : Open(i)' => ~transaction'[i].hasSub, call'.op # "discard"
    PROVE  DividedOK'
BY DEF DividedOK, Parted, HarmlessDiscard

\* For the division it matters only what the blocks of the transaction keep.
LEMMA DividedFrame ==
    ASSUME NEW c, NEW d, NEW i, Divided(c, i),
           d.transaction[i].main = c.transaction[i].main,
           d.transaction[i].sub = c.transaction[i].sub,
           \A b \in Blocks :
                /\ d.block[b].transaction = c.block[b].transaction
                /\ c.block[b].transaction = i =>
                        /\ d.block[b].parent = c.block[b].parent
                        /\ d.block[b].original = c.block[b].original
                        /\ d.block[b].discard = c.block[b].discard
    PROVE  Divided(d, i)
<1>1. InTransaction(d, i) = InTransaction(c, i)
  BY DEF InTransaction
<1>2. \A b \in InTransaction(c, i) : b \in Blocks /\ c.block[b].transaction = i
  BY DEF InTransaction
<1>3. /\ SubPart(d, i) = SubPart(c, i) /\ MainPart(d, i) = MainPart(c, i)
      /\ Discarded(d, i) = Discarded(c, i)
  BY <1>1, <1>2 DEF SubPart, MainPart, Discarded
<1>4. \A b \in InTransaction(d, i) : DividedBlock(d.block[b])
  BY <1>1, <1>2 DEF Divided, DividedBlock
<1>5. QED
  BY <1>3, <1>4 DEF Divided

\* What a step leaves alone that changes nothing about the division.
Untouched ==
    /\ \A b \in Blocks :
        /\ block'[b].transaction = block[b].transaction
        /\ block[b].transaction # NoId =>
                /\ block'[b].parent = block[b].parent
                /\ block'[b].original = block[b].original
                /\ block'[b].discard = block[b].discard
    /\ \A i \in Ids :
        /\ Open(i)' => Open(i)
        /\ Open(i) => /\ transaction'[i].hasSub = transaction[i].hasSub
                      /\ transaction'[i].main = transaction[i].main
                      /\ transaction'[i].sub = transaction[i].sub

\* Such a step keeps it.
LEMMA UntouchedParted ==
    ASSUME Inv1, Parted, Untouched
    PROVE  Parted'
<1> SUFFICES ASSUME NEW i \in Ids, Open(i)', transaction'[i].hasSub PROVE Divided(Cache, i)'
  BY DEF Parted
<1>1. Open(i) /\ transaction[i].hasSub /\ i # NoId
  BY DEF Untouched
<1>2. Divided(Cache, i)
  BY <1>1 DEF Parted
<1>3. PICK d : d = Cache'
  OBVIOUS
<1>4. /\ d.block = block' /\ d.transaction = transaction'
      /\ Cache.block = block /\ Cache.transaction = transaction
  BY <1>3 DEF Cache
<1>5. Divided(d, i)
  BY <1>1, <1>2, <1>4, DividedFrame DEF Untouched
<1>6. QED
  BY <1>3, <1>5

\* The same for all that the client has to know.
LEMMA UntouchedDivided ==
    ASSUME Inv1, DividedOK, Untouched, division' = division,
           call' = call \/ call'.op # "discard"
    PROVE  DividedOK'
<1> SUFFICES ASSUME division = "exact" PROVE Parted' /\ HarmlessDiscard'
  BY DEF DividedOK
<1>1. Parted'
  BY UntouchedParted DEF DividedOK
<1>2. HarmlessDiscard'
  <2> SUFFICES ASSUME call' = call, call.op = "discard" PROVE ~MisleadsDiscarded(call.arg)'
    BY DEF HarmlessDiscard
  <2>1. ~MisleadsDiscarded(call.arg)
    BY DEF DividedOK, HarmlessDiscard
  <2>2. call.arg \in Busy("client")
    BY DEF Inv1, CallOK
  <2>3. call.arg \in Blocks
    BY <2>2, InvParts DEF Types, OtherTypes, Busy, Writers
  <2>4. block[call.arg] \in BlockType /\ ShapeOf(Cache, block[call.arg])
    BY <2>3, InvParts
  <2>5. block[call.arg].transaction # NoId =>
            block[call.arg].transaction \in Ids /\ Open(block[call.arg].transaction)
    BY <2>4, InvParts DEF ShapeOf, BlockType
  <2>6. /\ block'[call.arg].transaction = block[call.arg].transaction
        /\ block[call.arg].transaction # NoId =>
             transaction'[block[call.arg].transaction].hasSub
                = transaction[block[call.arg].transaction].hasSub
    BY <2>3, <2>5 DEF Untouched
  <2>7. QED
    BY <2>1, <2>6 DEF MisleadsDiscarded
<1>3. QED
  BY <1>1, <1>2

\* A state of the cache in which what the division depends on is as it is now.
Keeps(d) ==
    /\ \A b \in Blocks :
        /\ d.block[b].transaction = block[b].transaction
        /\ block[b].transaction # NoId =>
                /\ d.block[b].parent = block[b].parent
                /\ d.block[b].original = block[b].original
                /\ d.block[b].discard = block[b].discard
    /\ \A i \in Ids :
        /\ IsOpen(d, i) => Open(i)
        /\ Open(i) => /\ d.transaction[i].hasSub = transaction[i].hasSub
                      /\ d.transaction[i].main = transaction[i].main
                      /\ d.transaction[i].sub = transaction[i].sub

\* _BlockDone() leads to one.
LEMMA DoneKeeps ==
    ASSUME Inv1, NEW S \in SUBSET Blocks, NEW d, d = BlocksDone(Cache, S)
    PROVE  Keeps(d)
<1>1. /\ \A b \in Blocks : d.block[b] = IF b \in S THEN Done(block[b]) ELSE block[b]
      /\ \A i \in Ids : TransactionDone(Cache, d, S, i)
      /\ \A b \in Blocks : block[b] \in BlockType
      /\ Cache.transaction = transaction
  BY InvParts, BlocksDoneParts
<1>2. ASSUME NEW b \in Blocks
      PROVE  /\ d.block[b].transaction = block[b].transaction
             /\ block[b].transaction # NoId =>
                    /\ d.block[b].parent = block[b].parent
                    /\ d.block[b].original = block[b].original
                    /\ d.block[b].discard = block[b].discard
  BY <1>1, DoneType
<1>3. ASSUME NEW i \in Ids
      PROVE  /\ IsOpen(d, i) => Open(i)
             /\ Open(i) => /\ d.transaction[i].hasSub = transaction[i].hasSub
                           /\ d.transaction[i].main = transaction[i].main
                           /\ d.transaction[i].sub = transaction[i].sub
  BY <1>1 DEF TransactionDone, SameButNum, IsGone, IsOpen, Open
<1>4. QED
  BY <1>2, <1>3 DEF Keeps

\* A step to one, with some of the blocks that belong to no transaction dropped.
LEMMA BecomesUntouched ==
    ASSUME NEW d, Keeps(d), transaction' = d.transaction,
           \A b \in Blocks : \/ block'[b] = d.block[b]
                             \/ block[b].transaction = NoId /\ block'[b].transaction = NoId
    PROVE  Untouched
BY DEF Untouched, Keeps, IsOpen, Open

\* At its start all of the transaction is the parent's.
LEMMA StartSubDivided ==
    ASSUME Inv1, NEW i \in Ids, StartSub(i)
    PROVE  DividedOK'
<1>1. /\ StartSubTransaction(i) /\ Open(i) /\ Idle /\ call' = call
      /\ block \in [Blocks -> BlockType]
      /\ \A b \in Blocks : block[b] \in BlockType /\ ShapeOf(Cache, block[b])
      /\ Cache.block = block /\ Cache.transaction = transaction /\ CacheOK(Cache, nextId)
  BY InvParts DEF StartSub, StartSubTransaction, TransactionLock
<1>2. /\ transaction'[i].main = transaction[i].num /\ transaction'[i].sub = 0
      /\ \A j \in Ids : j # i => transaction'[j] = transaction[j]
  BY <1>1, StartSubUpdates
<1>3. ASSUME NEW b \in Blocks
      PROVE  /\ block'[b].transaction = block[b].transaction
             /\ block'[b].discard = block[b].discard
             /\ block[b].transaction = i =>
                    block'[b].parent = IF block[b].discard THEN NoData ELSE Current
  <2>1. block'[b] = IF block[b].transaction = i THEN StartedSub(block[b]) ELSE block[b]
    BY <1>1, StartSubBlocks
  <2>2. CASE block[b].transaction = i
    <3>1. PICK r, s : r \in BlockType /\ r = block[b] /\ s = StartedSub(r) /\ ShapeOf(Cache, r)
      BY <1>1
    <3>2. /\ s.transaction = r.transaction /\ s.discard = r.discard
          /\ s.parent = IF r.discard THEN NoData ELSE Current
      BY <2>2, <3>1, StartedSubIs
    <3>3. QED
      BY <2>1, <2>2, <3>1, <3>2
  <2>3. QED
    BY <2>1, <2>2
<1>4. PICK c : c = Cache'
  OBVIOUS
<1>5. c.block = block' /\ c.transaction = transaction'
  BY <1>4 DEF Cache
<1>6. /\ InTransaction(c, i) = InTransaction(Cache, i) /\ SubPart(c, i) = {}
      /\ MainPart(c, i) \cup Discarded(c, i) = InTransaction(Cache, i)
  BY <1>1, <1>3, <1>5 DEF InTransaction, SubPart, MainPart, Discarded
<1>7. transaction[i].num = Cardinality(InTransaction(Cache, i))
  BY <1>1 DEF CacheOK, Counts, IsOpen, Open
<1>8. \A b \in InTransaction(c, i) : DividedBlock(c.block[b])
  BY <1>1, <1>3, <1>5 DEF InTransaction, DividedBlock
<1>9. Divided(c, i)
  <2>1. Cardinality({}) = 0
    BY FS_EmptySet
  <2>2. QED
    BY <1>2, <1>5, <1>6, <1>7, <1>8, <2>1 DEF Divided
<1>10. \A j \in Ids : Open(j)' => j = i
  <2>1. \A j \in Ids : Open(j) => j = i
    BY <1>1, InvParts, CacheParts DEF Transactions
  <2>2. QED
    BY <1>2, <2>1 DEF Open
<1>11. Parted'
  BY <1>4, <1>9, <1>10 DEF Parted
<1>12. HarmlessDiscard'
  BY <1>1 DEF HarmlessDiscard, Idle, NoCall
<1>13. QED
  BY <1>11, <1>12 DEF DividedOK

\* What the sub transaction changes for the first time is counted as its own, and what it
\* changes again is not counted, unless it misleads the counts.
LEMMA WriteDivided ==
    ASSUME Inv1, DividedOK, NEW i \in Ids, NEW b \in Blocks, NEW cleared \in BOOLEAN,
           Write(b, i, cleared), Max(active) \in Values
    PROVE  DividedOK'
<1> SUFFICES ASSUME division' = "exact" PROVE Parted' /\ HarmlessDiscard'
  BY DEF DividedOK
<1>1. /\ division = "exact" /\ ~Misleads(b, i, cleared)
      /\ GetWritable(b, i, cleared, Max(active)) /\ call' = call /\ Idle /\ Open(i)
  BY DEF Write, Doubt, GetWritable
<1>2. Parted
  BY <1>1 DEF DividedOK
<1>3. HarmlessDiscard'
  BY <1>1 DEF HarmlessDiscard, Idle, NoCall
<1>4. Parted'
  <2> SUFFICES ASSUME NEW j \in Ids, Open(j)', transaction'[j].hasSub
               PROVE  Divided(Cache, j)'
    BY DEF Parted
  <2>1. /\ transaction'[i].state = transaction[i].state
        /\ transaction'[i].hasSub = transaction[i].hasSub
        /\ \A k \in Ids : k # i => transaction'[k] = transaction[k]
    BY <1>1, WriteUpdates
  <2>2. j = i
    <3>1. Open(j)
      BY <2>1 DEF Open
    <3>2. QED
      BY <1>1, <3>1, InvParts, CacheParts DEF Transactions
  <2>3. transaction[i].hasSub /\ Divided(Cache, i)
    BY <1>1, <1>2, <2>1, <2>2 DEF Parted
  <2>4. PICK isNew \in BOOLEAN : isNew <=> cleared /\ ~block[b].cached
    OBVIOUS
  <2>5. /\ ~isNew
        /\ block[b].transaction = i /\ block[b].parent = NoData =>
                ~block[b].discard /\ block[b].previous = NoId
    BY <1>1, <2>3, <2>4 DEF Misleads
  <2>6. PICK r : r = Found(b, cleared)
    OBVIOUS
  <2>7. PICK s : s = WrittenBlock(r, isNew, i, Max(active))
    OBVIOUS
  <2>8. block' = [block EXCEPT ![b] = s] /\ r.transaction \in {NoId, i}
    BY <1>1, <2>4, <2>6, <2>7 DEF GetWritable, WrittenBlock, Copied
  <2>9. /\ block \in [Blocks -> BlockType] /\ block[b] \in BlockType
        /\ ShapeOf(Cache, block[b]) /\ disk[b] \in Values /\ Cache.block = block
        /\ Cache.transaction = transaction
    BY InvParts DEF Inv1, Types, OtherTypes
  <2>10. /\ r \in BlockType /\ r.transaction = block[b].transaction
         /\ r.previous = block[b].previous /\ r.original = block[b].original
         /\ r.parent = block[b].parent /\ r.discard = block[b].discard
         /\ r.current # NoData
    <3>1. /\ r \in BlockType /\ r.cached /\ (block[b].cached => r = block[b])
          /\ ~block[b].cached =>
                /\ block[b] = Absent
                /\ r.current = IF cleared THEN NoData ELSE disk[b]
                /\ r.original = NoData /\ r.parent = NoData /\ r.transaction = NoId
                /\ r.previous = NoId /\ ~r.dirty /\ ~r.discard /\ ~r.unused
      BY <2>6, <2>9, FoundIs
    <3>2. CASE block[b].cached
      BY <2>9, <3>1, <3>2 DEF ShapeOf
    <3>3. CASE ~block[b].cached
      BY <2>4, <2>5, <2>9, <3>1, <3>3, AbsentIs DEF Values, BlockType
    <3>4. QED
      BY <3>2, <3>3
  <2>11. /\ s.transaction = i /\ ~s.discard
         /\ s.original # NoData /\ s.parent # Current
         /\ s.parent # NoData <=> block[b].parent # NoData
    <3>1. /\ s.transaction = i /\ ~s.discard
          /\ s.original = IF r.original = NoData /\ ~isNew THEN r.current ELSE r.original
          /\ s.parent = IF r.parent = Current THEN r.current ELSE r.parent
      BY <2>7, <2>10, WrittenIs
    <3>2. r.current # Current
      BY <2>10 DEF BlockType, Values
    <3>3. QED
      BY <2>5, <2>10, <3>1, <3>2
  <2>12. /\ transaction'[i].main = transaction[i].main
         /\ transaction'[i].sub =
                IF \/ r.parent = Current
                   \/ /\ transaction[i].hasSub /\ r.parent = NoData
                      /\ r.original = NoData \/ r.previous # NoId
                THEN transaction[i].sub + 1 ELSE transaction[i].sub
    <3>1. PICK data : data = Max(active)
      OBVIOUS
    <3>2. GetWritable(b, i, cleared, data)
      BY <1>1, <3>1
    <3>3. QED
      BY <2>6, <3>2, WriteCounts, SMTT(30)
  <2>13. block[b].transaction = i => DividedBlock(block[b])
    BY <2>3, <2>9 DEF Divided, InTransaction
  <2>14. /\ block[b].transaction = NoId =>
                 /\ block[b].parent = NoData
                 /\ block[b].original = NoData \/ block[b].previous # NoId
         /\ block[b].transaction = i => ~block[b].discard
    <3>1. block[b].transaction = NoId =>
                 /\ block[b].parent = NoData
                 /\ block[b].original = NoData \/ block[b].previous # NoId
      BY <2>9 DEF ShapeOf
    <3>2. QED
      BY <2>5, <2>13, <3>1 DEF DividedBlock
  <2>15. b \in SubPart(Cache, i) <=> /\ block[b].transaction = i
                                     /\ block[b].parent # Current
    BY <2>9, <2>14 DEF SubPart, InTransaction
  <2>16. transaction'[i].sub = IF b \in SubPart(Cache, i) THEN transaction[i].sub
                               ELSE transaction[i].sub + 1
    <3>1. CASE block[b].transaction = NoId
      BY <2>3, <2>10, <2>12, <2>14, <2>15, <3>1
    <3>2. CASE block[b].transaction = i /\ block[b].parent = Current
      BY <2>10, <2>12, <2>15, <3>2
    <3>3. CASE block[b].transaction = i /\ block[b].parent # Current
      <4>1. block[b].original # NoData
        BY <2>13, <2>14, <3>3 DEF DividedBlock
      <4>2. QED
        BY <2>5, <2>10, <2>12, <2>15, <3>3, <4>1
    <3>4. QED
      BY <2>8, <2>10, <3>1, <3>2, <3>3
  <2>17. PICK c : c = Cache'
    OBVIOUS
  <2>18. /\ c.block = block' /\ c.transaction = transaction'
         /\ \A x \in Blocks : c.block[x] = IF x = b THEN s ELSE block[x]
    BY <2>8, <2>9, <2>17 DEF Cache
  <2>19. /\ InTransaction(c, i) = InTransaction(Cache, i) \cup {b}
         /\ SubPart(c, i) = SubPart(Cache, i) \cup {b}
         /\ MainPart(c, i) \cup Discarded(c, i)
                = MainPart(Cache, i) \cup Discarded(Cache, i)
    <3>1. \A x \in Blocks : c.block[x].transaction = i <=>
                                block[x].transaction = i \/ x = b
      BY <2>11, <2>18
    <3>2. \A x \in Blocks : /\ c.block[x].transaction = i
                            /\ c.block[x].parent # Current /\ ~c.block[x].discard
                            <=> \/ x = b
                                \/ /\ block[x].transaction = i
                                   /\ block[x].parent # Current /\ ~block[x].discard
      BY <2>11, <2>18
    <3>3. \A x \in Blocks : /\ c.block[x].transaction = i
                            /\ c.block[x].parent # NoData \/ c.block[x].discard
                            <=> /\ block[x].transaction = i
                                /\ block[x].parent # NoData \/ block[x].discard
      BY <2>8, <2>10, <2>11, <2>14, <2>18
    <3>4. InTransaction(c, i) = InTransaction(Cache, i) \cup {b}
      BY <2>9, <3>1 DEF InTransaction
    <3>5. SubPart(c, i) = SubPart(Cache, i) \cup {b}
      BY <2>9, <3>2 DEF SubPart, InTransaction
    <3>6. MainPart(c, i) \cup Discarded(c, i)
                = MainPart(Cache, i) \cup Discarded(Cache, i)
      BY <2>9, <3>3 DEF MainPart, Discarded, InTransaction
    <3>7. QED
      BY <3>4, <3>5, <3>6
  <2>20. c.transaction[i].sub = Cardinality(SubPart(c, i))
    <3>1. SubPart(Cache, i) \in SUBSET Blocks
      BY DEF SubPart, InTransaction
    <3>2. IsFiniteSet(SubPart(Cache, i))
      BY <3>1, FiniteBlocks
    <3>3. transaction[i].sub = Cardinality(SubPart(Cache, i))
      BY <2>3, <2>9 DEF Divided
    <3>4. Cardinality(SubPart(Cache, i) \cup {b}) =
              IF b \in SubPart(Cache, i) THEN Cardinality(SubPart(Cache, i))
              ELSE Cardinality(SubPart(Cache, i)) + 1
      BY <3>2, FS_AddElement
    <3>5. QED
      BY <2>16, <2>18, <2>19, <3>3, <3>4
  <2>21. c.transaction[i].main = Cardinality(MainPart(c, i) \cup Discarded(c, i))
    BY <2>3, <2>9, <2>12, <2>18, <2>19 DEF Divided
  <2>22. \A x \in InTransaction(c, i) : DividedBlock(c.block[x])
    <3>1. DividedBlock(s)
      BY <2>11 DEF DividedBlock
    <3>2. \A x \in InTransaction(Cache, i) : x \in Blocks /\ DividedBlock(block[x])
      BY <2>3, <2>9 DEF Divided, InTransaction
    <3>3. QED
      BY <2>18, <2>19, <3>1, <3>2
  <2>23. Divided(c, i)
    BY <2>20, <2>21, <2>22 DEF Divided
  <2>24. QED
    BY <2>2, <2>17, <2>23
<1>5. QED
  BY <1>3, <1>4

\* A call that finishes: it closes the transaction, or leaves it alone, or discards
\* a block that the sub transaction could not have discarded.
LEMMA FinishDivided ==
    ASSUME Inv1, NEW d, Keeps(d), NEW op \in {"end", "detach", "discard", "sync"}, NEW arg,
           FinishedCall(d, op, arg), DividedOK, division' = division,
           op = "discard" => /\ arg \in Blocks /\ d.block[arg] \in BlockType
                             /\ division = "exact" => ~MisleadsDiscarded(arg)
    PROVE  DividedOK'
<1>1. CASE op = "end"
  BY <1>1, NoSubDivided DEF FinishedCall, NoCall
<1>2. CASE op = "detach"
  <2>1. \A i \in Ids : Open(i)' => ~transaction'[i].hasSub
    BY <1>2 DEF FinishedCall
  <2>2. QED
    BY <1>2, <2>1, NoSubDivided DEF FinishedCall, NoCall
<1>3. CASE op = "sync"
  <2>1. Untouched
    BY <1>3, BecomesUntouched DEF FinishedCall
  <2>2. QED
    BY <1>3, <2>1, UntouchedDivided DEF FinishedCall
<1>4. CASE op = "discard"
  <2> SUFFICES ASSUME division = "exact" PROVE Parted' /\ HarmlessDiscard'
    BY DEF DividedOK
  <2>1. /\ call'.op # "discard" /\ transaction' = d.transaction
        /\ \A b \in Blocks : block'[b] = IF b = arg THEN DiscardedBlock(d.block[b])
                                         ELSE d.block[b]
    BY <1>4 DEF FinishedCall, NoCall
  <2>2. HarmlessDiscard'
    BY <2>1 DEF HarmlessDiscard
  <2>3. d.block[arg].transaction = block[arg].transaction
    BY <1>4 DEF Keeps
  <2>4. CASE block[arg].transaction = NoId
    <3>1. DiscardedBlock(d.block[arg]).transaction = NoId
      BY <1>4, <2>3, <2>4, AbsentIs DEF DiscardedBlock, BlockType
    <3>2. Untouched
      BY <2>1, <2>4, <3>1, BecomesUntouched
    <3>3. QED
      BY <2>2, <3>2, UntouchedParted DEF DividedOK
  <2>5. CASE block[arg].transaction # NoId
    <3>1. block[arg] \in BlockType /\ ShapeOf(Cache, block[arg])
      BY <1>4, InvParts
    <3>2. block[arg].transaction \in Ids /\ Open(block[arg].transaction)
      BY <2>5, <3>1, InvParts DEF ShapeOf, BlockType
    <3>3. ~transaction[block[arg].transaction].hasSub
      BY <1>4, <2>5 DEF MisleadsDiscarded
    <3>4. \A i \in Ids : Open(i) => i = block[arg].transaction
      BY <3>2, InvParts, CacheParts DEF Transactions
    <3>5. \A i \in Ids : Open(i)' => ~transaction'[i].hasSub
      BY <2>1, <3>2, <3>3, <3>4 DEF Keeps, IsOpen, Open
    <3>6. QED
      BY <2>2, <3>5 DEF Parted
  <2>6. QED
    BY <2>4, <2>5
<1>5. QED
  BY <1>1, <1>2, <1>3, <1>4

\* The start of a call.
LEMMA CallDivided ==
    ASSUME Inv1, DividedOK, division' = division, Idle, NEW arg, NEW hook \in BOOLEAN, NEW S,
           NEW op \in {"end", "detach", "discard", "sync"}, Call(op, arg, hook, S),
           Committing(op) => arg \in Ids /\ Open(arg), op = "detach" => nextId \in Ids,
           op = "discard" => arg \in Blocks /\ (division = "exact" => ~MisleadsDiscarded(arg))
    PROVE  DividedOK'
<1>1. CASE S = {}
  <2>1. Finish(Cache, op, arg, hook)
    BY <1>1 DEF Call
  <2>2. FinishedCall(Cache, op, arg)
    BY <2>1, InvParts, FinishIs
  <2>3. Keeps(Cache)
    BY InvParts DEF Keeps
  <2>4. \A b \in Blocks : Cache.block[b] \in BlockType
    BY InvParts
  <2>5. QED
    BY <2>2, <2>3, <2>4, FinishDivided
<1>2. CASE S # {}
  <2>1. call'.op = op /\ call'.arg = arg /\ UNCHANGED <<block, transaction>>
    BY <1>2, CallMarks
  <2>2. Untouched
    BY <2>1 DEF Untouched, Open
  <2>3. Parted => Parted'
    BY <2>2, UntouchedParted
  <2>4. HarmlessDiscard' <=> (call'.op = "discard" => ~MisleadsDiscarded(call'.arg))
    BY <2>1 DEF HarmlessDiscard, MisleadsDiscarded
  <2>5. QED
    BY <2>1, <2>3, <2>4 DEF DividedOK
<1>3. QED
  BY <1>1, <1>2

\* The client's call goes on.
LEMMA ClientWrittenDivided ==
    ASSUME Inv1, DividedOK, ClientWritten, division' = division
    PROVE  DividedOK'
<1>1. PICK S, d : S = written["client"] /\ d = BlocksDone(Cache, S)
  OBVIOUS
<1>2. CallMayFinish(d, S)
  BY <1>1, ClientWrittenParts
<1>3. /\ CacheOK(d, nextId) /\ S \in SUBSET Blocks /\ call.hook \in BOOLEAN
      /\ call.op \in {"end", "detach", "discard", "sync"}
      /\ Finish(d, call.op, call.arg, call.hook) /\ CanFinish(d, nextId, call.op, call.arg)
  BY <1>2 DEF CallMayFinish
<1>4. /\ Committing(call.op) => call.arg \in Ids /\ IsOpen(d, call.arg)
      /\ call.op = "detach" => nextId \in Ids
      /\ call.op = "discard" => call.arg \in Blocks
  BY <1>3 DEF CanFinish, Closing, Committing
<1>5. FinishedCall(d, call.op, call.arg)
  BY <1>3, <1>4, InvParts, FinishIs
<1>6. Keeps(d)
  BY <1>1, <1>3, DoneKeeps
<1>7. call.op = "discard" => /\ d.block[call.arg] \in BlockType
                             /\ division = "exact" => ~MisleadsDiscarded(call.arg)
  BY <1>3, <1>4, CacheParts DEF DividedOK, HarmlessDiscard
<1>8. QED
  BY <1>3, <1>4, <1>5, <1>6, <1>7, FinishDivided

\* The other writers are done.
LEMMA WriterDoneDivided ==
    ASSUME Inv1, DividedOK, BackgroundWritten \/ WrittenRemoved, division' = division
    PROVE  DividedOK'
<1>1. CASE BackgroundWritten
  <2>1. PICK S, d : S = written["background"] /\ d = BlocksDone(Cache, S)
    OBVIOUS
  <2>2. S \in SUBSET Blocks
    BY <2>1, InvParts DEF Types, OtherTypes, Writers
  <2>3. block' = d.block /\ transaction' = d.transaction /\ call' = call
    BY <1>1, <2>1 DEF BackgroundWritten, Becomes
  <2>4. Untouched
    BY <2>1, <2>2, <2>3, DoneKeeps, BecomesUntouched
  <2>5. QED
    BY <2>3, <2>4, UntouchedDivided
<1>2. CASE WrittenRemoved
  <2>1. PICK S, d : S = written["memory"] /\ d = BlocksDone(Cache, S)
    OBVIOUS
  <2>2. S \in SUBSET Blocks /\ S \subseteq Busy("memory")
    BY <2>1, InvParts DEF Types, OtherTypes, Writers, Busy
  <2>3. /\ block' = [b \in Blocks |-> IF b \in S THEN Absent ELSE d.block[b]]
        /\ transaction' = d.transaction /\ call' = call
    BY <1>2, <2>1 DEF WrittenRemoved, Becomes, BlocksDone
  <2>4. \A b \in S : block[b].transaction = NoId /\ block'[b].transaction = NoId
    BY <2>2, <2>3, AbsentIs DEF Inv1, WritersOK, Loose
  <2>5. \A b \in Blocks \ S : block'[b] = d.block[b]
    BY <2>3
  <2>6. Untouched
    <3>1. Keeps(d)
      BY <2>1, <2>2, DoneKeeps
    <3>2. QED
      BY <2>2, <2>3, <2>4, <2>5, <3>1, BecomesUntouched
  <2>7. QED
    BY <2>3, <2>6, UntouchedDivided
<1>3. QED
  BY <1>1, <1>2

\* A reader, and low memory, change only blocks that belong to no transaction.
LEMMA OneBlockDivided ==
    ASSUME Inv1, DividedOK, NEW b \in Blocks, Read(b) \/ RemoveUnused(b), division' = division
    PROVE  DividedOK'
<1>1. /\ block \in [Blocks -> BlockType] /\ block[b] \in BlockType
      /\ ShapeOf(Cache, block[b]) /\ disk[b] \in Values /\ transaction' = transaction
      /\ call' = call
  BY InvParts DEF Inv1, Types, OtherTypes, Read, RemoveUnused
<1>2. \A x \in Blocks : x # b => block'[x] = block[x]
  BY <1>1 DEF Read, RemoveUnused
<1>3. /\ block'[b].transaction = block[b].transaction
      /\ block[b].transaction # NoId => /\ block'[b].parent = block[b].parent
                                        /\ block'[b].original = block[b].original
                                        /\ block'[b].discard = block[b].discard
  <2>1. CASE Read(b)
    <3>1. PICK cleared \in BOOLEAN : cleared = FALSE
      OBVIOUS
    <3>2. PICK r : r = Found(b, cleared)
      OBVIOUS
    <3>3. PICK put \in BOOLEAN : put <=> r.transaction = NoId /\ r.previous = NoId
      OBVIOUS
    <3>4. block'[b] = IF put /\ r.discard THEN Absent ELSE [r EXCEPT !.unused = put]
      BY <1>1, <2>1, <3>1, <3>2, <3>3 DEF Read
    <3>5. r \in BlockType /\ r.transaction = block[b].transaction
          /\ (block[b].transaction # NoId => r = block[b])
      BY <1>1, <3>2, FoundIs, AbsentIs
    <3>6. QED
      BY <3>3, <3>4, <3>5, AbsentIs DEF BlockType
  <2>2. CASE RemoveUnused(b)
    <3>1. block[b].transaction = NoId
      BY <1>1, <2>2 DEF ShapeOf, RemoveUnused
    <3>2. block'[b] = block[b] \/ block'[b] = Absent
      BY <1>1, <2>2 DEF RemoveUnused
    <3>3. QED
      BY <3>1, <3>2, AbsentIs
  <2>3. QED
    BY <2>1, <2>2
<1>4. Untouched
  BY <1>1, <1>2, <1>3 DEF Untouched, Open
<1>5. QED
  BY <1>1, <1>4, UntouchedDivided

\* Every step keeps the division right that does not make the counts doubtful.
LEMMA NextDivided ==
    ASSUME Inv1, ActiveOK, DividedOK, [Next]_vars
    PROVE  DividedOK'
<1>1. CASE Start
  <2>1. /\ \A i \in Ids : ~Open(i)
        /\ nextId \in Ids /\ call' = call /\ Idle
        /\ transaction' = [transaction EXCEPT ![nextId] = [Gone EXCEPT !.state = "open"]]
    BY <1>1 DEF Start, StartTransaction, TransactionLock
  <2> DEFINE t == [Gone EXCEPT !.state = "open"]
  <2>2. t.hasSub = FALSE
    BY DEF Gone
  <2>3. \A i \in Ids : transaction'[i] = IF i = nextId THEN t ELSE transaction[i]
    BY <2>1, InvParts
  <2> HIDE DEF t
  <2>4. \A i \in Ids : Open(i)' => ~transaction'[i].hasSub
    BY <2>1, <2>2, <2>3 DEF Open
  <2>5. QED
    BY <2>1, <2>4, NoSubDivided DEF Idle, NoCall
<1>2. ASSUME NEW i \in Ids, StartSub(i) PROVE DividedOK'
  BY <1>2, StartSubDivided
<1>3. ASSUME NEW i \in Ids, Abort(i) PROVE DividedOK'
  <2>1. /\ Open(i) /\ Idle /\ call' = call
        /\ transaction' = [transaction EXCEPT ![i] = Gone]
    BY <1>3 DEF Abort, AbortTransaction, TransactionLock
  <2>2. \A j \in Ids : transaction'[j] = IF j = i THEN Gone ELSE transaction[j]
    BY <2>1, InvParts
  <2>3. \A j \in Ids : j # i => ~Open(j)
    BY <2>1, InvParts, CacheParts DEF Transactions
  <2>4. \A j \in Ids : Open(j)' => ~transaction'[j].hasSub
    BY <2>2, <2>3, GoneIs DEF Open
  <2>5. QED
    BY <2>1, <2>4, NoSubDivided DEF Idle, NoCall
<1>4. ASSUME NEW i \in Ids, AbortSub(i) PROVE DividedOK'
  <2>1. Open(i) /\ Idle /\ AbortSubTransaction(i) /\ call' = call
    BY <1>4 DEF AbortSub, AbortSubTransaction, TransactionLock
  <2>2. ~transaction'[i].hasSub /\ \A j \in Ids : j # i => transaction'[j] = transaction[j]
    BY <2>1, AbortSubUpdates
  <2>3. \A j \in Ids : j # i => ~Open(j)
    BY <2>1, InvParts, CacheParts DEF Transactions
  <2>4. \A j \in Ids : Open(j)' => ~transaction'[j].hasSub
    BY <2>2, <2>3 DEF Open
  <2>5. QED
    BY <2>1, <2>4, NoSubDivided DEF Idle, NoCall
<1>5. ASSUME NEW i \in Ids, End(i) PROVE DividedOK'
  <2>1. PICK op \in {"end", "detach", "discard", "sync"}, hook \in BOOLEAN :
              op = "end" /\ hook = TRUE
    OBVIOUS
  <2>2. Idle /\ Open(i) /\ Call(op, i, hook, InBoth(i)) /\ division' = division
    BY <1>5, <2>1 DEF End, EndTransaction, TransactionLock
  <2>3. QED
    BY <2>1, <2>2, CallDivided
<1>6. ASSUME NEW i \in Ids, Detach(i) PROVE DividedOK'
  <2>1. CASE division = "exact"
    <3>1. PICK op \in {"end", "detach", "discard", "sync"}, hook \in BOOLEAN :
                op = "detach" /\ hook = TRUE
      OBVIOUS
    <3>2. /\ Idle /\ Open(i) /\ Call(op, i, hook, InBoth(i)) /\ division' = division
          /\ nextId \in Ids
      BY <1>6, <2>1, <3>1 DEF Detach, DetachSubTransaction, TransactionLock
    <3>3. QED
      BY <3>1, <3>2, CallDivided
  <2>2. CASE division # "exact"
    BY <1>6, <2>2 DEF Detach, DividedOK
  <2>3. QED
    BY <2>1, <2>2
<1>7. ASSUME NEW i \in Ids, SyncTransaction(i), UNCHANGED ghosts PROVE DividedOK'
  <2>1. PICK op \in {"end", "detach", "discard", "sync"}, hook \in BOOLEAN :
              op = "sync" /\ hook = FALSE
    OBVIOUS
  <2>4. Idle /\ \E S : Call(op, i, hook, S)
    BY <2>1, <1>7 DEF SyncTransaction, TransactionLock
  <2>2. division' = division
    BY <1>7 DEF ghosts
  <2>3. QED
    BY <2>1, <2>2, <2>4, CallDivided DEF Committing
<1>8. ASSUME SyncAll, UNCHANGED ghosts PROVE DividedOK'
  <2>1. PICK op \in {"end", "detach", "discard", "sync"}, hook \in BOOLEAN :
              op = "sync" /\ hook = FALSE
    OBVIOUS
  <2>4. Idle /\ \E S : Call(op, NoId, hook, S)
    BY <2>1, <1>8 DEF SyncAll
  <2>2. division' = division
    BY <1>8 DEF ghosts
  <2>3. QED
    BY <2>1, <2>2, <2>4, CallDivided DEF Committing
<1>9. ASSUME NEW b \in Blocks, Free(b) PROVE DividedOK'
  <2>1. CASE division' = "exact"
    <3>1. division = "exact" /\ ~MisleadsDiscarded(b)
      BY <1>9, <2>1 DEF Free, Doubt
    <3>2. PICK op \in {"end", "detach", "discard", "sync"}, hook \in BOOLEAN :
                op = "discard" /\ hook = FALSE
      OBVIOUS
    <3>3. Idle /\ \E S : Call(op, b, hook, S)
      BY <1>9, <3>2 DEF Free, CacheDiscard, TransactionLock
    <3>4. QED
      BY <2>1, <3>1, <3>2, <3>3, CallDivided DEF Committing
  <2>2. CASE division' # "exact"
    BY <2>2 DEF DividedOK
  <2>3. QED
    BY <2>1, <2>2
<1>10. ASSUME NEW i \in Ids, NEW b \in Blocks, NEW cleared \in BOOLEAN, Write(b, i, cleared)
       PROVE  DividedOK'
  <2>1. active # {} /\ active \in SUBSET Values
    BY <1>10 DEF Write, ActiveOK, GhostTypes
  <2>2. Max(active) \in Values
    BY <2>1, MaxActive
  <2>3. QED
    BY <1>10, <2>2, WriteDivided
<1>11. ASSUME Inside PROVE DividedOK'
  <2>1. division' = division
    BY <1>11 DEF Inside, ghosts
  <2>2. CASE WriteBlock("client")
    <3>1. UNCHANGED <<block, transaction, call>>
      BY <2>2 DEF WriteBlock
    <3>2. Untouched
      BY <3>1 DEF Untouched, Open
    <3>3. QED
      BY <2>1, <3>1, <3>2, UntouchedDivided
  <2>3. CASE ClientWritten
    BY <2>1, <2>3, ClientWrittenDivided
  <2>4. QED
    BY <1>11, <2>2, <2>3 DEF Inside
<1>12. ASSUME Others PROVE DividedOK'
  <2>1. division' = division
    BY <1>12 DEF Others, ghosts
  <2>2. CASE \E b \in Blocks : Read(b) \/ RemoveUnused(b)
    BY <2>1, <2>2, OneBlockDivided
  <2>3. CASE WriteBlock("memory")
    <3>1. UNCHANGED <<block, transaction, call>>
      BY <2>3 DEF WriteBlock
    <3>2. Untouched
      BY <3>1 DEF Untouched, Open
    <3>3. QED
      BY <2>1, <3>1, <3>2, UntouchedDivided
  <2>4. CASE WrittenRemoved
    BY <2>1, <2>4, WriterDoneDivided
  <2>5. QED
    BY <1>12, <2>2, <2>3, <2>4 DEF Others
<1>13. ASSUME Background, UNCHANGED ghosts PROVE DividedOK'
  <2>1. division' = division
    BY <1>13 DEF ghosts
  <2>2. CASE BackgroundWritten
    BY <2>1, <2>2, WriterDoneDivided
  <2>3. CASE WriteBlock("background") \/ BackgroundTakes \/ TakeEvent
    <3>1. UNCHANGED <<block, transaction>> /\ (call' = call \/ call'.op # "discard")
      BY <2>3 DEF WriteBlock, BackgroundTakes, TakeEvent, NoCall
    <3>2. Untouched
      BY <3>1 DEF Untouched, Open
    <3>3. QED
      BY <2>1, <3>1, <3>2, UntouchedDivided
  <2>4. QED
    BY <1>13, <2>2, <2>3 DEF Background
<1>14. ASSUME Callback PROVE DividedOK'
  <2>1. UNCHANGED <<block, transaction, call, division>>
    BY <1>14 DEF Callback, HookReturns
  <2>2. Untouched
    BY <2>1 DEF Untouched, Open
  <2>3. QED
    BY <2>1, <2>2, UntouchedDivided
<1>15. CASE UNCHANGED vars
  <2>1. UNCHANGED <<block, transaction, call, division>>
    BY <1>15 DEF vars, cacheVars
  <2>2. Untouched
    BY <2>1 DEF Untouched, Open
  <2>3. QED
    BY <2>1, <2>2, UntouchedDivided
<1>16. CASE Client
  BY <1>1, <1>2, <1>3, <1>4, <1>5, <1>6, <1>7, <1>8, <1>9, <1>10, <1>16 DEF Client
<1>17. QED
  BY <1>11, <1>12, <1>13, <1>14, <1>15, <1>16 DEF Next

\* What a detach goes by is right unless the division it makes is wrong.
Divides == \A i \in Ids : Detach(i) => Divided(Cache, i)

LEMMA DetachDivides ==
    ASSUME DividedOK, division' # "wrong"
    PROVE  Divides
<1> SUFFICES ASSUME NEW i \in Ids, Detach(i) PROVE Divided(Cache, i)
  BY DEF Divides
<1>1. division = "exact" /\ Open(i) /\ transaction[i].hasSub
  BY DEF Detach, DetachSubTransaction
<1>2. QED
  BY <1>1 DEF DividedOK, Parted

\* A wrong division is not forgotten.
LEMMA WrongStays ==
    ASSUME division = "wrong", [Next]_vars
    PROVE  division' = "wrong"
<1>1. CASE Client
  BY <1>1 DEF Client, Start, StartSub, NoDoubt, Write, Free, Doubt, Abort, AbortSub, End,
              Detach, ghosts
<1>2. CASE ~Client
  BY <1>2 DEF Next, Inside, Others, Callback, ghosts, vars
<1>3. QED
  BY <1>1, <1>2

-----------------------------------------------------------------------------
(* Theorems: types, counts and assertions *)

\* The initial states satisfy the invariant.
LEMMA InitInv1 == Init => Inv1 /\ ActiveOK
<1> SUFFICES ASSUME Init PROVE Inv1 /\ ActiveOK
  OBVIOUS
<1>1. /\ CacheInit /\ stamp = 0 /\ active = {} /\ committed = {0} /\ defined = Blocks
      /\ base = Nothing /\ subBase = Nothing /\ owed = [i \in Ids |-> Nothing]
  BY DEF Init
<1>2. Inv1
  BY <1>1, CacheInitInv1
<1>3. GhostTypes
  <2>1. 0 \in Values
    BY BlockCacheAssumption DEF Values
  <2>2. Nothing \in [Blocks -> Values \cup {NoData}]
    BY DEF Nothing
  <2>3. QED
    BY <1>1, <2>1, <2>2 DEF GhostTypes
<1>4. StampsOK
  <2>1. \A i \in Ids : transaction[i] = Gone
    BY <1>1 DEF CacheInit
  <2>2. \A i \in Ids : ~Open(i)
    BY <2>1, GoneIs DEF Open
  <2>3. QED
    BY <1>1, <2>2 DEF StampsOK
<1>5. QED
  BY <1>2, <1>3, <1>4 DEF ActiveOK

\* Every step keeps the first invariant, unless it is a wrong division.
LEMMA NextInv1 == Inv1 /\ ActiveOK /\ Divides /\ [Next]_vars => Inv1'
<1> SUFFICES ASSUME Inv1, ActiveOK, Divides, [Next]_vars PROVE Inv1'
  OBVIOUS
<1>1. CASE Start
  BY <1>1, StartInv1 DEF Start
<1>2. ASSUME NEW i \in Ids, StartSub(i) PROVE Inv1'
  BY <1>2, StartSubInv1 DEF StartSub
<1>3. ASSUME NEW i \in Ids, Abort(i) PROVE Inv1'
  BY <1>3, AbortInv1 DEF Abort
<1>4. ASSUME NEW i \in Ids, AbortSub(i) PROVE Inv1'
  BY <1>4, AbortSubInv1 DEF AbortSub
<1>5. ASSUME NEW i \in Ids, End(i) PROVE Inv1'
  <2>1. PICK hook \in BOOLEAN : hook = TRUE
    OBVIOUS
  <2>2. EndTransaction(i, hook)
    BY <1>5, <2>1 DEF End
  <2>3. QED
    BY <2>2, EndInv1
<1>6. ASSUME NEW i \in Ids, Detach(i) PROVE Inv1'
  <2>1. PICK hook \in BOOLEAN : hook = TRUE
    OBVIOUS
  <2>2. DetachSubTransaction(i, hook) /\ Divided(Cache, i)
    BY <1>6, <2>1 DEF Detach, Divides
  <2>3. QED
    BY <2>2, DetachInv1
<1>7. ASSUME NEW i \in Ids, SyncTransaction(i), UNCHANGED ghosts PROVE Inv1'
  BY <1>7, SyncTransactionInv1
<1>8. ASSUME NEW i \in Ids, NEW b \in Blocks, NEW cleared \in BOOLEAN, Write(b, i, cleared)
      PROVE  Inv1'
  <2>1. PICK data \in Values : data = Max(active)
    BY <1>8, MaxActive DEF Write, ActiveOK, GhostTypes
  <2>2. GetWritable(b, i, cleared, data)
    BY <1>8, <2>1 DEF Write
  <2>3. QED
    BY <2>2, WriteInv1
<1>9. CASE SyncAll /\ UNCHANGED ghosts
  BY <1>9, SyncAllInv1
<1>10. ASSUME NEW b \in Blocks, Free(b) PROVE Inv1'
  BY <1>10, FreeInv1 DEF Free
<1>11. ASSUME NEW w \in Writers, WriteBlock(w), UNCHANGED ghosts PROVE Inv1'
  BY <1>11, WriteBlockInv1
<1>12. CASE ClientWritten /\ UNCHANGED ghosts
  BY <1>12, ClientWrittenInv1
<1>13. ASSUME NEW b \in Blocks, Read(b), UNCHANGED ghosts PROVE Inv1'
  BY <1>13, ReadInv1
<1>14. ASSUME NEW b \in Blocks, RemoveUnused(b), UNCHANGED ghosts PROVE Inv1'
  BY <1>14, RemoveUnusedInv1
<1>15. CASE Callback
  BY <1>15, HookReturnsInv1 DEF Callback
<1>16. CASE BackgroundTakes /\ UNCHANGED ghosts
  BY <1>16, BackgroundTakesInv1
<1>17. CASE BackgroundWritten /\ UNCHANGED ghosts
  BY <1>17, BackgroundWrittenInv1
<1>18. CASE TakeEvent /\ UNCHANGED ghosts
  BY <1>18, TakeEventInv1
<1>19. CASE WrittenRemoved /\ UNCHANGED ghosts
  BY <1>19, WrittenRemovedInv1
<1>20. CASE UNCHANGED vars
  BY <1>20, StutterInv1 DEF vars
<1>21. QED
  BY <1>1, <1>2, <1>3, <1>4, <1>5, <1>6, <1>7, <1>8, <1>9, <1>10, <1>11, <1>12, <1>13,
     <1>14, <1>15, <1>16, <1>17, <1>18, <1>19, <1>20
  DEF Next, Client, Inside, Others, Background, Writers

\* Every step keeps the stamps right.
LEMMA NextStamps == Inv1 /\ Inv1' /\ ActiveOK /\ [Next]_vars => StampsOK'
<1> SUFFICES ASSUME Inv1, Inv1', ActiveOK, [Next]_vars PROVE StampsOK'
  OBVIOUS
<1>1. CASE Start
  BY <1>1, StartActive
<1>2. ASSUME NEW i \in Ids, StartSub(i) PROVE StampsOK'
  BY <1>2, StartSubActive
<1>3. ASSUME NEW i \in Ids, Abort(i) PROVE StampsOK'
  BY <1>3, AbortActive
<1>4. ASSUME NEW i \in Ids, AbortSub(i) PROVE StampsOK'
  BY <1>4, AbortSubActive
<1>5. ASSUME NEW i \in Ids, End(i) PROVE StampsOK'
  BY <1>5, EndActive
<1>6. ASSUME NEW i \in Ids, Detach(i) PROVE StampsOK'
  BY <1>6, DetachActive
<1>7. ASSUME NEW op, op \in {"discard", "sync"}, NEW arg, NEW S, Idle,
             Call(op, arg, FALSE, S), UNCHANGED <<stamp, active, committed>>
      PROVE  StampsOK'
  <2>1. op \in {"end", "detach", "discard", "sync"}
    BY <1>7
  <2>2. PICK hook \in BOOLEAN : hook = FALSE
    OBVIOUS
  <2>3. Call(op, arg, hook, S)
    BY <1>7, <2>2
  <2>4. QED
    BY <1>7, <2>1, <2>3, CallActive
<1>8. ASSUME NEW i \in Ids, NEW b \in Blocks, NEW cleared \in BOOLEAN, Write(b, i, cleared)
      PROVE  StampsOK'
  BY <1>8, WriteActive
<1>9. ASSUME NEW i \in Ids, SyncTransaction(i), UNCHANGED ghosts PROVE StampsOK'
  BY <1>7, <1>9 DEF SyncTransaction, TransactionLock, ghosts
<1>10. CASE SyncAll /\ UNCHANGED ghosts
  BY <1>7, <1>10 DEF SyncAll, ghosts
<1>11. ASSUME NEW b \in Blocks, Free(b) PROVE StampsOK'
  BY <1>7, <1>11 DEF Free, CacheDiscard, TransactionLock
<1>12. CASE ClientWritten /\ UNCHANGED ghosts
  BY <1>12, ClientWrittenActive
<1>13. CASE (BackgroundWritten \/ WrittenRemoved) /\ UNCHANGED ghosts
  BY <1>13, WriterDoneActive
<1>14. CASE TakeEvent /\ UNCHANGED ghosts
  <2>1. call' = call \/ call.op = "wait"
    <3>1. events # <<>> /\ events \in Seq(Ids \cup {Sync})
      BY <1>14, InvParts DEF TakeEvent
    <3>2. 1 \in 1..Len(events) /\ Head(events) = events[1]
      BY <3>1
    <3>3. QED
      BY <1>14, <3>2 DEF TakeEvent, Inv1, SyncOK
  <2>2. QED
    BY <1>14, <2>1, OthersActive DEF TakeEvent, ghosts
<1>15. ASSUME UNCHANGED <<transaction, call>>, UNCHANGED <<stamp, active, committed>>
       PROVE  StampsOK'
  BY <1>15, OthersActive
<1>16. ASSUME NEW w \in Writers, WriteBlock(w), UNCHANGED ghosts PROVE StampsOK'
  BY <1>15, <1>16 DEF WriteBlock, ghosts
<1>17. ASSUME NEW b \in Blocks, Read(b) \/ RemoveUnused(b), UNCHANGED ghosts PROVE StampsOK'
  BY <1>15, <1>17 DEF Read, RemoveUnused, ghosts
<1>18. CASE Callback
  BY <1>15, <1>18 DEF Callback, HookReturns
<1>19. CASE BackgroundTakes /\ UNCHANGED ghosts
  BY <1>15, <1>19 DEF BackgroundTakes, ghosts
<1>20. CASE UNCHANGED vars
  BY <1>15, <1>20 DEF vars, cacheVars
<1>21. QED
  BY <1>1, <1>2, <1>3, <1>4, <1>5, <1>6, <1>8, <1>9, <1>10, <1>11, <1>12, <1>13,
     <1>14, <1>16, <1>17, <1>18, <1>19, <1>20
  DEF Next, Client, Inside, Others, Background, Writers

\* Every step keeps the types of the stamps and of what is remembered.
LEMMA NextGhosts == Inv1 /\ ActiveOK /\ [Next]_vars => GhostTypes'
<1> SUFFICES ASSUME Inv1, ActiveOK, [Next]_vars PROVE GhostTypes'
  OBVIOUS
<1>1. GhostTypes /\ \A b \in Blocks : block[b] \in BlockType
  BY InvParts DEF ActiveOK
<1>2. CASE Start
  <2>1. stamp' \in Values
    BY <1>1, <1>2, BlockCacheAssumption DEF Start, GhostTypes, Values
  <2>2. base' = Kept /\ subBase' = Nothing /\ active' = {stamp'}
        /\ UNCHANGED <<committed, defined, owed>>
    BY <1>2 DEF Start
  <2>3. QED
    BY <1>1, <2>1, <2>2, KeptType DEF GhostTypes
<1>3. ASSUME NEW i \in Ids, StartSub(i) PROVE GhostTypes'
  <2>1. stamp' \in Values
    BY <1>1, <1>3, BlockCacheAssumption DEF StartSub, GhostTypes, Values
  <2>2. subBase' = Kept /\ active' = active \cup {stamp'}
        /\ UNCHANGED <<committed, defined, base, owed>>
    BY <1>3 DEF StartSub
  <2>3. QED
    BY <1>1, <2>1, <2>2, KeptType DEF GhostTypes
<1>4. ASSUME NEW i \in Ids, Abort(i) \/ AbortSub(i) PROVE GhostTypes'
  <2>1. /\ stamp' = stamp /\ active' \subseteq active /\ committed' = committed /\ owed' = owed
        /\ defined' \subseteq Blocks /\ base' \in {base, Nothing} /\ subBase' = Nothing
    BY <1>4 DEF Abort, AbortSub, Known
  <2>2. QED
    BY <1>1, <2>1, KeptType DEF GhostTypes
<1>5. ASSUME NEW i \in Ids, End(i) PROVE GhostTypes'
  <2>1. Owes(i) \in [Blocks -> Values \cup {NoData}]
    BY <1>1 DEF Owes, BlockType
  <2>2. /\ committed' = committed \cup active /\ active' = {}
        /\ owed' = [owed EXCEPT ![i] = Owes(i)] /\ base' = Nothing /\ subBase' = Nothing
        /\ UNCHANGED <<stamp, defined>>
    BY <1>5 DEF End
  <2>3. QED
    BY <1>1, <2>1, <2>2, KeptType DEF GhostTypes
<1>6. ASSUME NEW i \in Ids, Detach(i) PROVE GhostTypes'
  <2> DEFINE f == [b \in Blocks |->
            CASE block[b].transaction # i \/ block[b].discard -> NoData
              [] block[b].parent = Current -> block[b].current
              [] OTHER -> block[b].parent]
  <2>1. f \in [Blocks -> Values \cup {NoData}]
    <3> SUFFICES ASSUME NEW b \in Blocks PROVE f[b] \in Values \cup {NoData}
      OBVIOUS
    <3>1. /\ block[b].parent # Current => block[b].parent \in Values \cup {NoData}
          /\ block[b].current \in Values \cup {NoData}
      BY <1>1 DEF BlockType
    <3>2. CASE block[b].transaction # i \/ block[b].discard
      <4>1. f[b] \in {NoData, block[b].current}
        BY <3>2
      <4>2. QED
        BY <3>1, <4>1
    <3>3. CASE ~(block[b].transaction # i \/ block[b].discard) /\ block[b].parent = Current
      BY <3>1, <3>3
    <3>4. CASE ~(block[b].transaction # i \/ block[b].discard) /\ block[b].parent # Current
      BY <3>1, <3>4
    <3>5. QED
      BY <3>2, <3>3, <3>4
  <2>2. /\ committed' = committed \cup (active \ {Max(active)}) /\ active' = {Max(active)}
        /\ base' = subBase /\ subBase' = Nothing /\ owed' = [owed EXCEPT ![i] = f]
        /\ UNCHANGED <<stamp, defined>> /\ Idle /\ Open(i)
    BY <1>6 DEF Detach, DetachSubTransaction, TransactionLock
  <2> HIDE DEF f
  <2>3. active # {}
    BY <2>2 DEF ActiveOK, StampsOK, Idle, NoCall
  <2>4. Max(active) \in Values
    BY <1>1, <2>3, MaxActive DEF GhostTypes
  <2>5. QED
    BY <1>1, <2>1, <2>2, <2>4, KeptType DEF GhostTypes
<1>7. ASSUME NEW i \in Ids, NEW b \in Blocks, NEW cleared \in BOOLEAN, Write(b, i, cleared)
      PROVE  GhostTypes'
  <2>1. /\ base' = [base EXCEPT ![b] = IF cleared /\ ~block[b].cached THEN NoData ELSE @]
        /\ subBase' = [subBase EXCEPT ![b] = IF cleared /\ ~block[b].cached THEN NoData ELSE @]
        /\ defined' = defined \cup {b} /\ UNCHANGED <<stamp, active, committed, owed>>
    BY <1>7 DEF Write
  <2>2. QED
    BY <1>1, <2>1 DEF GhostTypes
<1>8. ASSUME NEW b \in Blocks, Free(b) PROVE GhostTypes'
  BY <1>1, <1>8 DEF Free, GhostTypes
<1>9. CASE Callback
  BY <1>1, <1>9, KeptType DEF Callback, GhostTypes
<1>10. CASE UNCHANGED ghosts
  BY <1>1, <1>10 DEF ghosts, GhostTypes
<1>11. QED
  BY <1>2, <1>3, <1>4, <1>5, <1>6, <1>7, <1>8, <1>9, <1>10
  DEF Next, Client, Inside, Others, vars, ghosts

\* Both together.
LEMMA NextActive == Inv1 /\ Inv1' /\ ActiveOK /\ [Next]_vars => ActiveOK'
BY NextStamps, NextGhosts DEF ActiveOK

\* All that holds of the cache and its client until a division is wrong.
Consistent == Inv1 /\ ActiveOK /\ DividedOK

\* It holds at first.
LEMMA InitConsistent == Init => Consistent
<1> SUFFICES ASSUME Init PROVE DividedOK
  BY InitInv1 DEF Consistent
<1>1. \A i \in Ids : transaction[i] = Gone
  BY DEF Init, CacheInit
<1>2. \A i \in Ids : ~Open(i)
  BY <1>1, GoneIs DEF Open
<1>3. call.op # "discard"
  BY DEF Init, CacheInit, NoCall
<1>4. QED
  BY <1>2, <1>3 DEF DividedOK, Parted, HarmlessDiscard

\* Every step keeps it that is not a wrong division.
LEMMA NextConsistent == Consistent /\ [Next]_vars /\ division' # "wrong" => Consistent'
<1> SUFFICES ASSUME Consistent, [Next]_vars, division' # "wrong" PROVE Consistent'
  OBVIOUS
<1>1. Inv1 /\ ActiveOK /\ DividedOK
  BY DEF Consistent
<1>2. Divides
  BY <1>1, DetachDivides
<1>3. Inv1'
  BY <1>1, <1>2, NextInv1
<1>4. ActiveOK'
  BY <1>1, <1>3, NextActive
<1>5. DividedOK'
  BY <1>1, NextDivided
<1>6. QED
  BY <1>3, <1>4, <1>5 DEF Consistent

\* The blocks, transactions, counts, writers and calls of the cache are consistent in every
\* behaviour of the cache and its client until cache_detach_sub_transaction() divides
\* a transaction by counts and copies that the client has misled.
THEOREM CacheConsistent == Spec => [](division # "wrong" => Consistent)
<1>1. Init => (division # "wrong" => Consistent)
  BY InitConsistent
<1>2. (division # "wrong" => Consistent) /\ [Next]_vars => (division # "wrong" => Consistent)'
  BY NextConsistent, WrongStays
<1>3. QED
  BY <1>1, <1>2, PTL DEF Spec

\* The fields of blocks and transactions, the events and the disk have their types as long
\* as cache_detach_sub_transaction() has divided no transaction wrongly.
THEOREM TypeCorrect == Spec => [](division # "wrong" => TypeOK)
<1>1. Inv1 => TypeOK
  <2> SUFFICES ASSUME Inv1 PROVE TypeOK
    OBVIOUS
  <2>1. \A b \in Blocks : block[b] \in BlockType
    BY InvParts
  <2>2. \A i \in Ids : transaction[i].state \in {"gone", "open", "closed"}
    BY InvParts DEF TransactionType
  <2>3. events \in Seq(Ids \cup {Sync}) /\ disk \in [Blocks -> Values]
    BY InvParts DEF Types, OtherTypes
  <2>4. disk \in [Blocks -> 0..MaxStamp \cup {NoData}]
    BY <2>3 DEF Values
  <2>5. QED
    BY <2>1, <2>2, <2>3, <2>4 DEF TypeOK, BlockType, Values
<1>2. Consistent => TypeOK
  BY <1>1 DEF Consistent
<1>3. QED
  BY <1>2, CacheConsistent, PTL

\* Until a detach has divided a transaction wrongly, num_blocks is exact, and no block
\* points to a deleted transaction, whatever the client, the writers, readers and low
\* memory do; and sub_num_blocks and main_num_blocks are exact unless the open sub
\* transaction has misled them.
THEOREM CountsAreExact == Spec => []CountsExact
<1>1. Consistent => CountsExact
  <2> SUFFICES ASSUME Inv1, DividedOK PROVE CountsExact
    BY DEF Consistent
  <2>1. /\ CacheOK(Cache, nextId) /\ Cache.block = block /\ Cache.transaction = transaction
        /\ Counts(Cache)
    BY InvParts, CacheParts
  <2>2. ASSUME NEW i \in Ids, transaction[i].state # "gone"
        PROVE  transaction[i].num =
                    Cardinality(InTransaction(Cache, i) \cup InPrevious(Cache, i))
    <3>1. transaction[i].state \in {"open", "closed"}
      BY <2>2, InvParts DEF TransactionType
    <3>2. CASE transaction[i].state = "open"
      <4>1. InPrevious(Cache, i) = {}
        BY <2>1, <3>2, PointsTo
      <4>2. InTransaction(Cache, i) \cup InPrevious(Cache, i) = InTransaction(Cache, i)
        BY <4>1
      <4>3. QED
        BY <2>1, <3>2, <4>2 DEF Counts, IsOpen
    <3>3. CASE transaction[i].state = "closed"
      <4>1. InTransaction(Cache, i) = {}
        BY <2>1, <3>3, PointsTo DEF IsOpen
      <4>2. InTransaction(Cache, i) \cup InPrevious(Cache, i) = InPrevious(Cache, i)
        BY <4>1
      <4>3. QED
        BY <2>1, <3>3, <4>2 DEF Counts
    <3>4. QED
      BY <3>1, <3>2, <3>3
  <2>3. ASSUME NEW b \in Blocks
        PROVE  /\ block[b].transaction # NoId => Open(block[b].transaction)
               /\ block[b].previous # NoId => transaction[block[b].previous].state = "closed"
    BY <2>1, InvParts DEF ShapeOf, IsOpen, Open
  <2>4. ASSUME division = "exact", NEW i \in Ids, Open(i), transaction[i].hasSub
        PROVE  /\ transaction[i].sub = Cardinality(ChangedInSub(i))
               /\ transaction[i].main = Cardinality(ChangedInMain(i))
    <3>1. Divided(Cache, i)
      BY <2>4 DEF DividedOK, Parted
    <3>2. /\ ChangedInSub(i) = SubPart(Cache, i)
          /\ ChangedInMain(i) = MainPart(Cache, i) \cup Discarded(Cache, i)
      BY <2>1 DEF ChangedInSub, ChangedInMain, SubPart, MainPart, Discarded
    <3>3. QED
      BY <2>1, <3>1, <3>2 DEF Divided
  <2>5. QED
    BY <2>2, <2>3, <2>4 DEF CountsExact
<1>2. CountsExact \/ division # "wrong"
  BY DEF CountsExact
<1>3. QED
  BY <1>1, <1>2, CacheConsistent, PTL

\* None of the ASSERT()s of the block cache that AssertsHold states can fail before a detach
\* has divided a transaction wrongly.
THEOREM AssertionsHold == Spec => []AssertsHold
<1>1. Consistent => AssertsHold
  <2> SUFFICES ASSUME Inv1, NEW b \in Blocks
               PROVE  /\ block[b].unused => block[b].original = NoData /\ block[b].parent = NoData
                      /\ block[b].parent # NoData => transaction[block[b].transaction].hasSub
                      /\ b \in UNION {toWrite[w] : w \in Writers} =>
                            \/ block[b].previous # NoId
                            \/ block[b].transaction = NoId /\ block[b].dirty
                      /\ \A w, x \in Writers : b \in Busy(w) \cap Busy(x) => w = x
    BY DEF AssertsHold, Consistent
  <2>1. ShapeOf(Cache, block[b]) /\ Cache.transaction = transaction
    BY InvParts
  <2>2. block[b].unused => block[b].original = NoData /\ block[b].parent = NoData
    BY <2>1 DEF ShapeOf
  <2>3. block[b].parent # NoData => transaction[block[b].transaction].hasSub
    BY <2>1 DEF ShapeOf
  <2>4. b \in UNION {toWrite[w] : w \in Writers} => MayBeWritten(block[b])
    BY DEF Inv1, WritersOK, BusyWriting, Busy, Writers
  <2>5. \A w, x \in Writers : b \in Busy(w) \cap Busy(x) => w = x
    BY DEF Inv1, WritersOK, Disjoint, Writers
  <2>6. QED
    BY <2>2, <2>3, <2>4, <2>5 DEF MayBeWritten
<1>2. AssertsHold \/ division # "wrong"
  BY DEF AssertsHold
<1>3. QED
  BY <1>1, <1>2, CacheConsistent, PTL

-----------------------------------------------------------------------------
(***************************************************************************)
(* The history of a block: what its copies and the disk (d) may hold.  g   *)
(* is a record of the client's variables, op and arg are the call in       *)
(* progress.                                                               *)
(***************************************************************************)
Ghosts == [active |-> active, committed |-> committed, defined |-> defined,
           base |-> base, subBase |-> subBase, owed |-> owed]

\* What the transaction has written, and what its parent part has, if it has a sub
\* transaction.
Written(g, op) == IF op = "end" THEN g.committed
                  ELSE IF op = "detach" THEN g.committed \cup g.active ELSE g.active

WrittenByParent(g, op) ==
    IF Committing(op) THEN g.committed ELSE g.active \ {Max(g.active)}

VersionsOf(c, g, op, r, d) ==
    /\ r.previous # NoId => Data(r) \in g.committed /\ Data(r) >= d
    /\ r.transaction = NoId /\ r.dirty => r.current \in g.committed /\ r.current >= d
    /\ r.transaction # NoId /\ ~r.discard =>
        /\ r.current \in Written(g, op) /\ r.current >= d
        /\ r.previous # NoId => r.current >= r.original
        /\ op # "end" /\ c.transaction[r.transaction].hasSub /\ r.parent # Current =>
                r.current = Max(g.active)
    /\ r.parent \notin {NoData, Current} =>
        /\ r.parent \in WrittenByParent(g, op) /\ r.parent >= d
        /\ r.previous # NoId => r.parent >= r.original
    /\ r.parent = Current => r.current \in WrittenByParent(g, op)

\* The value v that transaction i owes to the disk is there, or is what will be written
\* next, or i is about to end with it.
OwedOf(op, arg, i, r, v, d) ==
    \/ v <= d
    \/ r.previous = i /\ v <= Data(r)
    \/ r.transaction = i /\ op = "end" /\ arg = i /\ ~r.discard /\ v = r.current
    \/ /\ r.transaction = i /\ op = "detach" /\ arg = i /\ ~r.discard
       /\ v = IF r.parent = Current THEN r.current ELSE r.parent

AllOwed(g, op, arg, b, r, d) == \A i \in Ids : OwedOf(op, arg, i, r, g.owed[i][b], d)

Seen(r, d) == IF r.cached THEN r.current ELSE d

\* An abort brings back v.
AbortGives(r, d, v) ==
    v # NoData =>
        /\ r.transaction = NoId => Seen(r, d) = v
        /\ r.transaction # NoId => Undo(r) = v
        /\ r.transaction # NoId /\ r.original = NoData => r.discard /\ r.parent = NoData
        /\ r.previous = NoId => d = v

\* An abort of the sub transaction brings back v.
SubAbortGives(r, d, v) ==
    v # NoData =>
        /\ r.transaction = NoId => Seen(r, d) = v
        /\ r.transaction # NoId /\ r.parent = NoData => Undo(r) = v
        /\ r.parent = Current => r.current = v
        /\ r.parent \notin {NoData, Current} => r.parent = v
        /\ r.previous = NoId /\ r.parent = NoData => d = v

\* What is seen of a discarded block does not matter, what is seen of one that no
\* transaction has is on the disk, and the client's copies can be brought back.
Defined(g, b, r, d) ==
    /\ r.transaction # NoId /\ r.discard => b \notin g.defined
    /\ r.transaction = NoId /\ r.previous = NoId /\ b \in g.defined => Seen(r, d) = d

RestoresOf(g, op, b, r, d) ==
    /\ Defined(g, b, r, d)
    /\ IF op = "detach" THEN SubAbortGives(r, d, g.base[b]) ELSE AbortGives(r, d, g.base[b])
    /\ SubAbortGives(r, d, g.subBase[b])

HistoryOf(c, g, op, arg, b, r, d) ==
    /\ VersionsOf(c, g, op, r, d)
    /\ AllOwed(g, op, arg, b, r, d)
    /\ RestoresOf(g, op, b, r, d)

\* Contents are numbers, and what is on the disk was committed before what is active.
StampsOf(g, d) ==
    /\ d \in Nat /\ d \in g.committed
    /\ \A x \in g.active \cup g.committed : x \in Nat
    /\ \A x \in g.committed, y \in g.active : x < y

-----------------------------------------------------------------------------
(* What each operation makes of the history of one block *)

USE DEF StampsOf

\* The same contents under another call that commits nothing, or for a client that owes
\* and relies on less.
LEMMA SameHistory ==
    ASSUME NEW c, NEW e, NEW g, NEW h, NEW op, NEW arg, NEW o, NEW a, NEW b, NEW r, NEW d,
           HistoryOf(c, g, op, arg, b, r, d),
           (o = op /\ a = arg) \/ (~Committing(op) /\ ~Committing(o)),
           r.transaction # NoId /\ e.transaction[r.transaction].hasSub =>
                c.transaction[r.transaction].hasSub,
           h.active = g.active, h.committed = g.committed,
           h.base[b] = g.base[b], h.subBase[b] = g.subBase[b],
           b \in h.defined => b \in g.defined,
           \A i \in Ids : h.owed[i][b] = g.owed[i][b] \/ h.owed[i][b] <= d
    PROVE  HistoryOf(e, h, o, a, b, r, d)
<1>1. VersionsOf(e, h, o, r, d)
  <2>1. Written(h, o) = Written(g, op) /\ WrittenByParent(h, o) = WrittenByParent(g, op)
    BY DEF Written, WrittenByParent, Committing
  <2>2. o = "end" <=> op = "end"
    BY DEF Committing
  <2>3. QED
    BY <2>1, <2>2 DEF HistoryOf, VersionsOf
<1>2. AllOwed(h, o, a, b, r, d)
  <2> SUFFICES ASSUME NEW i \in Ids PROVE OwedOf(o, a, i, r, h.owed[i][b], d)
    BY DEF AllOwed
  <2>1. OwedOf(op, arg, i, r, g.owed[i][b], d)
    BY DEF HistoryOf, AllOwed
  <2>2. QED
    BY <2>1 DEF OwedOf, Committing
<1>3. RestoresOf(h, o, b, r, d)
  BY DEF HistoryOf, RestoresOf, Defined, Committing
<1>4. QED
  BY <1>1, <1>2, <1>3 DEF HistoryOf

\* cache_start_transaction(): what is seen becomes what an abort brings back.
LEMMA StartHistory ==
    ASSUME NEW c, NEW e, NEW g, NEW h, NEW op, NEW arg, NEW b, NEW r \in BlockType, NEW d,
           HistoryOf(c, g, op, arg, b, r, d), ~Committing(op),
           r.transaction = NoId, r.parent = NoData,
           h.committed = g.committed, h.defined = g.defined, h.owed = g.owed,
           h.base[b] = IF b \in g.defined THEN Seen(r, d) ELSE NoData, h.subBase[b] = NoData
    PROVE  HistoryOf(e, h, op, arg, b, r, d)
<1>1. VersionsOf(e, h, op, r, d)
  BY DEF HistoryOf, VersionsOf
<1>2. AllOwed(h, op, arg, b, r, d)
  BY DEF HistoryOf, AllOwed
<1>3. RestoresOf(h, op, b, r, d)
  BY DEF HistoryOf, RestoresOf, Defined, AbortGives, SubAbortGives, Committing
<1>4. QED
  BY <1>1, <1>2, <1>3 DEF HistoryOf

\* cache_start_sub_transaction(), for a block of the transaction and for another one.
LEMMA StartSubHistory ==
    ASSUME NEW c, NEW e, NEW g, NEW h, NEW op, NEW arg, NEW b, NEW r \in BlockType, NEW d,
           HistoryOf(c, g, op, arg, b, r, d), ~Committing(op), ShapeOf(c, r), StampsOf(g, d),
           NEW s, s = IF r.transaction # NoId THEN StartedSub(r) ELSE r,
           h.committed = g.committed, h.defined = g.defined, h.owed = g.owed,
           h.base = g.base, h.active \ {Max(h.active)} = g.active, g.active \subseteq h.active,
           h.subBase[b] = IF b \in g.defined THEN Seen(r, d) ELSE NoData
    PROVE  HistoryOf(e, h, op, arg, b, s, d)
<1>1. CASE r.transaction = NoId
  <2>1. s = r /\ r.parent = NoData
    BY <1>1 DEF ShapeOf
  <2>2. VersionsOf(e, h, op, s, d)
    BY <1>1, <2>1 DEF HistoryOf, VersionsOf
  <2>3. AllOwed(h, op, arg, b, s, d)
    BY <2>1 DEF HistoryOf, AllOwed
  <2>4. RestoresOf(h, op, b, s, d)
    BY <1>1, <2>1 DEF HistoryOf, RestoresOf, Defined, SubAbortGives, Committing
  <2>5. QED
    BY <2>2, <2>3, <2>4 DEF HistoryOf
<1>2. CASE r.transaction # NoId
  <2>1. /\ s \in BlockType /\ s.transaction = r.transaction /\ s.previous = r.previous
        /\ s.cached = r.cached /\ s.discard = r.discard /\ s.dirty = r.dirty
        /\ s.parent = IF r.discard THEN NoData ELSE Current
        /\ s.original = IF r.discard THEN NoData ELSE r.original
        /\ s.current = IF r.discard THEN Undo(r) ELSE r.current
    BY <1>2, StartedSubIs
  <2>2. r.cached /\ (r.discard => r.previous = NoId)
    BY <1>2, AbsentIs DEF ShapeOf
  <2>3. s.previous # NoId => Data(s) = Data(r)
    BY <2>1, <2>2 DEF Data, WritesOriginal
  <2>4. VersionsOf(e, h, op, s, d)
    <3>1. WrittenByParent(h, op) = g.active /\ Written(h, op) = h.active
          /\ Written(g, op) = g.active
      BY DEF WrittenByParent, Written, Committing
    <3>2. QED
      BY <1>2, <2>1, <2>2, <2>3, <3>1 DEF HistoryOf, VersionsOf
  <2>5. AllOwed(h, op, arg, b, s, d)
    <3> SUFFICES ASSUME NEW i \in Ids PROVE OwedOf(op, arg, i, s, g.owed[i][b], d)
      BY DEF AllOwed
    <3>1. OwedOf(op, arg, i, r, g.owed[i][b], d)
      BY DEF HistoryOf, AllOwed
    <3>2. QED
      BY <2>1, <2>3, <3>1 DEF OwedOf, Committing
  <2>6. Defined(h, b, s, d)
    BY <1>2, <2>1 DEF HistoryOf, RestoresOf, Defined
  <2>7. AbortGives(s, d, h.base[b])
    BY <1>2, <2>1 DEF HistoryOf, RestoresOf, AbortGives, Undo, Committing
  <2>8. SubAbortGives(s, d, h.subBase[b])
    BY <1>2, <2>1, <2>2 DEF HistoryOf, RestoresOf, Defined, SubAbortGives, Seen
  <2>9. QED
    BY <2>4, <2>5, <2>6, <2>7, <2>8 DEF HistoryOf, RestoresOf, Committing
<1>3. QED
  BY <1>1, <1>2

\* The value that is to be written next does not change: neither does what is owed, unless
\* a call is committing.
LEMMA OwedFrame ==
    ASSUME NEW g, NEW h, NEW op, NEW arg, NEW b, NEW r, NEW s, NEW d,
           AllOwed(g, op, arg, b, r, d), ~Committing(op), h.owed = g.owed,
           s.previous = r.previous, r.previous # NoId => Data(s) = Data(r)
    PROVE  AllOwed(h, op, arg, b, s, d)
<1> SUFFICES ASSUME NEW i \in Ids PROVE OwedOf(op, arg, i, s, g.owed[i][b], d)
  BY DEF AllOwed
<1>1. OwedOf(op, arg, i, r, g.owed[i][b], d)
  BY DEF AllOwed
<1>2. QED
  BY <1>1 DEF OwedOf, Committing

\* A block after get_writable_cached_block(), field by field.
WrittenFields(r, isNew, i, v, s) ==
    /\ s \in BlockType /\ s.transaction = i /\ s.previous = r.previous
    /\ s.cached = r.cached /\ ~s.discard /\ ~s.unused /\ s.dirty
    /\ s.current = v
    /\ s.original = IF r.original = NoData /\ ~isNew THEN r.current ELSE r.original
    /\ s.parent = IF r.parent = Current THEN r.current ELSE r.parent

\* A block after get_writable_cached_block() has these fields.
LEMMA WrittenFieldsAre ==
    ASSUME NEW r \in BlockType, NEW isNew \in BOOLEAN, NEW i \in Ids, NEW v \in Values,
           NEW s, s = WrittenBlock(r, isNew, i, v)
    PROVE  WrittenFields(r, isNew, i, v, s)
BY WrittenIs DEF WrittenFields

\* What WriteHistory relies on: block b held f and is found as r, the client writes v.
Writing(c, g, h, op, arg, b, d, f, r, isNew, v) ==
    /\ HistoryOf(c, g, op, arg, b, f, d) /\ ~Committing(op)
    /\ ShapeOf(c, f) /\ StampsOf(g, d)
    /\ f.cached => r = f /\ ~isNew
    /\ ~f.cached => /\ f = Absent /\ r.transaction = NoId /\ r.previous = NoId
                    /\ r.original = NoData /\ r.parent = NoData
                    /\ ~isNew => r.current = d
    /\ v = Max(g.active) /\ v \in g.active
    /\ h.committed = g.committed /\ h.active = g.active /\ h.owed = g.owed
    /\ h.base[b] = IF isNew THEN NoData ELSE g.base[b]
    /\ h.subBase[b] = IF isNew THEN NoData ELSE g.subBase[b]

\* get_writable_cached_block(), where f is the block in the cache and r the one found.
LEMMA WriteHistory ==
    ASSUME NEW c, NEW e, NEW g, NEW h, NEW op, NEW arg, NEW b, NEW d \in Values,
           NEW f \in BlockType, NEW r \in BlockType, NEW isNew \in BOOLEAN,
           NEW i \in Ids, NEW v \in Values, Writing(c, g, h, op, arg, b, d, f, r, isNew, v),
           NEW s, s = WrittenBlock(r, isNew, i, v)
    PROVE  HistoryOf(e, h, op, arg, b, s, d)
<1> USE DEF Writing
<1>1. /\ s \in BlockType /\ s.transaction = i /\ s.previous = r.previous
      /\ s.cached = r.cached /\ ~s.discard /\ ~s.unused /\ s.dirty
      /\ s.current = v
      /\ s.original = IF r.original = NoData /\ ~isNew THEN r.current ELSE r.original
      /\ s.parent = IF r.parent = Current THEN r.current ELSE r.parent
  <2>1. WrittenFields(r, isNew, i, v, s)
    BY WrittenFieldsAre
  <2>2. QED
    BY <2>1 DEF WrittenFields
<1>2. i # NoId
  OBVIOUS
<1>3. ~isNew => r.current # NoData
  BY BlockCacheAssumption DEF ShapeOf, Values
<1>4. s.previous = f.previous /\ r.parent = f.parent /\ r.original = f.original
      /\ r.transaction = f.transaction
  BY <1>1, AbsentIs
<1>5. s.previous # NoId => Data(s) = Data(f) /\ s.original = Data(f)
  <2> SUFFICES ASSUME s.previous # NoId PROVE Data(s) = Data(f) /\ s.original = Data(f)
    OBVIOUS
  <2>1. f.cached /\ r = f /\ ~isNew
    BY <1>4, AbsentIs
  <2>2. QED
    BY <1>1, <1>3, <2>1 DEF Data, WritesOriginal
<1>6. VersionsOf(e, h, op, s, d)
  <2>1. VersionsOf(c, g, op, f, d)
    BY DEF HistoryOf
  <2>2. Written(h, op) = g.active /\ WrittenByParent(h, op) = WrittenByParent(g, op)
        /\ WrittenByParent(g, op) \subseteq g.active
    BY DEF Written, WrittenByParent, Committing
  <2>3. s.previous # NoId => s.original \in g.committed /\ Data(s) \in g.committed /\ Data(s) >= d
    BY <1>4, <1>5, <2>1 DEF VersionsOf
  <2>4. v >= d /\ (s.previous # NoId => v >= s.original)
    BY <2>3 DEF Values
  <2>5. ASSUME s.parent \notin {NoData, Current}
        PROVE  s.parent \in WrittenByParent(g, op)
    <3>1. CASE r.parent = Current
      <4>1. f.cached /\ r = f
        BY <1>4, <3>1, AbsentIs
      <4>2. QED
        BY <1>1, <2>1, <3>1, <4>1 DEF VersionsOf
    <3>2. CASE r.parent # Current
      BY <1>1, <1>4, <2>1, <2>5, <3>2 DEF VersionsOf
    <3>3. QED
      BY <3>1, <3>2
  <2>6. ASSUME s.parent \notin {NoData, Current}
        PROVE  s.parent >= d /\ (s.previous # NoId => s.parent >= s.original)
    <3>1. s.parent \in g.active /\ s.parent \in Nat
      BY <2>2, <2>5, <2>6
    <3>2. d < s.parent /\ (s.previous # NoId => s.original < s.parent /\ s.original \in Nat)
      BY <2>3, <3>1
    <3>3. QED
      BY <3>1, <3>2
  <2>7. s.parent # Current
    BY <1>1 DEF BlockType, Values
  <2>8. QED
    BY <1>1, <1>2, <2>2, <2>3, <2>4, <2>5, <2>6, <2>7 DEF VersionsOf
<1>7. AllOwed(h, op, arg, b, s, d)
  BY <1>4, <1>5, OwedFrame DEF HistoryOf
<1>8. RestoresOf(h, op, b, s, d)
  <2>1. AbortGives(f, d, g.base[b]) /\ SubAbortGives(f, d, g.subBase[b])
    BY DEF HistoryOf, RestoresOf, Committing
  <2>2. Defined(h, b, s, d)
    BY <1>1, <1>2 DEF Defined
  <2>3. ASSUME ~isNew
        PROVE  /\ s.original # NoData
               /\ Undo(s) = IF f.transaction = NoId THEN Seen(f, d) ELSE Undo(f)
    <3>1. CASE f.cached
      <4>1. r = f /\ f.current # NoData /\ s.original # NoData
        BY <1>1, <1>3, <2>3, <3>1
      <4>2. f.transaction = NoId /\ f.original # NoData => f.current = f.original
        BY DEF ShapeOf
      <4>3. Undo(s) = IF f.original = NoData THEN f.current ELSE f.original
        BY <1>1, <2>3, <4>1 DEF Undo
      <4>4. QED
        BY <3>1, <4>1, <4>2, <4>3 DEF Undo, Seen
    <3>2. CASE ~f.cached
      BY <1>1, <1>3, <1>4, <2>3, <3>2 DEF Undo, Seen
    <3>3. QED
      BY <3>1, <3>2
  <2>4. AbortGives(s, d, h.base[b])
    <3>1. CASE isNew
      BY <3>1 DEF AbortGives
    <3>2. CASE ~isNew
      BY <1>1, <1>2, <1>4, <2>1, <2>3, <3>2 DEF AbortGives
    <3>3. QED
      BY <3>1, <3>2
  <2>5. SubAbortGives(s, d, h.subBase[b])
    <3>1. CASE isNew
      BY <3>1 DEF SubAbortGives
    <3>2. CASE ~isNew
      <4>1. s.parent # Current
        BY <1>1 DEF BlockType, Values
      <4>2. f.parent # NoData => f.cached /\ r = f
        BY <1>4, AbsentIs
      <4>3. (s.parent = NoData) <=> (f.parent = NoData)
        BY <1>1, <1>3, <1>4, <3>2
      <4>4. QED
        BY <1>1, <1>2, <1>4, <2>1, <2>3, <3>2, <4>1, <4>2, <4>3 DEF SubAbortGives
    <3>3. QED
      BY <3>1, <3>2
  <2>6. QED
    BY <2>2, <2>4, <2>5 DEF RestoresOf, Committing
<1>9. QED
  BY <1>6, <1>7, <1>8 DEF HistoryOf

\* cache_abort_transaction()
LEMMA AbortHistory ==
    ASSUME NEW c, NEW e, NEW g, NEW h, NEW op, NEW arg, NEW b, NEW d, NEW r \in BlockType,
           HistoryOf(c, g, op, arg, b, r, d), ~Committing(op), ShapeOf(c, r),
           NEW s, s = IF r.transaction # NoId THEN AbortedBlock(r) ELSE r,
           h.committed = g.committed, h.owed = g.owed,
           b \in h.defined => g.base[b] # NoData,
           h.base[b] = NoData, h.subBase[b] = NoData
    PROVE  /\ HistoryOf(e, h, op, arg, b, s, d)
           /\ g.base[b] # NoData => Seen(s, d) = g.base[b]
<1>0. VersionsOf(c, g, op, r, d) /\ AbortGives(r, d, g.base[b]) /\ AllOwed(g, op, arg, b, r, d)
  BY DEF HistoryOf, RestoresOf, Committing
<1>1. CASE r.transaction = NoId
  <2>1. s = r /\ r.parent = NoData
    BY <1>1 DEF ShapeOf
  <2>2. VersionsOf(e, h, op, s, d)
    BY <1>0, <1>1, <2>1 DEF VersionsOf
  <2>3. AllOwed(h, op, arg, b, s, d)
    BY <1>0, <2>1 DEF AllOwed
  <2>4. RestoresOf(h, op, b, s, d)
    BY <1>0, <1>1, <2>1 DEF RestoresOf, Defined, AbortGives, SubAbortGives
  <2>5. QED
    BY <1>0, <1>1, <2>1, <2>2, <2>3, <2>4 DEF HistoryOf, AbortGives
<1>2. CASE r.transaction # NoId
  <2>1. /\ s.transaction = NoId /\ s.previous = r.previous
        /\ s.cached = r.cached /\ ~s.discard
        /\ s.dirty = (r.dirty /\ r.previous # NoId)
        /\ s.parent = NoData /\ s.original = NoData /\ s.current = Undo(r)
    BY <1>2, AbortedIs
  <2>2. r.cached /\ (r.previous # NoId => r.original # NoData)
    BY <1>2, AbsentIs DEF ShapeOf
  <2>3. r.previous # NoId => Data(s) = Data(r) /\ s.current = Data(r)
    BY <2>1, <2>2 DEF Data, WritesOriginal, Undo
  <2>4. VersionsOf(e, h, op, s, d)
    <3>1. s.dirty => r.previous # NoId
      BY <2>1
    <3>2. r.previous # NoId => Data(r) \in g.committed /\ Data(r) >= d
      BY <1>0 DEF VersionsOf
    <3>3. QED
      BY <2>1, <2>3, <3>1, <3>2 DEF VersionsOf
  <2>5. AllOwed(h, op, arg, b, s, d)
    BY <1>0, <2>1, <2>3, OwedFrame
  <2>6. Seen(s, d) = Undo(r)
    BY <2>1, <2>2 DEF Seen
  <2>7. RestoresOf(h, op, b, s, d)
    BY <1>0, <1>2, <2>1, <2>6 DEF RestoresOf, Defined, AbortGives, SubAbortGives
  <2>8. QED
    BY <1>0, <1>2, <2>4, <2>5, <2>6, <2>7 DEF HistoryOf, AbortGives
<1>3. QED
  BY <1>1, <1>2

\* cache_abort_sub_transaction()
LEMMA AbortSubHistory ==
    ASSUME NEW c, NEW e, NEW g, NEW h, NEW op, NEW arg, NEW b, NEW d, NEW r \in BlockType,
           HistoryOf(c, g, op, arg, b, r, d), ~Committing(op), ShapeOf(c, r), StampsOf(g, d),
           NEW s, s = IF r.transaction = NoId THEN r
                      ELSE IF r.parent = NoData THEN LeftBlock(r) ELSE RestoredBlock(r),
           r.transaction # NoId => ~e.transaction[r.transaction].hasSub,
           h.committed = g.committed, h.owed = g.owed, h.base = g.base,
           h.active = g.active \ {Max(g.active)},
           b \in h.defined => g.subBase[b] # NoData, h.subBase[b] = NoData
    PROVE  /\ HistoryOf(e, h, op, arg, b, s, d)
           /\ g.subBase[b] # NoData => Seen(s, d) = g.subBase[b]
<1>0. /\ VersionsOf(c, g, op, r, d) /\ AbortGives(r, d, g.base[b])
      /\ SubAbortGives(r, d, g.subBase[b]) /\ AllOwed(g, op, arg, b, r, d)
  BY DEF HistoryOf, RestoresOf, Committing
<1>1. CASE r.transaction = NoId
  <2>1. s = r /\ r.parent = NoData
    BY <1>1 DEF ShapeOf
  <2>2. VersionsOf(e, h, op, s, d)
    BY <1>0, <1>1, <2>1 DEF VersionsOf
  <2>3. AllOwed(h, op, arg, b, s, d)
    BY <1>0, <2>1 DEF AllOwed
  <2>4. RestoresOf(h, op, b, s, d)
    BY <1>0, <1>1, <2>1 DEF RestoresOf, Defined, SubAbortGives, Committing
  <2>5. QED
    BY <1>0, <1>1, <2>1, <2>2, <2>3, <2>4 DEF HistoryOf, SubAbortGives
<1>2. CASE r.transaction # NoId /\ r.parent = NoData
  <2>1. /\ s.transaction = NoId /\ s.previous = r.previous
        /\ s.cached = r.cached /\ ~s.discard
        /\ s.dirty = (r.dirty /\ r.previous # NoId)
        /\ s.parent = NoData /\ s.current = Undo(r)
        /\ s.original = IF r.previous = NoId THEN NoData ELSE r.original
    BY <1>2, LeftIs
  <2>2. r.cached /\ (r.previous # NoId => r.original # NoData)
    BY <1>2, AbsentIs DEF ShapeOf
  <2>3. r.previous # NoId => Data(s) = Data(r) /\ s.current = Data(r)
    BY <2>1, <2>2 DEF Data, WritesOriginal, Undo
  <2>4. VersionsOf(e, h, op, s, d)
    <3>1. s.dirty => r.previous # NoId
      BY <2>1
    <3>2. r.previous # NoId => Data(r) \in g.committed /\ Data(r) >= d
      BY <1>0 DEF VersionsOf
    <3>3. QED
      BY <2>1, <2>3, <3>1, <3>2 DEF VersionsOf
  <2>5. AllOwed(h, op, arg, b, s, d)
    BY <1>0, <2>1, <2>3, OwedFrame
  <2>6. Seen(s, d) = Undo(r)
    BY <2>1, <2>2 DEF Seen
  <2>7. Defined(h, b, s, d)
    BY <1>0, <1>2, <2>1, <2>6 DEF Defined, SubAbortGives
  <2>8. AbortGives(s, d, h.base[b])
    BY <1>0, <1>2, <2>1, <2>6 DEF AbortGives
  <2>9. RestoresOf(h, op, b, s, d)
    BY <2>7, <2>8 DEF RestoresOf, SubAbortGives, Committing
  <2>10. QED
    BY <1>0, <1>2, <2>4, <2>5, <2>6, <2>9 DEF HistoryOf, SubAbortGives
<1>3. CASE r.transaction # NoId /\ r.parent # NoData
  <2>1. /\ s.transaction = r.transaction /\ s.previous = r.previous
        /\ s.cached = r.cached /\ ~s.discard
        /\ s.dirty = r.dirty /\ s.original = r.original
        /\ s.parent = NoData
        /\ s.current = IF r.parent # Current THEN r.parent ELSE r.current
    BY <1>3, RestoredIs
  <2>2. r.cached /\ (r.previous # NoId => r.original # NoData)
    BY <1>3, AbsentIs DEF ShapeOf
  <2>3. r.previous # NoId => Data(s) = Data(r) /\ s.original = Data(r)
    BY <2>1, <2>2 DEF Data, WritesOriginal
  <2>4. s.current \in h.active
    BY <1>0, <1>3, <2>1 DEF VersionsOf, WrittenByParent, Committing
  <2>5. r.previous # NoId => Data(r) \in g.committed /\ Data(r) >= d
    BY <1>0 DEF VersionsOf
  <2>6. /\ s.current >= d
        /\ r.previous # NoId => s.current >= s.original
    <3>1. s.current \in g.active /\ s.current \in Nat
      BY <2>4
    <3>2. d < s.current /\ (r.previous # NoId => s.original < s.current /\ s.original \in Nat)
      BY <2>3, <2>5, <3>1
    <3>3. QED
      BY <3>1, <3>2
  <2>7. VersionsOf(e, h, op, s, d)
    <3>1. Written(h, op) = h.active
      BY DEF Written, Committing
    <3>2. QED
      BY <1>3, <2>1, <2>3, <2>4, <2>5, <2>6, <3>1 DEF VersionsOf
  <2>8. AllOwed(h, op, arg, b, s, d)
    BY <1>0, <2>1, <2>3, OwedFrame
  <2>9. Defined(h, b, s, d)
    BY <1>3, <2>1 DEF Defined
  <2>10. AbortGives(s, d, h.base[b])
    BY <1>0, <1>3, <2>1 DEF AbortGives, Undo
  <2>11. RestoresOf(h, op, b, s, d)
    BY <2>9, <2>10 DEF RestoresOf, SubAbortGives, Committing
  <2>12. g.subBase[b] # NoData => Seen(s, d) = g.subBase[b]
    BY <1>0, <1>3, <2>1, <2>2 DEF SubAbortGives, Seen
  <2>13. QED
    BY <2>7, <2>8, <2>11, <2>12 DEF HistoryOf
<1>4. QED
  BY <1>1, <1>2, <1>3

\* cache_end_transaction(), from its start: all that is active is committed.
LEMMA EndStartHistory ==
    ASSUME NEW c, NEW g, NEW h, NEW op, NEW arg, NEW b, NEW d, NEW r \in BlockType, NEW i \in Ids,
           HistoryOf(c, g, op, arg, b, r, d), ~Committing(op), StampsOf(g, d),
           h.committed = g.committed \cup g.active, h.defined = g.defined,
           \A j \in Ids : j # i => h.owed[j][b] = g.owed[j][b],
           h.owed[i][b] = IF r.transaction = i /\ ~r.discard THEN r.current ELSE NoData,
           h.base[b] = NoData, h.subBase[b] = NoData
    PROVE  HistoryOf(c, h, "end", i, b, r, d)
<1>0. VersionsOf(c, g, op, r, d) /\ AllOwed(g, op, arg, b, r, d) /\ Defined(g, b, r, d)
  BY DEF HistoryOf, RestoresOf
<1>1. /\ Written(g, op) = g.active /\ Written(h, "end") = h.committed
      /\ WrittenByParent(g, op) \subseteq g.active /\ WrittenByParent(h, "end") = h.committed
  BY DEF Written, WrittenByParent, Committing
<1>2. VersionsOf(c, h, "end", r, d)
  BY <1>0, <1>1 DEF VersionsOf
<1>3. AllOwed(h, "end", i, b, r, d)
  <2> SUFFICES ASSUME NEW j \in Ids PROVE OwedOf("end", i, j, r, h.owed[j][b], d)
    BY DEF AllOwed
  <2>1. OwedOf(op, arg, j, r, g.owed[j][b], d)
    BY <1>0 DEF AllOwed
  <2>2. CASE j = i
    <3>1. CASE r.transaction = i /\ ~r.discard
      BY <2>2, <3>1 DEF OwedOf
    <3>2. CASE ~(r.transaction = i /\ ~r.discard)
      <4>1. h.owed[j][b] = NoData
        BY <2>2, <3>2
      <4>2. NoData <= d
        OBVIOUS
      <4>3. QED
        BY <4>1, <4>2 DEF OwedOf
    <3>3. QED
      BY <3>1, <3>2
  <2>3. CASE j # i
    BY <2>1, <2>3 DEF OwedOf, Committing
  <2>4. QED
    BY <2>2, <2>3
<1>4. RestoresOf(h, "end", b, r, d)
  BY <1>0 DEF RestoresOf, Defined, AbortGives, SubAbortGives
<1>5. QED
  BY <1>2, <1>3, <1>4 DEF HistoryOf

\* cache_end_transaction(), once no block of it waits for an earlier transaction.
LEMMA EndedHistory ==
    ASSUME NEW c, NEW e, NEW g, NEW i \in Ids, NEW b, NEW d, NEW r \in BlockType,
           HistoryOf(c, g, "end", i, b, r, d), ShapeOf(c, r), StampsOf(g, d),
           r.transaction \in {NoId, i}, r.transaction = i => r.previous = NoId,
           NEW s, s = IF r.transaction = i THEN EndedBlock(r, i) ELSE r,
           e.transaction[i].state = "closed", NEW op, ~Committing(op), NEW arg,
           g.base[b] = NoData, g.subBase[b] = NoData
    PROVE  HistoryOf(e, g, op, arg, b, s, d)
<1>0. /\ VersionsOf(c, g, "end", r, d) /\ AllOwed(g, "end", i, b, r, d)
      /\ Defined(g, b, r, d)
  BY DEF HistoryOf, RestoresOf
<1>1. ASSUME Defined(g, b, s, d) PROVE RestoresOf(g, op, b, s, d)
  BY <1>1 DEF RestoresOf, AbortGives, SubAbortGives
<1>2. CASE r.transaction = NoId
  <2>1. s = r /\ r.parent = NoData
    BY <1>2 DEF ShapeOf
  <2>2. VersionsOf(e, g, op, s, d)
    BY <1>0, <1>2, <2>1 DEF VersionsOf
  <2>3. AllOwed(g, op, arg, b, s, d)
    <3> SUFFICES ASSUME NEW j \in Ids PROVE OwedOf(op, arg, j, r, g.owed[j][b], d)
      BY <2>1 DEF AllOwed
    <3>1. OwedOf("end", i, j, r, g.owed[j][b], d)
      BY <1>0 DEF AllOwed
    <3>2. QED
      BY <1>2, <3>1 DEF OwedOf
  <2>4. QED
    BY <1>0, <1>1, <2>1, <2>2, <2>3 DEF HistoryOf
<1>3. CASE r.transaction = i
  <2>1. /\ s.transaction = NoId
        /\ s.previous = IF r.discard THEN NoId ELSE i
        /\ r.discard => s = Absent
        /\ ~r.discard => /\ s.current = r.current
                         /\ s.original = NoData
                         /\ s.parent = NoData
                         /\ s.dirty = r.dirty
                         /\ s.cached = r.cached
                         /\ ~s.discard
    BY <1>3, EndedBlockIs
  <2>2. ~r.discard => /\ r.current \in g.committed /\ r.current >= d
    BY <1>0, <1>3 DEF VersionsOf, Written
  <2>3. ~r.discard => Data(s) = r.current
    BY <2>1 DEF Data, WritesOriginal
  <2>4. VersionsOf(e, g, op, s, d)
    <3>1. CASE r.discard
      BY <2>1, <3>1, AbsentIs DEF VersionsOf
    <3>2. CASE ~r.discard
      BY <2>1, <2>2, <2>3, <3>2 DEF VersionsOf
    <3>3. QED
      BY <3>1, <3>2
  <2>5. AllOwed(g, op, arg, b, s, d)
    <3> SUFFICES ASSUME NEW j \in Ids PROVE OwedOf(op, arg, j, s, g.owed[j][b], d)
      BY DEF AllOwed
    <3>1. OwedOf("end", i, j, r, g.owed[j][b], d)
      BY <1>0 DEF AllOwed
    <3>2. g.owed[j][b] <= d \/ (j = i /\ ~r.discard /\ g.owed[j][b] = r.current)
      BY <1>3, <3>1 DEF OwedOf
    <3>3. CASE g.owed[j][b] <= d
      BY <3>3 DEF OwedOf
    <3>4. CASE j = i /\ ~r.discard /\ g.owed[j][b] = r.current
      <4>1. r.current <= Data(s)
        BY <2>2, <2>3, <3>4
      <4>2. QED
        BY <2>1, <3>4, <4>1 DEF OwedOf
    <3>5. QED
      BY <3>2, <3>3, <3>4
  <2>6. Defined(g, b, s, d)
    <3>1. CASE r.discard
      BY <1>0, <1>3, <2>1, <3>1 DEF Defined
    <3>2. CASE ~r.discard
      BY <2>1, <3>2 DEF Defined
    <3>3. QED
      BY <3>1, <3>2
  <2>7. QED
    BY <1>1, <2>4, <2>5, <2>6 DEF HistoryOf
<1>4. QED
  BY <1>2, <1>3

\* cache_detach_sub_transaction(), from its start: all but what the sub transaction has
\* written is committed.
LEMMA DetachStartHistory ==
    ASSUME NEW c, NEW g, NEW h, NEW op, NEW arg, NEW b, NEW d, NEW r \in BlockType, NEW i \in Ids,
           HistoryOf(c, g, op, arg, b, r, d), ~Committing(op), StampsOf(g, d), ShapeOf(c, r),
           h.committed = g.committed \cup (g.active \ {Max(g.active)}),
           h.active = {Max(g.active)}, Max(h.active) = Max(g.active), h.defined = g.defined,
           \A j \in Ids : j # i => h.owed[j][b] = g.owed[j][b],
           h.owed[i][b] = IF r.transaction # i \/ r.discard THEN NoData
                          ELSE IF r.parent = Current THEN r.current ELSE r.parent,
           h.base[b] = g.subBase[b], h.subBase[b] = NoData
    PROVE  HistoryOf(c, h, "detach", i, b, r, d)
<1>0. /\ VersionsOf(c, g, op, r, d) /\ AllOwed(g, op, arg, b, r, d) /\ Defined(g, b, r, d)
      /\ SubAbortGives(r, d, g.subBase[b])
  BY DEF HistoryOf, RestoresOf
<1>1. /\ Written(g, op) = g.active /\ g.active \subseteq Written(h, "detach")
      /\ WrittenByParent(g, op) \subseteq h.committed
      /\ WrittenByParent(h, "detach") = h.committed
  BY DEF Written, WrittenByParent, Committing
<1>2. VersionsOf(c, h, "detach", r, d)
  <2>1. op # "end" /\ g.committed \subseteq h.committed
    BY DEF Committing
  <2>2. QED
    BY <1>0, <1>1, <2>1 DEF VersionsOf
<1>3. AllOwed(h, "detach", i, b, r, d)
  <2> SUFFICES ASSUME NEW j \in Ids PROVE OwedOf("detach", i, j, r, h.owed[j][b], d)
    BY DEF AllOwed
  <2>1. OwedOf(op, arg, j, r, g.owed[j][b], d)
    BY <1>0 DEF AllOwed
  <2>2. CASE j = i
    <3>1. CASE r.transaction = i /\ ~r.discard
      BY <2>2, <3>1 DEF OwedOf
    <3>2. CASE ~(r.transaction = i /\ ~r.discard)
      <4>1. h.owed[j][b] = NoData
        BY <2>2, <3>2
      <4>2. NoData <= d
        OBVIOUS
      <4>3. QED
        BY <4>1, <4>2 DEF OwedOf
    <3>3. QED
      BY <3>1, <3>2
  <2>3. CASE j # i
    BY <2>1, <2>3 DEF OwedOf, Committing
  <2>4. QED
    BY <2>2, <2>3
<1>4. RestoresOf(h, "detach", b, r, d)
  <2>1. Defined(h, b, r, d)
    BY <1>0 DEF Defined
  <2>2. SubAbortGives(r, d, h.base[b]) /\ SubAbortGives(r, d, h.subBase[b])
    BY <1>0 DEF SubAbortGives
  <2>3. QED
    BY <2>1, <2>2 DEF RestoresOf
<1>5. QED
  BY <1>2, <1>3, <1>4 DEF HistoryOf

\* A block after cache_detach_sub_transaction(), field by field.
DetachedFields(r, i, k, s) ==
    /\ s.transaction = IF r.discard \/ r.parent = Current THEN NoId ELSE k
    /\ s.previous = IF r.discard \/ r.parent = NoData THEN NoId ELSE i
    /\ r.discard => s = Absent
    /\ ~r.discard => /\ s.current = r.current
                     /\ s.original = IF r.parent = NoData THEN r.original
                                     ELSE IF r.parent = Current THEN NoData ELSE r.parent
                     /\ s.parent = NoData /\ s.dirty = r.dirty /\ s.cached = r.cached
                     /\ ~s.discard

\* A block after cache_detach_sub_transaction() has these fields.
LEMMA DetachedFieldsAre ==
    ASSUME NEW c, NEW r \in BlockType, NEW i \in Ids, NEW k \in Ids, ShapeOf(c, r),
           r.transaction = i, r.previous = NoId, DividedBlock(r),
           NEW e, e.transaction[i].state = "closed", IsOpen(e, k),
           NEW s, s = Detached(r, i, k)
    PROVE  DetachedFields(r, i, k, s)
BY DetachedIs DEF DetachedFields

\* cache_detach_sub_transaction(), once no block of it waits for an earlier transaction.
LEMMA DetachedHistory ==
    ASSUME NEW c, NEW e, NEW g, NEW i \in Ids, NEW k \in Ids, NEW b, NEW d, NEW r \in BlockType,
           HistoryOf(c, g, "detach", i, b, r, d), ShapeOf(c, r), StampsOf(g, d),
           r.transaction \in {NoId, i}, r.transaction = i => r.previous = NoId /\ DividedBlock(r),
           NEW s, s = IF r.transaction = i THEN Detached(r, i, k) ELSE r,
           e.transaction[i].state = "closed", IsOpen(e, k), ~e.transaction[k].hasSub,
           c.transaction[i].hasSub, Max(g.active) \in g.active,
           NEW op, ~Committing(op), NEW arg, g.subBase[b] = NoData
    PROVE  HistoryOf(e, g, op, arg, b, s, d)
<1>0. /\ VersionsOf(c, g, "detach", r, d) /\ AllOwed(g, "detach", i, b, r, d)
      /\ Defined(g, b, r, d) /\ SubAbortGives(r, d, g.base[b])
  BY DEF HistoryOf, RestoresOf
<1>1. ASSUME Defined(g, b, s, d), AbortGives(s, d, g.base[b]) PROVE RestoresOf(g, op, b, s, d)
  BY <1>1 DEF RestoresOf, SubAbortGives, Committing
<1>2. CASE r.transaction = NoId
  <2>1. s = r /\ r.parent = NoData
    BY <1>2 DEF ShapeOf
  <2>2. VersionsOf(e, g, op, s, d)
    BY <1>0, <1>2, <2>1 DEF VersionsOf
  <2>3. AllOwed(g, op, arg, b, s, d)
    <3> SUFFICES ASSUME NEW j \in Ids PROVE OwedOf(op, arg, j, r, g.owed[j][b], d)
      BY <2>1 DEF AllOwed
    <3>1. OwedOf("detach", i, j, r, g.owed[j][b], d)
      BY <1>0 DEF AllOwed
    <3>2. QED
      BY <1>2, <3>1 DEF OwedOf
  <2>4. AbortGives(s, d, g.base[b])
    BY <1>0, <1>2, <2>1 DEF AbortGives, SubAbortGives
  <2>5. QED
    BY <1>0, <1>1, <2>1, <2>2, <2>3, <2>4 DEF HistoryOf
<1>3. CASE r.transaction = i
  <2>0. r.previous = NoId /\ DividedBlock(r) /\ r.cached
    BY <1>3, AbsentIs DEF ShapeOf
  <2>1. /\ s.transaction = IF r.discard \/ r.parent = Current THEN NoId ELSE k
        /\ s.previous = IF r.discard \/ r.parent = NoData THEN NoId ELSE i
        /\ r.discard => s = Absent
        /\ ~r.discard => /\ s.current = r.current
                         /\ s.original = IF r.parent = NoData THEN r.original
                                    ELSE IF r.parent = Current THEN NoData ELSE r.parent
                         /\ s.parent = NoData
                         /\ s.dirty = r.dirty
                         /\ s.cached = r.cached
                         /\ ~s.discard
    <3>1. s = Detached(r, i, k)
      BY <1>3
    <3>2. DetachedFields(r, i, k, s)
      BY <1>3, <2>0, <3>1, DetachedFieldsAre
    <3>3. QED
      BY <3>2 DEF DetachedFields
  <2>2. ASSUME NEW j \in Ids
        PROVE  \/ g.owed[j][b] <= d
               \/ /\ j = i /\ ~r.discard
                  /\ g.owed[j][b] = IF r.parent = Current THEN r.current ELSE r.parent
    <3>1. OwedOf("detach", i, j, r, g.owed[j][b], d)
      BY <1>0 DEF AllOwed
    <3>2. QED
      BY <1>3, <2>0, <3>1 DEF OwedOf
  <2>3. CASE r.discard
    <3>1. s = Absent /\ s.transaction = NoId /\ s.previous = NoId /\ s.parent = NoData
          /\ ~s.dirty /\ ~s.cached
      BY <2>1, <2>3, AbsentIs
    <3>2. VersionsOf(e, g, op, s, d)
      BY <3>1 DEF VersionsOf
    <3>3. AllOwed(g, op, arg, b, s, d)
      BY <2>2, <2>3 DEF AllOwed, OwedOf
    <3>4. Defined(g, b, s, d)
      BY <3>1 DEF Defined, Seen
    <3>5. AbortGives(s, d, g.base[b])
      BY <1>0, <1>3, <2>0, <2>3, <3>1 DEF AbortGives, SubAbortGives, Seen, DividedBlock
    <3>6. QED
      BY <1>1, <3>2, <3>3, <3>4, <3>5 DEF HistoryOf
  <2>4. CASE ~r.discard /\ r.parent = Current
    <3>1. /\ s.transaction = NoId /\ s.previous = i /\ s.current = r.current
          /\ s.original = NoData /\ s.parent = NoData /\ s.dirty = r.dirty
          /\ s.cached = r.cached
      BY <2>1, <2>4
    <3>2. r.current \in g.committed /\ r.current >= d /\ Data(s) = r.current
      BY <1>0, <1>3, <2>4, <3>1
      DEF VersionsOf, WrittenByParent, Committing, Data, WritesOriginal
    <3>3. VersionsOf(e, g, op, s, d)
      BY <3>1, <3>2 DEF VersionsOf
    <3>4. AllOwed(g, op, arg, b, s, d)
      <4> SUFFICES ASSUME NEW j \in Ids PROVE OwedOf(op, arg, j, s, g.owed[j][b], d)
        BY DEF AllOwed
      <4>1. r.current <= r.current
        BY <3>2
      <4>2. QED
        BY <2>2, <2>4, <3>1, <3>2, <4>1 DEF OwedOf
    <3>5. Defined(g, b, s, d) /\ AbortGives(s, d, g.base[b])
      BY <1>0, <2>0, <2>4, <3>1 DEF Defined, AbortGives, SubAbortGives, Seen
    <3>6. QED
      BY <1>1, <3>3, <3>4, <3>5 DEF HistoryOf
  <2>5. ASSUME ~r.discard, r.parent # Current
        PROVE  r.current = Max(g.active) /\ r.current >= d
    BY <1>0, <1>3, <2>5 DEF VersionsOf
  <2>6. CASE ~r.discard /\ r.parent \notin {NoData, Current}
    <3>1. /\ s.transaction = k /\ s.previous = i /\ s.current = r.current
          /\ s.original = r.parent /\ s.parent = NoData /\ s.cached = r.cached /\ ~s.discard
      BY <2>1, <2>6
    <3>2. r.parent \in g.committed /\ r.parent >= d /\ Data(s) = r.parent
      BY <1>0, <2>6, <3>1 DEF VersionsOf, WrittenByParent, Committing, Data, WritesOriginal
    <3>3. r.current \in g.active /\ r.current >= r.parent
      <4>1. r.current \in g.active
        BY <2>5, <2>6
      <4>2. r.parent < r.current /\ r.parent \in Nat /\ r.current \in Nat
        BY <3>2, <4>1
      <4>3. QED
        BY <4>1, <4>2
    <3>4. VersionsOf(e, g, op, s, d)
      <4>1. Written(g, op) = g.active
        BY DEF Written, Committing
      <4>2. QED
        BY <2>5, <2>6, <3>1, <3>2, <3>3, <4>1 DEF VersionsOf
    <3>5. AllOwed(g, op, arg, b, s, d)
      <4> SUFFICES ASSUME NEW j \in Ids PROVE OwedOf(op, arg, j, s, g.owed[j][b], d)
        BY DEF AllOwed
      <4>1. r.parent <= r.parent
        BY <3>2
      <4>2. QED
        BY <2>2, <2>6, <3>1, <3>2, <4>1 DEF OwedOf
    <3>6. Defined(g, b, s, d) /\ AbortGives(s, d, g.base[b])
      BY <1>0, <2>6, <3>1 DEF Defined, AbortGives, SubAbortGives, Undo
    <3>7. QED
      BY <1>1, <3>4, <3>5, <3>6 DEF HistoryOf
  <2>7. CASE ~r.discard /\ r.parent = NoData
    <3>1. /\ s.transaction = k /\ s.previous = NoId /\ s.current = r.current
          /\ s.original = r.original /\ s.parent = NoData /\ s.cached = r.cached /\ ~s.discard
          /\ r.original # NoData
      <4>1. r.parent # Current
        BY <2>7
      <4>2. r.original # NoData
        BY <2>0, <2>7, <4>1 DEF DividedBlock
      <4>3. QED
        BY <2>1, <2>7, <4>1, <4>2
    <3>2. VersionsOf(e, g, op, s, d)
      <4>1. Written(g, op) = g.active
        BY DEF Written, Committing
      <4>2. QED
        BY <2>5, <2>7, <3>1, <4>1 DEF VersionsOf
    <3>3. AllOwed(g, op, arg, b, s, d)
      <4> SUFFICES ASSUME NEW j \in Ids PROVE OwedOf(op, arg, j, s, g.owed[j][b], d)
        BY DEF AllOwed
      <4>1. NoData <= d
        OBVIOUS
      <4>2. g.owed[j][b] <= d
        BY <2>2, <2>7, <4>1
      <4>3. QED
        BY <4>2 DEF OwedOf
    <3>4. Defined(g, b, s, d) /\ AbortGives(s, d, g.base[b])
      BY <1>0, <1>3, <2>7, <3>1 DEF Defined, AbortGives, SubAbortGives, Undo
    <3>5. QED
      BY <1>1, <3>2, <3>3, <3>4 DEF HistoryOf
  <2>8. QED
    BY <2>3, <2>4, <2>6, <2>7
<1>4. QED
  BY <1>2, <1>3

\* A block that no transaction has is removed from the cache.
LEMMA RemovedHistory ==
    ASSUME NEW c, NEW e, NEW g, NEW op, NEW arg, NEW o, NEW a, NEW b, NEW d, NEW r,
           HistoryOf(c, g, op, arg, b, r, d),
           (o = op /\ a = arg) \/ (~Committing(op) /\ ~Committing(o)),
           r.transaction = NoId, r.previous = NoId, r.parent = NoData
    PROVE  HistoryOf(e, g, o, a, b, Absent, d)
<1>1. VersionsOf(e, g, o, Absent, d)
  BY AbsentIs DEF VersionsOf
<1>2. AllOwed(g, o, a, b, Absent, d)
  <2> SUFFICES ASSUME NEW i \in Ids PROVE OwedOf(o, a, i, Absent, g.owed[i][b], d)
    BY DEF AllOwed
  <2>1. OwedOf(op, arg, i, r, g.owed[i][b], d)
    BY DEF HistoryOf, AllOwed
  <2>2. QED
    BY <2>1 DEF OwedOf
<1>3. ASSUME NEW v, AbortGives(r, d, v) \/ SubAbortGives(r, d, v)
      PROVE  AbortGives(Absent, d, v) /\ SubAbortGives(Absent, d, v)
  BY <1>3, AbsentIs DEF AbortGives, SubAbortGives, Seen
<1>4. Defined(g, b, Absent, d)
  BY AbsentIs DEF Defined, Seen
<1>5. RestoresOf(g, o, b, Absent, d)
  <2>1. /\ AbortGives(r, d, g.base[b]) \/ SubAbortGives(r, d, g.base[b])
        /\ SubAbortGives(r, d, g.subBase[b])
    BY DEF HistoryOf, RestoresOf
  <2>2. QED
    BY <1>3, <1>4, <2>1 DEF RestoresOf
<1>6. QED
  BY <1>1, <1>2, <1>5 DEF HistoryOf

\* block_cache_discard(), once no earlier change of the block waits to be written.
LEMMA DiscardHistory ==
    ASSUME NEW c, NEW g, NEW op, NEW arg, NEW o, NEW a, NEW b, NEW d, NEW r \in BlockType,
           HistoryOf(c, g, op, arg, b, r, d), ~Committing(op), ~Committing(o), ShapeOf(c, r),
           r.previous = NoId, b \notin g.defined, NEW s, s = DiscardedBlock(r)
    PROVE  HistoryOf(c, g, o, a, b, s, d)
<1>1. HistoryOf(c, g, o, a, b, r, d)
  BY SameHistory
<1>2. CASE ~r.cached
  <2>1. ~r.unused
    BY <1>2 DEF ShapeOf, Absent, NewBlock
  <2>2. s = r
    BY <1>2, <2>1 DEF DiscardedBlock
  <2>3. QED
    BY <1>1, <2>2
<1>3. CASE r.cached /\ r.unused
  <2>1. s = Absent
    BY <1>3 DEF DiscardedBlock
  <2>2. r.transaction = NoId /\ r.parent = NoData
    BY <1>3 DEF ShapeOf
  <2>3. QED
    BY <2>1, <2>2, RemovedHistory
<1>4. CASE r.cached /\ ~r.unused
  <2>1. s = [r EXCEPT !.discard = TRUE]
    BY <1>4 DEF DiscardedBlock
  <2>2. /\ s.transaction = r.transaction /\ s.previous = r.previous /\ s.original = r.original
        /\ s.current = r.current /\ s.parent = r.parent /\ s.cached = r.cached
        /\ s.dirty = r.dirty /\ s.discard
    BY <2>1 DEF BlockType
  <2>3. VersionsOf(c, g, o, s, d)
    BY <1>1, <2>2 DEF HistoryOf, VersionsOf
  <2>4. AllOwed(g, o, a, b, s, d)
    <3>1. AllOwed(g, o, a, b, r, d)
      BY <1>1 DEF HistoryOf
    <3>2. QED
      BY <2>2, <3>1, OwedFrame
  <2>5. Defined(g, b, s, d)
    BY DEF Defined
  <2>6. /\ AbortGives(r, d, g.base[b]) => AbortGives(s, d, g.base[b])
        /\ SubAbortGives(r, d, g.subBase[b]) => SubAbortGives(s, d, g.subBase[b])
    BY <2>2 DEF AbortGives, SubAbortGives, Seen, Undo
  <2>7. RestoresOf(g, o, b, s, d)
    BY <1>1, <2>5, <2>6 DEF HistoryOf, RestoresOf, Committing
  <2>8. QED
    BY <2>3, <2>4, <2>7 DEF HistoryOf
<1>5. QED
  BY <1>2, <1>3, <1>4

\* What is in the cache of a block that may be written.
LEMMA WritableIs ==
    ASSUME NEW c, NEW r \in BlockType, ShapeOf(c, r), MayBeWritten(r)
    PROVE  /\ r.cached
           /\ r.transaction = NoId => r.parent = NoData /\ Data(r) = r.current
           /\ r.transaction # NoId => /\ r.previous # NoId /\ r.original # NoData
                                      /\ Data(r) = r.original /\ Undo(r) = r.original
<1>1. r.cached
  BY AbsentIs DEF ShapeOf, MayBeWritten
<1>2. ASSUME r.transaction = NoId PROVE r.parent = NoData /\ Data(r) = r.current
  BY <1>2 DEF ShapeOf, Data, WritesOriginal
<1>3. ASSUME r.transaction # NoId
      PROVE  /\ r.previous # NoId /\ r.original # NoData
             /\ Data(r) = r.original /\ Undo(r) = r.original
  <2>1. r.previous # NoId /\ r.original # NoData
    BY <1>3 DEF ShapeOf, MayBeWritten
  <2>2. QED
    BY <2>1 DEF Data, WritesOriginal, Undo
<1>4. QED
  BY <1>1, <1>2, <1>3

\* A block is written: the disk holds what is owed next, which was committed.
LEMMA WriteBackHistory ==
    ASSUME NEW c, NEW g, NEW op, NEW arg, NEW b, NEW d, NEW r \in BlockType,
           HistoryOf(c, g, op, arg, b, r, d), ShapeOf(c, r), MayBeWritten(r), StampsOf(g, d),
           \A i \in Ids : g.owed[i][b] \in Int
    PROVE  /\ HistoryOf(c, g, op, arg, b, r, Data(r))
           /\ Data(r) \in g.committed
<1>0. /\ VersionsOf(c, g, op, r, d) /\ AllOwed(g, op, arg, b, r, d)
      /\ RestoresOf(g, op, b, r, d)
  BY DEF HistoryOf
<1>1. /\ r.cached
      /\ r.transaction = NoId => r.parent = NoData /\ Data(r) = r.current
      /\ r.transaction # NoId => /\ r.previous # NoId /\ r.original # NoData
                                 /\ Data(r) = r.original /\ Undo(r) = r.original
  BY WritableIs
<1> DEFINE e == Data(r)
<1>2. e \in g.committed /\ e >= d /\ e \in Nat
  <2>1. CASE r.previous # NoId
    BY <1>0, <2>1 DEF VersionsOf
  <2>2. CASE r.previous = NoId
    <3>1. r.transaction = NoId /\ r.dirty
      BY <2>2 DEF MayBeWritten
    <3>2. QED
      BY <1>0, <1>1, <3>1 DEF VersionsOf
  <2>3. QED
    BY <2>1, <2>2
<1>3. e <= e /\ e >= e
  BY <1>2
<1>4. /\ r.transaction = NoId => r.parent = NoData /\ e = r.current
      /\ r.transaction # NoId => /\ r.previous # NoId /\ r.original # NoData
                                 /\ e = r.original /\ Undo(r) = r.original
      /\ e = Data(r)
  BY <1>1
<1> HIDE DEF e
<1>5. VersionsOf(c, g, op, r, e)
  <2>1. CASE r.transaction = NoId
    BY <1>0, <1>2, <1>3, <1>4, <2>1 DEF VersionsOf
  <2>2. CASE r.transaction # NoId
    BY <1>0, <1>2, <1>3, <1>4, <2>2 DEF VersionsOf
  <2>3. QED
    BY <2>1, <2>2
<1>6. AllOwed(g, op, arg, b, r, e)
  <2> SUFFICES ASSUME NEW i \in Ids PROVE OwedOf(op, arg, i, r, g.owed[i][b], e)
    BY DEF AllOwed
  <2> DEFINE v == g.owed[i][b]
  <2>1. OwedOf(op, arg, i, r, v, d) /\ v \in Int
    BY <1>0 DEF AllOwed
  <2> HIDE DEF v
  <2>2. v <= d => v <= e
    BY <1>2, <2>1
  <2>3. OwedOf(op, arg, i, r, v, e)
    BY <1>4, <2>1, <2>2 DEF OwedOf
  <2>4. QED
    BY <2>3 DEF v
<1>7. Seen(r, e) = r.current /\ Seen(r, d) = r.current
  BY <1>1 DEF Seen
<1>8. Defined(g, b, r, e)
  BY <1>0, <1>4, <1>7 DEF RestoresOf, Defined
<1>9. ASSUME NEW v
      PROVE  /\ AbortGives(r, d, v) => AbortGives(r, e, v)
             /\ SubAbortGives(r, d, v) => SubAbortGives(r, e, v)
  BY <1>4, <1>7 DEF AbortGives, SubAbortGives
<1>10. RestoresOf(g, op, b, r, e)
  BY <1>0, <1>8, <1>9 DEF RestoresOf
<1>11. HistoryOf(c, g, op, arg, b, r, e)
  BY <1>5, <1>6, <1>10 DEF HistoryOf
<1>12. QED
  BY <1>2, <1>11 DEF e

\* A block is done: what was to be written is on the disk.
LEMMA DoneHistory ==
    ASSUME NEW c, NEW e, NEW g, NEW op, NEW arg, NEW b, NEW d, NEW r \in BlockType,
           HistoryOf(c, g, op, arg, b, r, d), ShapeOf(c, r), MayBeWritten(r), d = Data(r),
           r.transaction # NoId /\ e.transaction[r.transaction].hasSub =>
                c.transaction[r.transaction].hasSub,
           NEW s, s = Done(r)
    PROVE  HistoryOf(e, g, op, arg, b, s, d)
<1>0. /\ VersionsOf(c, g, op, r, d) /\ AllOwed(g, op, arg, b, r, d)
      /\ RestoresOf(g, op, b, r, d)
  BY DEF HistoryOf
<1>1. /\ r.cached
      /\ r.transaction = NoId => r.parent = NoData /\ d = r.current
      /\ r.transaction # NoId => /\ r.previous # NoId /\ r.original # NoData
                                 /\ d = r.original /\ Undo(r) = r.original
  BY WritableIs
<1>2. /\ s.cached = r.cached /\ s.current = r.current
      /\ s.parent = r.parent /\ s.transaction = r.transaction
      /\ s.previous = NoId /\ s.discard = r.discard
      /\ s.dirty = (r.dirty /\ WritesOriginal(r))
      /\ s.original = IF r.previous # NoId /\ r.transaction = NoId
                      THEN NoData ELSE r.original
  BY DoneType
<1>3. VersionsOf(e, g, op, s, d)
  <2>1. s.dirty => r.dirty
    BY <1>2
  <2>2. QED
    BY <1>0, <1>2, <2>1 DEF VersionsOf
<1>4. AllOwed(g, op, arg, b, s, d)
  <2> SUFFICES ASSUME NEW i \in Ids PROVE OwedOf(op, arg, i, s, g.owed[i][b], d)
    BY DEF AllOwed
  <2>1. OwedOf(op, arg, i, r, g.owed[i][b], d)
    BY <1>0 DEF AllOwed
  <2>2. QED
    BY <1>2, <2>1 DEF OwedOf
<1>5. /\ Seen(s, d) = r.current /\ Seen(r, d) = r.current
      /\ r.transaction # NoId => Undo(s) = Undo(r) /\ s.original = r.original
  BY <1>1, <1>2 DEF Seen, Undo
<1>6. Defined(g, b, s, d)
  BY <1>0, <1>1, <1>2, <1>5 DEF RestoresOf, Defined
<1>7. ASSUME NEW v
      PROVE  /\ AbortGives(r, d, v) => AbortGives(s, d, v)
             /\ SubAbortGives(r, d, v) => SubAbortGives(s, d, v)
  BY <1>1, <1>2, <1>5 DEF AbortGives, SubAbortGives
<1>8. RestoresOf(g, op, b, s, d)
  BY <1>0, <1>6, <1>7 DEF RestoresOf
<1>9. QED
  BY <1>3, <1>4, <1>8 DEF HistoryOf

\* A block is read into the cache.
LEMMA ReadHistory ==
    ASSUME NEW c, NEW g, NEW op, NEW arg, NEW b, NEW d, NEW s,
           HistoryOf(c, g, op, arg, b, Absent, d),
           s.cached, s.current = d, s.original = NoData, s.parent = NoData,
           s.transaction = NoId, s.previous = NoId, ~s.dirty
    PROVE  HistoryOf(c, g, op, arg, b, s, d)
<1>1. VersionsOf(c, g, op, s, d)
  BY DEF VersionsOf
<1>2. AllOwed(g, op, arg, b, s, d)
  <2> SUFFICES ASSUME NEW i \in Ids PROVE OwedOf(op, arg, i, s, g.owed[i][b], d)
    BY DEF AllOwed
  <2>1. OwedOf(op, arg, i, Absent, g.owed[i][b], d)
    BY DEF HistoryOf, AllOwed
  <2>2. QED
    BY <2>1, AbsentIs DEF OwedOf
<1>3. ASSUME NEW v
      PROVE  /\ AbortGives(Absent, d, v) => AbortGives(s, d, v)
             /\ SubAbortGives(Absent, d, v) => SubAbortGives(s, d, v)
  BY AbsentIs DEF AbortGives, SubAbortGives, Seen
<1>4. Defined(g, b, s, d)
  BY DEF Defined, Seen
<1>5. RestoresOf(g, op, b, s, d)
  BY <1>3, <1>4 DEF HistoryOf, RestoresOf
<1>6. QED
  BY <1>1, <1>2, <1>5 DEF HistoryOf

\* Whether a block is in the list of unused ones does not matter.
LEMMA UnusedHistory ==
    ASSUME NEW c, NEW g, NEW op, NEW arg, NEW b, NEW d, NEW r, NEW s,
           HistoryOf(c, g, op, arg, b, r, d),
           s.cached = r.cached, s.current = r.current, s.original = r.original,
           s.parent = r.parent, s.transaction = r.transaction, s.previous = r.previous,
           s.dirty = r.dirty, s.discard = r.discard
    PROVE  HistoryOf(c, g, op, arg, b, s, d)
<1>1. Data(s) = Data(r) /\ Undo(s) = Undo(r) /\ Seen(s, d) = Seen(r, d)
  BY DEF Data, WritesOriginal, Undo, Seen
<1>2. VersionsOf(c, g, op, s, d)
  BY <1>1 DEF HistoryOf, VersionsOf
<1>3. AllOwed(g, op, arg, b, s, d)
  <2> SUFFICES ASSUME NEW i \in Ids PROVE OwedOf(op, arg, i, s, g.owed[i][b], d)
    BY DEF AllOwed
  <2>1. OwedOf(op, arg, i, r, g.owed[i][b], d)
    BY DEF HistoryOf, AllOwed
  <2>2. QED
    BY <1>1, <2>1 DEF OwedOf
<1>4. ASSUME NEW v
      PROVE  /\ AbortGives(r, d, v) => AbortGives(s, d, v)
             /\ SubAbortGives(r, d, v) => SubAbortGives(s, d, v)
  BY <1>1 DEF AbortGives, SubAbortGives
<1>5. RestoresOf(g, op, b, s, d)
  BY <1>1, <1>4 DEF HistoryOf, RestoresOf, Defined
<1>6. QED
  BY <1>2, <1>3, <1>5 DEF HistoryOf

-----------------------------------------------------------------------------
(***************************************************************************)
(* The second inductive invariant: every block has its history, what was   *)
(* written and is not done yet is on the disk, a call that commits has     *)
(* nothing to restore, and a block that is being freed does not matter.    *)
(***************************************************************************)
HistoryAt(b) == HistoryOf(Cache, Ghosts, call.op, call.arg, b, block[b], disk[b])

WrittenBack ==
    \A w \in Writers : /\ toWrite[w] \cap written[w] = {}
                       /\ \A b \in written[w] : disk[b] = Data(block[b])

Relied ==
    /\ call.op = "end" => base = Nothing
    /\ Committing(call.op) => subBase = Nothing
    /\ call.op = "discard" => call.arg \notin defined

Inv2 == (\A b \in Blocks : HistoryAt(b)) /\ WrittenBack /\ Relied /\ UncommittedOffDisk

\* What the client's variables are called in the record of them.
LEMMA GhostsAre ==
    /\ Ghosts.active = active /\ Ghosts.committed = committed /\ Ghosts.defined = defined
    /\ Ghosts.base = base /\ Ghosts.subBase = subBase /\ Ghosts.owed = owed
BY DEF Ghosts

\* What the invariants say of one block.
LEMMA BlockParts ==
    ASSUME Inv1, ActiveOK, Inv2, NEW b \in Blocks
    PROVE  /\ block[b] \in BlockType /\ ShapeOf(Cache, block[b]) /\ disk[b] \in Values
           /\ StampsOf(Ghosts, disk[b]) /\ HistoryAt(b)
           /\ \A i \in Ids : owed[i][b] \in Values \cup {NoData}
<1>1. block[b] \in BlockType /\ ShapeOf(Cache, block[b]) /\ Types
  BY InvParts
<1>2. disk[b] \in Values /\ \A i \in Ids : owed[i][b] \in Values \cup {NoData}
  BY <1>1 DEF Types, OtherTypes, ActiveOK, GhostTypes
<1>3. StampsOf(Ghosts, disk[b])
  <2>1. \A x \in active \cup committed : x \in Nat
    BY <1>1, BlockCacheAssumption DEF Types, OtherTypes, ActiveOK, GhostTypes, Values
  <2>2. \A x \in committed, y \in active : x < y
    BY DEF ActiveOK, StampsOK
  <2>3. disk[b] \in committed
    BY DEF Inv2, UncommittedOffDisk
  <2>4. QED
    BY <2>1, <2>2, <2>3, GhostsAre DEF StampsOf
<1>4. QED
  BY <1>1, <1>2, <1>3 DEF Inv2

\* A call that finishes gives each block its history.
LEMMA FinishHistory ==
    ASSUME NEW c, CacheOK(c, nextId), nextId \in Nat,
           NEW op \in {"end", "detach", "discard", "sync"}, NEW arg,
           NEW hook \in BOOLEAN, Finish(c, op, arg, hook), CanFinish(c, nextId, op, arg),
           NEW g, NEW b \in Blocks, NEW d,
           HistoryOf(c, g, op, arg, b, c.block[b], d), StampsOf(g, d),
           op = "end" => g.base[b] = NoData, Committing(op) => g.subBase[b] = NoData,
           op = "detach" => Max(g.active) \in g.active,
           op = "discard" => arg \notin g.defined
    PROVE  HistoryOf(Cache', g, call'.op, call'.arg, b, block'[b], d)
<1> DEFINE r == c.block[b]
<1>0. r \in BlockType /\ ShapeOf(c, r)
  BY CacheParts
<1>1. Committing(op) => Closing(c, nextId, op, arg, {})
  BY DEF CanFinish
<1>2. /\ Committing(op) => /\ arg \in Ids /\ IsOpen(c, arg)
                           /\ r.transaction \in {NoId, arg}
                           /\ r.transaction = arg => r.previous = NoId
      /\ op = "detach" => /\ nextId \in Ids /\ c.transaction[arg].hasSub
                          /\ r.transaction = arg => DividedBlock(r)
  <2>1. ASSUME Committing(op)
        PROVE  /\ arg \in Ids /\ IsOpen(c, arg)
               /\ r.transaction = arg => r.previous = NoId
               /\ op = "detach" => /\ nextId \in Ids /\ c.transaction[arg].hasSub
                                   /\ r.transaction = arg => DividedBlock(r)
    BY <1>1, <2>1 DEF Closing, InTransaction, Divided
  <2>2. ASSUME Committing(op) PROVE r.transaction \in {NoId, arg}
    BY <2>1, <2>2, OnlyOpen
  <2>3. QED
    BY <2>1, <2>2 DEF Committing
<1>3. FinishedCall(c, op, arg)
  BY <1>2, FinishIs DEF Committing
<1>4. Cache'.transaction = transaction'
  BY DEF Cache
<1> HIDE DEF r
<1>5. CASE op = "end"
  <2>1. /\ call'.op = "none" /\ transaction'[arg].state = "closed"
        /\ block'[b] = IF r.transaction = arg THEN EndedBlock(r, arg) ELSE r
    BY <1>3, <1>5 DEF FinishedCall, NoCall, r
  <2>2. arg \in Ids /\ r.transaction \in {NoId, arg} /\ (r.transaction = arg => r.previous = NoId)
    BY <1>2, <1>5 DEF Committing
  <2>3. ~Committing(call'.op) /\ g.base[b] = NoData /\ g.subBase[b] = NoData
    BY <1>5, <2>1 DEF Committing
  <2>4. HistoryOf(c, g, "end", arg, b, r, d)
    BY <1>5 DEF r
  <2>5. QED
    BY <1>0, <1>4, <2>1, <2>2, <2>3, <2>4, EndedHistory
<1>6. CASE op = "detach"
  <2>1. /\ call'.op = "none" /\ transaction'[arg].state = "closed"
        /\ transaction'[nextId].state = "open" /\ ~transaction'[nextId].hasSub
        /\ block'[b] = IF r.transaction = arg THEN Detached(r, arg, nextId) ELSE r
    BY <1>3, <1>6 DEF FinishedCall, NoCall, r
  <2>2. /\ arg \in Ids /\ r.transaction \in {NoId, arg} /\ nextId \in Ids
        /\ r.transaction = arg => r.previous = NoId /\ DividedBlock(r)
        /\ c.transaction[arg].hasSub
    BY <1>2, <1>6 DEF Committing
  <2>3. ~Committing(call'.op) /\ g.subBase[b] = NoData /\ Max(g.active) \in g.active
    BY <1>6, <2>1 DEF Committing
  <2>4. HistoryOf(c, g, "detach", arg, b, r, d)
    BY <1>6 DEF r
  <2>5. /\ Cache'.transaction[arg].state = "closed" /\ IsOpen(Cache', nextId)
        /\ ~Cache'.transaction[nextId].hasSub
    BY <1>4, <2>1 DEF IsOpen
  <2>6. QED
    BY <1>0, <2>1, <2>2, <2>3, <2>4, <2>5, DetachedHistory
<1>7. CASE op = "discard"
  <2>1. /\ call'.op = "none" /\ transaction' = c.transaction
        /\ block'[b] = IF b = arg THEN DiscardedBlock(r) ELSE r
    BY <1>3, <1>7 DEF FinishedCall, NoCall, r
  <2>2. ~Committing(op) /\ ~Committing(call'.op)
    BY <1>7, <2>1 DEF Committing
  <2>3. HistoryOf(c, g, op, arg, b, r, d)
    BY DEF r
  <2>4. HistoryOf(c, g, call'.op, call'.arg, b, block'[b], d)
    <3>1. CASE b = arg
      <4>1. r.previous = NoId /\ b \notin g.defined
        BY <1>7, <3>1 DEF CanFinish, r
      <4>2. block'[b] = DiscardedBlock(r)
        BY <2>1, <3>1
      <4>3. QED
        BY <1>0, <2>2, <2>3, <4>1, <4>2, DiscardHistory
    <3>2. CASE b # arg
      BY <2>1, <2>2, <2>3, <3>2, SameHistory
    <3>3. QED
      BY <3>1, <3>2
  <2>5. QED
    BY <1>4, <2>1, <2>4, SameHistory
<1>8. CASE op = "sync"
  <2>1. call'.op = "wait" /\ transaction' = c.transaction /\ block'[b] = r
    BY <1>3, <1>8 DEF FinishedCall, r
  <2>2. ~Committing(op) /\ ~Committing(call'.op)
    BY <1>8, <2>1 DEF Committing
  <2>3. HistoryOf(c, g, op, arg, b, r, d)
    BY DEF r
  <2>4. QED
    BY <1>4, <2>1, <2>2, <2>3, SameHistory
<1>9. QED
  BY <1>5, <1>6, <1>7, <1>8

\* A call of the client that writes blocks first keeps its history until it finishes.
LEMMA CallInv2 ==
    ASSUME Inv1, Inv1', ActiveOK', Inv2, Idle, NEW op \in {"end", "detach", "discard", "sync"},
           NEW arg, NEW hook \in BOOLEAN, NEW S \in SUBSET Blocks, Call(op, arg, hook, S),
           op # "sync" => BusyWriting = {},
           Committing(op) => Closing(Cache, nextId, op, arg, S),
           op = "discard" => arg \in Blocks /\ (block[arg].previous # NoId => arg \in S),
           \A b \in Blocks : HistoryOf(Cache, Ghosts', op, arg, b, block[b], disk[b]),
           op = "end" => base' = Nothing, Committing(op) => subBase' = Nothing,
           op = "detach" => active' # {}, op = "discard" => arg \notin defined',
           committed \subseteq committed'
    PROVE  Inv2'
<1>0. /\ CacheOK(Cache, nextId) /\ nextId \in Nat /\ Types
      /\ Cache.block = block /\ Cache.transaction = transaction /\ Cache.events = events
  BY InvParts
<1>1. disk' = disk /\ written' = written
  BY DEF Call
<1>2. Busy("client") = {}
  <2>1. call.op = "none"
    BY DEF Idle, NoCall
  <2>2. QED
    BY <2>1 DEF Inv1, CallOK
<1>3. UncommittedOffDisk'
  BY <1>1 DEF Inv2, UncommittedOffDisk
<1>4. ASSUME NEW b \in Blocks PROVE StampsOf(Ghosts', disk[b])
  <2>1. Types'
    BY DEF Inv1
  <2>2. \A x \in active' \cup committed' : x \in Nat
    BY <2>1, BlockCacheAssumption DEF Types, OtherTypes, ActiveOK, GhostTypes, Values
  <2>3. \A x \in committed', y \in active' : x < y
    BY DEF ActiveOK, StampsOK
  <2>4. disk[b] \in committed'
    BY DEF Inv2, UncommittedOffDisk
  <2>5. Ghosts'.active = active' /\ Ghosts'.committed = committed'
    BY DEF Ghosts
  <2>6. QED
    BY <2>2, <2>3, <2>4, <2>5 DEF StampsOf
<1>5. CASE S # {}
  <2>1. /\ toWrite' = [toWrite EXCEPT !["client"] = S]
        /\ call' = [op |-> op, arg |-> arg, hook |-> hook]
        /\ UNCHANGED <<block, transaction, nextId, events, written>>
    BY <1>5 DEF Call
  <2>2. call'.op = op /\ call'.arg = arg /\ Cache' = Cache
    BY <2>1 DEF Cache
  <2>3. \A b \in Blocks : HistoryAt(b)'
    BY <1>1, <2>1, <2>2 DEF HistoryAt
  <2>4. WrittenBack'
    <3>1. toWrite \in [Writers -> SUBSET Blocks] /\ written["client"] = {}
      BY <1>0, <1>2 DEF Types, OtherTypes, ActiveOK, GhostTypes, Busy
    <3>2. \A w \in Writers : w # "client" => toWrite'[w] = toWrite[w]
      BY <2>1, <3>1
    <3>3. QED
      BY <1>1, <2>1, <3>1, <3>2 DEF Inv2, WrittenBack, Writers
  <2>5. Relied'
    BY <2>2 DEF Relied
  <2>6. QED
    BY <1>3, <2>3, <2>4, <2>5 DEF Inv2
<1>6. CASE S = {}
  <2>1. Finish(Cache, op, arg, hook) /\ toWrite' = toWrite
    BY <1>6 DEF Call
  <2>2. CanFinish(Cache, nextId, op, arg)
    BY <1>0, <1>6 DEF CanFinish
  <2>3. ASSUME NEW b \in Blocks PROVE HistoryAt(b)'
    <3>1. /\ Ghosts'.base = base' /\ Ghosts'.subBase = subBase' /\ Ghosts'.active = active'
          /\ Ghosts'.defined = defined'
      BY DEF Ghosts
    <3>2. /\ op = "end" => Ghosts'.base[b] = NoData
          /\ Committing(op) => Ghosts'.subBase[b] = NoData
          /\ op = "discard" => arg \notin Ghosts'.defined
      BY <3>1 DEF Nothing
    <3>3. op = "detach" => Max(Ghosts'.active) \in Ghosts'.active
      <4>1. active' \in SUBSET Values
        BY DEF Inv1, Types, OtherTypes, ActiveOK, GhostTypes
      <4>2. QED
        BY <3>1, <4>1, MaxActive
    <3>4. HistoryOf(Cache, Ghosts', op, arg, b, Cache.block[b], disk[b])
      BY <1>0
    <3>5. StampsOf(Ghosts', disk[b])
      BY <1>4
    <3>6. HistoryOf(Cache', Ghosts', call'.op, call'.arg, b, block'[b], disk[b])
      BY <1>0, <2>1, <2>2, <3>2, <3>3, <3>4, <3>5, FinishHistory
    <3>7. QED
      BY <1>1, <3>6 DEF HistoryAt
  <2>4. FinishedCall(Cache, op, arg)
    <3>1. Committing(op) => arg \in Ids /\ IsOpen(Cache, arg)
      BY DEF Closing
    <3>2. op = "detach" => nextId \in Ids
      BY DEF Closing, Committing
    <3>3. QED
      BY <1>0, <2>1, <3>1, <3>2, FinishIs
  <2>5. WrittenBack'
    <3>1. CASE op = "sync"
      <4>1. block' = block
        BY <1>0, <2>4, <3>1 DEF FinishedCall
      <4>2. QED
        BY <1>1, <2>1, <4>1 DEF Inv2, WrittenBack
    <3>2. CASE op # "sync"
      <4>1. \A w \in Writers : written[w] = {}
        BY <3>2 DEF BusyWriting, Busy, Writers
      <4>2. QED
        BY <1>1, <4>1 DEF WrittenBack
    <3>3. QED
      BY <3>1, <3>2
  <2>6. Relied'
    <3>1. call'.op \in {"none", "wait"}
      BY <2>4 DEF FinishedCall, NoCall
    <3>2. QED
      BY <3>1 DEF Relied, Committing
  <2>7. QED
    BY <1>3, <2>3, <2>5, <2>6 DEF Inv2
<1>7. QED
  BY <1>5, <1>6

\* cache_end_transaction()
LEMMA EndInv2 ==
    ASSUME Inv1, ActiveOK, Inv1', ActiveOK', Inv2, NEW i \in Ids, End(i)
    PROVE  Inv2'
<1>1. /\ Idle /\ BusyWriting = {} /\ Open(i) /\ Call("end", i, TRUE, InBoth(i))
      /\ committed' = committed \cup active /\ active' = {}
      /\ owed' = [owed EXCEPT ![i] = Owes(i)]
      /\ base' = Nothing /\ subBase' = Nothing /\ UNCHANGED <<stamp, defined>>
  BY DEF End, EndTransaction, TransactionLock
<1>2. /\ IsOpen(Cache, i) /\ Cache.block = block /\ Types
  BY <1>1, InvParts
<1>3. InBoth(i) \in SUBSET Blocks /\ Closing(Cache, nextId, "end", i, InBoth(i))
  BY <1>2 DEF InBoth, InTransaction, Closing
<1>4. ASSUME NEW b \in Blocks
      PROVE  HistoryOf(Cache, Ghosts', "end", i, b, block[b], disk[b])
  <2>1. /\ block[b] \in BlockType /\ StampsOf(Ghosts, disk[b])
        /\ HistoryOf(Cache, Ghosts, call.op, call.arg, b, block[b], disk[b])
    BY BlockParts DEF HistoryAt
  <2>2. ~Committing(call.op)
    BY <1>1 DEF Idle, NoCall, Committing
  <2>3. /\ Ghosts'.committed = Ghosts.committed \cup Ghosts.active
        /\ Ghosts'.defined = Ghosts.defined /\ Ghosts'.owed = owed' /\ Ghosts.owed = owed
        /\ Ghosts'.base[b] = NoData /\ Ghosts'.subBase[b] = NoData
    BY <1>1 DEF Ghosts, Nothing
  <2>4. /\ \A j \in Ids : j # i => owed'[j][b] = owed[j][b]
        /\ owed'[i][b] = IF block[b].transaction = i /\ ~block[b].discard
                         THEN block[b].current ELSE NoData
    <3>1. owed'[i] = Owes(i) /\ \A j \in Ids : j # i => owed'[j] = owed[j]
      BY <1>1, <1>2 DEF Types, OtherTypes, ActiveOK, GhostTypes
    <3>2. QED
      BY <3>1 DEF Owes
  <2> DEFINE g == Ghosts
             h == Ghosts'
  <2>5. /\ h.committed = g.committed \cup g.active /\ h.defined = g.defined
        /\ \A j \in Ids : j # i => h.owed[j][b] = g.owed[j][b]
        /\ h.owed[i][b] = IF block[b].transaction = i /\ ~block[b].discard
                          THEN block[b].current ELSE NoData
        /\ h.base[b] = NoData /\ h.subBase[b] = NoData
        /\ HistoryOf(Cache, g, call.op, call.arg, b, block[b], disk[b])
        /\ StampsOf(g, disk[b])
    BY <2>1, <2>3, <2>4
  <2> HIDE DEF g, h
  <2>6. HistoryOf(Cache, h, "end", i, b, block[b], disk[b])
    BY <2>1, <2>2, <2>5, EndStartHistory
  <2>7. QED
    BY <2>6 DEF h
<1>5. PICK hook \in BOOLEAN : hook = TRUE
  OBVIOUS
<1>6. QED
  BY <1>1, <1>3, <1>4, <1>5, CallInv2 DEF Committing

\* cache_detach_sub_transaction()
LEMMA DetachInv2 ==
    ASSUME Inv1, ActiveOK, Inv1', ActiveOK', Inv2, NEW i \in Ids, Detach(i),
           Divided(Cache, i)
    PROVE  Inv2'
<1>1. /\ Idle /\ BusyWriting = {} /\ Open(i) /\ Call("detach", i, TRUE, InBoth(i))
      /\ transaction[i].hasSub /\ nextId \in Ids
      /\ committed' = committed \cup (active \ {Max(active)})
      /\ active' = {Max(active)} /\ base' = subBase /\ subBase' = Nothing
      /\ UNCHANGED <<stamp, defined>>
  BY DEF Detach, DetachSubTransaction, TransactionLock
<1>2. /\ IsOpen(Cache, i) /\ Cache.block = block /\ Types
      /\ Cache.transaction = transaction
  BY <1>1, InvParts
<1>3. InBoth(i) \in SUBSET Blocks
  BY <1>2 DEF InBoth, InTransaction
<1>4. Closing(Cache, nextId, "detach", i, InBoth(i))
  <2>1. \A b \in InTransaction(Cache, i) : Cache.block[b].previous # NoId => b \in InBoth(i)
    BY <1>2 DEF InBoth
  <2>2. QED
    BY <1>1, <1>2, <2>1 DEF Closing
<1>5. Max(active') = Max(active)
  <2>1. Max(active) \in Values
    <3>1. active # {} /\ active \in SUBSET Values
      BY <1>1, <1>2 DEF ActiveOK, StampsOK, Idle, NoCall, Types, OtherTypes, GhostTypes
    <3>2. QED
      BY <3>1, MaxActive
  <2>2. {Max(active)} \in SUBSET Values /\ {Max(active)} # {}
    BY <2>1
  <2>3. Max({Max(active)}) \in {Max(active)}
    BY <2>2, MaxActive
  <2>4. QED
    BY <1>1, <2>3
<1>6. ASSUME NEW b \in Blocks
      PROVE  HistoryOf(Cache, Ghosts', "detach", i, b, block[b], disk[b])
  <2>1. /\ block[b] \in BlockType /\ StampsOf(Ghosts, disk[b]) /\ ShapeOf(Cache, block[b])
        /\ HistoryOf(Cache, Ghosts, call.op, call.arg, b, block[b], disk[b])
    BY BlockParts DEF HistoryAt
  <2>2. ~Committing(call.op)
    BY <1>1 DEF Idle, NoCall, Committing
  <2>3. /\ Ghosts'.committed = Ghosts.committed \cup (Ghosts.active \ {Max(Ghosts.active)})
        /\ Ghosts'.active = {Max(Ghosts.active)} /\ Max(Ghosts'.active) = Max(Ghosts.active)
        /\ Ghosts'.defined = Ghosts.defined /\ Ghosts'.owed = owed' /\ Ghosts.owed = owed
        /\ Ghosts'.base[b] = Ghosts.subBase[b] /\ Ghosts'.subBase[b] = NoData
    BY <1>1, <1>5 DEF Ghosts, Nothing
  <2>6. block[b].transaction # i \/ block[b].discard => block[b].parent = NoData
    <3>1. block[b].transaction \in {NoId, i}
      BY <1>2, InvParts, OnlyOpen
    <3>2. block[b].transaction = NoId => block[b].parent = NoData
      BY <2>1 DEF ShapeOf
    <3>3. block[b].transaction = i /\ block[b].discard => block[b].parent = NoData
      BY <1>2 DEF Divided, DividedBlock, InTransaction
    <3>4. QED
      BY <3>1, <3>2, <3>3
  <2>4. /\ \A j \in Ids : j # i => owed'[j][b] = owed[j][b]
        /\ owed'[i][b] = IF block[b].transaction # i \/ block[b].discard THEN NoData
                         ELSE IF block[b].parent = Current THEN block[b].current
                         ELSE block[b].parent
    <3> DEFINE f == [x \in Blocks |->
            CASE block[x].transaction # i \/ block[x].discard -> NoData
              [] block[x].parent = Current -> block[x].current
              [] OTHER -> block[x].parent]
    <3>1. owed' = [owed EXCEPT ![i] = f]
      BY DEF Detach
    <3>2. f[b] = IF block[b].transaction # i \/ block[b].discard THEN NoData
                 ELSE IF block[b].parent = Current THEN block[b].current
                 ELSE block[b].parent
      <4>1. block[b].transaction # i \/ block[b].discard => block[b].parent # Current
        BY <2>6
      <4>2. CASE block[b].transaction # i \/ block[b].discard
        BY <4>1, <4>2
      <4>3. CASE ~(block[b].transaction # i \/ block[b].discard) /\ block[b].parent = Current
        BY <4>3
      <4>4. CASE ~(block[b].transaction # i \/ block[b].discard) /\ block[b].parent # Current
        BY <4>4
      <4>5. QED
        BY <4>2, <4>3, <4>4
    <3> HIDE DEF f
    <3>3. owed'[i] = f /\ \A j \in Ids : j # i => owed'[j] = owed[j]
      BY <1>2, <3>1 DEF Types, OtherTypes, ActiveOK, GhostTypes
    <3>4. QED
      BY <3>2, <3>3
  <2> DEFINE g == Ghosts
             h == Ghosts'
             r == block[b]
             d == disk[b]
  <2>5. /\ r \in BlockType /\ StampsOf(g, d) /\ ShapeOf(Cache, r)
        /\ HistoryOf(Cache, g, call.op, call.arg, b, r, d)
        /\ h.committed = g.committed \cup (g.active \ {Max(g.active)})
        /\ h.active = {Max(g.active)} /\ Max(h.active) = Max(g.active)
        /\ h.defined = g.defined
        /\ \A j \in Ids : j # i => h.owed[j][b] = g.owed[j][b]
        /\ h.owed[i][b] = IF r.transaction # i \/ r.discard THEN NoData
                          ELSE IF r.parent = Current THEN r.current ELSE r.parent
        /\ h.base[b] = g.subBase[b] /\ h.subBase[b] = NoData
    BY <2>1, <2>3, <2>4
  <2> HIDE DEF g, h, r, d
  <2>7. HistoryOf(Cache, h, "detach", i, b, r, d)
    BY <2>2, <2>5, DetachStartHistory
  <2>8. QED
    BY <2>7 DEF h, r, d
<1>7. PICK hook \in BOOLEAN : hook = TRUE
  OBVIOUS
<1>8. QED
  BY <1>1, <1>3, <1>4, <1>6, <1>7, CallInv2 DEF Committing

\* block_cache_discard()
LEMMA FreeInv2 ==
    ASSUME Inv1, ActiveOK, Inv1', ActiveOK', Inv2, NEW b \in Blocks, Free(b)
    PROVE  Inv2'
<1> DEFINE S == {x \in {b} : block[x].previous # NoId}
<1>1. /\ Idle /\ BusyWriting = {} /\ Call("discard", b, FALSE, S)
      /\ defined' = defined \ {b}
      /\ UNCHANGED <<stamp, active, committed, base, subBase, owed>>
  BY DEF Free, CacheDiscard, TransactionLock
<1>2. S \in SUBSET Blocks /\ (block[b].previous # NoId => b \in S)
  OBVIOUS
<1> HIDE DEF S
<1>3. ASSUME NEW x \in Blocks
      PROVE  HistoryOf(Cache, Ghosts', "discard", b, x, block[x], disk[x])
  <2>1. HistoryOf(Cache, Ghosts, call.op, call.arg, x, block[x], disk[x])
    BY BlockParts DEF HistoryAt
  <2>2. ~Committing(call.op) /\ ~Committing("discard")
    BY <1>1 DEF Idle, NoCall, Committing
  <2>3. /\ Ghosts'.active = Ghosts.active /\ Ghosts'.committed = Ghosts.committed
        /\ Ghosts'.base = Ghosts.base /\ Ghosts'.subBase = Ghosts.subBase
        /\ Ghosts'.owed = Ghosts.owed
        /\ x \in Ghosts'.defined => x \in Ghosts.defined
    BY <1>1 DEF Ghosts
  <2>4. QED
    BY <2>1, <2>2, <2>3, SameHistory
<1>4. PICK hook \in BOOLEAN : hook = FALSE
  OBVIOUS
<1>5. QED
  BY <1>1, <1>2, <1>3, <1>4, CallInv2 DEF Committing

\* block_cache_sync() and cache_sync_transaction()
LEMMA SyncInv2 ==
    ASSUME Inv1, ActiveOK, Inv1', ActiveOK', Inv2, NEW arg, NEW S \in SUBSET Blocks, Idle,
           UNCHANGED ghosts, Call("sync", arg, FALSE, S)
    PROVE  Inv2'
<1>1. Ghosts' = Ghosts /\ committed' = committed
  BY DEF ghosts, Ghosts
<1>2. ASSUME NEW x \in Blocks
      PROVE  HistoryOf(Cache, Ghosts', "sync", arg, x, block[x], disk[x])
  <2>1. HistoryOf(Cache, Ghosts, call.op, call.arg, x, block[x], disk[x])
    BY BlockParts DEF HistoryAt
  <2>2. ~Committing(call.op) /\ ~Committing("sync")
    BY DEF Idle, NoCall, Committing
  <2>3. QED
    BY <1>1, <2>1, <2>2, SameHistory
<1>3. PICK hook \in BOOLEAN : hook = FALSE
  OBVIOUS
<1>4. QED
  BY <1>1, <1>2, <1>3, CallInv2 DEF Committing

\* A step of the client while no block is being written: only the histories matter.
LEMMA LockedInv2 ==
    ASSUME Inv2, TransactionLock, UNCHANGED <<written, call, disk, committed>>,
           \A b \in Blocks : HistoryAt(b)'
    PROVE  Inv2'
<1>1. WrittenBack'
  BY DEF WrittenBack, TransactionLock, BusyWriting, Busy, Writers
<1>2. Relied'
  BY DEF Relied, TransactionLock, Idle, NoCall, Committing
<1>3. UncommittedOffDisk'
  BY DEF Inv2, UncommittedOffDisk
<1>4. QED
  BY <1>1, <1>2, <1>3 DEF Inv2

\* cache_start_transaction()
LEMMA StartInv2 ==
    ASSUME Inv1, ActiveOK, Inv2, Start
    PROVE  Inv2'
<1>1. /\ TransactionLock /\ (\A i \in Ids : ~Open(i))
      /\ UNCHANGED <<block, written, call, disk>>
      /\ base' = Kept /\ subBase' = Nothing /\ UNCHANGED <<committed, defined, owed>>
  BY DEF Start, StartTransaction
<1>2. ~Committing(call.op)
  BY <1>1 DEF TransactionLock, Idle, NoCall, Committing
<1>3. ASSUME NEW b \in Blocks PROVE HistoryAt(b)'
  <2>1. /\ block[b] \in BlockType /\ ShapeOf(Cache, block[b])
        /\ HistoryOf(Cache, Ghosts, call.op, call.arg, b, block[b], disk[b])
    BY BlockParts DEF HistoryAt
  <2>2. block[b].transaction = NoId /\ block[b].parent = NoData
    <3>1. block[b].transaction \in Ids \cup {NoId}
      BY <2>1 DEF BlockType
    <3>2. block[b].transaction = NoId
      BY <1>1, <2>1, <3>1, InvParts DEF ShapeOf
    <3>3. QED
      BY <2>1, <3>2 DEF ShapeOf
  <2>3. /\ Ghosts'.committed = Ghosts.committed /\ Ghosts'.defined = Ghosts.defined
        /\ Ghosts'.owed = Ghosts.owed
        /\ Ghosts'.base[b] = IF b \in Ghosts.defined THEN Seen(block[b], disk[b]) ELSE NoData
        /\ Ghosts'.subBase[b] = NoData
    BY <1>1 DEF Ghosts, Kept, View, Seen, Nothing
  <2>4. HistoryOf(Cache', Ghosts', call.op, call.arg, b, block[b], disk[b])
    BY <1>2, <2>1, <2>2, <2>3, StartHistory
  <2>5. QED
    BY <1>1, <2>4 DEF HistoryAt
<1>4. QED
  BY <1>1, <1>3, LockedInv2

\* cache_start_sub_transaction()
LEMMA StartSubInv2 ==
    ASSUME Inv1, ActiveOK, Inv2, NEW i \in Ids, StartSub(i)
    PROVE  Inv2'
<1>1. /\ TransactionLock /\ Open(i) /\ StartSubTransaction(i)
      /\ UNCHANGED <<written, call, disk>>
      /\ stamp < MaxStamp /\ stamp' = stamp + 1 /\ active' = active \cup {stamp'}
      /\ subBase' = Kept /\ UNCHANGED <<committed, defined, base, owed>>
  BY DEF StartSub, StartSubTransaction
<1>2. ~Committing(call.op)
  BY <1>1 DEF TransactionLock, Idle, NoCall, Committing
<1>3. active' \ {Max(active')} = active
  <2>1. /\ stamp \in Nat /\ stamp' \in Values /\ active \in SUBSET Values
        /\ \A x \in active : x \in Nat /\ x <= stamp
    BY <1>1, BlockCacheAssumption DEF Inv1, Types, OtherTypes, ActiveOK, StampsOK, GhostTypes, Values
  <2>2. Max(active') \in active' /\ \A x \in active' : x <= Max(active')
    <3>1. active' \in SUBSET Values /\ active' # {}
      BY <1>1, <2>1
    <3>2. QED
      BY <3>1, MaxActive
  <2>3. stamp' <= Max(active') /\ stamp' = stamp + 1
    BY <1>1, <2>2
  <2>4. ASSUME Max(active') \in active PROVE FALSE
    <3>1. Max(active') \in Nat /\ Max(active') <= stamp
      BY <2>1, <2>4
    <3>2. QED
      BY <2>1, <2>3, <3>1
  <2>5. QED
    BY <1>1, <2>1, <2>2, <2>4
<1>4. ASSUME NEW b \in Blocks PROVE HistoryAt(b)'
  <2>1. /\ block[b] \in BlockType /\ ShapeOf(Cache, block[b]) /\ StampsOf(Ghosts, disk[b])
        /\ HistoryOf(Cache, Ghosts, call.op, call.arg, b, block[b], disk[b])
    BY BlockParts DEF HistoryAt
  <2>2. block'[b] = IF block[b].transaction # NoId THEN StartedSub(block[b]) ELSE block[b]
    <3>1. block[b].transaction \in {NoId, i}
      BY <1>1, InvParts, OnlyOpen
    <3>2. block'[b] = IF block[b].transaction = i THEN StartedSub(block[b]) ELSE block[b]
      BY <1>1, StartSubBlocks
    <3>3. QED
      BY <3>1, <3>2
  <2>3. /\ Ghosts'.committed = Ghosts.committed /\ Ghosts'.defined = Ghosts.defined
        /\ Ghosts'.owed = Ghosts.owed /\ Ghosts'.base = Ghosts.base
        /\ Ghosts'.active \ {Max(Ghosts'.active)} = Ghosts.active
        /\ Ghosts.active \subseteq Ghosts'.active
        /\ Ghosts'.subBase[b] = IF b \in Ghosts.defined THEN Seen(block[b], disk[b])
                                ELSE NoData
    BY <1>1, <1>3 DEF Ghosts, Kept, View, Seen
  <2> DEFINE g == Ghosts
             h == Ghosts'
             r == block[b]
             d == disk[b]
  <2>4. /\ r \in BlockType /\ ShapeOf(Cache, r) /\ StampsOf(g, d)
        /\ HistoryOf(Cache, g, call.op, call.arg, b, r, d)
        /\ block'[b] = IF r.transaction # NoId THEN StartedSub(r) ELSE r
        /\ h.committed = g.committed /\ h.defined = g.defined
        /\ h.owed = g.owed /\ h.base = g.base
        /\ h.active \ {Max(h.active)} = g.active /\ g.active \subseteq h.active
        /\ h.subBase[b] = IF b \in g.defined THEN Seen(r, d) ELSE NoData
    BY <2>1, <2>2, <2>3
  <2> HIDE DEF g, h, r, d
  <2>5. HistoryOf(Cache', h, call.op, call.arg, b, block'[b], d)
    BY <1>2, <2>4, StartSubHistory
  <2>6. QED
    BY <1>1, <2>5 DEF HistoryAt, h, d
<1>5. QED
  BY <1>1, <1>4, LockedInv2

\* cache_abort_transaction(): and what is seen is what was there before.
LEMMA AbortInv2 ==
    ASSUME Inv1, ActiveOK, Inv2, NEW i \in Ids, Abort(i)
    PROVE  Inv2' /\ \A b \in Known(base) : View'[b] = base[b]
<1>1. /\ TransactionLock /\ Open(i) /\ AbortTransaction(i)
      /\ UNCHANGED <<written, call, disk>>
      /\ active' = {} /\ defined' = Known(base) /\ base' = Nothing /\ subBase' = Nothing
      /\ UNCHANGED <<stamp, committed, owed>>
  BY DEF Abort, AbortTransaction
<1>2. ~Committing(call.op)
  BY <1>1 DEF TransactionLock, Idle, NoCall, Committing
<1>3. ASSUME NEW b \in Blocks
      PROVE  HistoryAt(b)' /\ (base[b] # NoData => Seen(block'[b], disk[b]) = base[b])
  <2>1. /\ block[b] \in BlockType /\ ShapeOf(Cache, block[b])
        /\ HistoryOf(Cache, Ghosts, call.op, call.arg, b, block[b], disk[b])
    BY BlockParts DEF HistoryAt
  <2>2. block'[b] = IF block[b].transaction # NoId THEN AbortedBlock(block[b]) ELSE block[b]
    <3>1. block[b].transaction \in {NoId, i}
      BY <1>1, InvParts, OnlyOpen
    <3>2. block'[b] = IF block[b].transaction = i THEN AbortedBlock(block[b]) ELSE block[b]
      BY <1>1, AbortBlocks
    <3>3. QED
      BY <3>1, <3>2
  <2>3. /\ Ghosts'.committed = Ghosts.committed /\ Ghosts'.owed = Ghosts.owed
        /\ b \in Ghosts'.defined => Ghosts.base[b] # NoData
        /\ Ghosts'.base[b] = NoData /\ Ghosts'.subBase[b] = NoData
    BY <1>1 DEF Ghosts, Known, Nothing
  <2>4. /\ HistoryOf(Cache', Ghosts', call.op, call.arg, b, block'[b], disk[b])
        /\ Ghosts.base[b] # NoData => Seen(block'[b], disk[b]) = Ghosts.base[b]
    BY <1>2, <2>1, <2>2, <2>3, AbortHistory
  <2>5. QED
    BY <1>1, <2>4, GhostsAre DEF HistoryAt
<1>4. Inv2'
  BY <1>1, <1>3, LockedInv2
<1>5. \A b \in Known(base) : View'[b] = base[b]
  BY <1>1, <1>3 DEF Known, View, Seen
<1>6. QED
  BY <1>4, <1>5

\* cache_abort_sub_transaction(): and what is seen is what was there before.
LEMMA AbortSubInv2 ==
    ASSUME Inv1, ActiveOK, Inv2, NEW i \in Ids, AbortSub(i)
    PROVE  Inv2' /\ \A b \in Known(subBase) : View'[b] = subBase[b]
<1>1. /\ TransactionLock /\ Open(i) /\ AbortSubTransaction(i)
      /\ UNCHANGED <<written, call, disk>>
      /\ active' = active \ {Max(active)} /\ defined' = Known(subBase) /\ subBase' = Nothing
      /\ UNCHANGED <<stamp, committed, base, owed>>
  BY DEF AbortSub, AbortSubTransaction
<1>2. ~Committing(call.op)
  BY <1>1 DEF TransactionLock, Idle, NoCall, Committing
<1>3. ASSUME NEW b \in Blocks
      PROVE  HistoryAt(b)' /\ (subBase[b] # NoData => Seen(block'[b], disk[b]) = subBase[b])
  <2>1. /\ block[b] \in BlockType /\ ShapeOf(Cache, block[b]) /\ StampsOf(Ghosts, disk[b])
        /\ HistoryOf(Cache, Ghosts, call.op, call.arg, b, block[b], disk[b])
    BY BlockParts DEF HistoryAt
  <2>0. block[b].transaction \in {NoId, i}
    BY <1>1, InvParts, OnlyOpen
  <2>2. block'[b] = IF block[b].transaction = NoId THEN block[b]
                    ELSE IF block[b].parent = NoData
                    THEN LeftBlock(block[b]) ELSE RestoredBlock(block[b])
    <3>1. block'[b] = IF block[b].transaction # i THEN block[b]
                      ELSE IF block[b].parent = NoData
                      THEN LeftBlock(block[b]) ELSE RestoredBlock(block[b])
      BY <1>1, AbortSubBlocks
    <3>2. QED
      BY <2>0, <3>1
  <2>3. /\ Ghosts'.committed = Ghosts.committed /\ Ghosts'.owed = Ghosts.owed
        /\ Ghosts'.base = Ghosts.base /\ Ghosts'.active = Ghosts.active \ {Max(Ghosts.active)}
        /\ b \in Ghosts'.defined => Ghosts.subBase[b] # NoData
        /\ Ghosts'.subBase[b] = NoData
    BY <1>1 DEF Ghosts, Known, Nothing
  <2>4. block[b].transaction # NoId => ~Cache'.transaction[block[b].transaction].hasSub
    BY <1>1, <2>0, AbortSubUpdates DEF Cache
  <2> DEFINE g == Ghosts
             h == Ghosts'
             r == block[b]
             s == block'[b]
             e == Cache'
             d == disk[b]
  <2>5. /\ r \in BlockType /\ ShapeOf(Cache, r) /\ StampsOf(g, d)
        /\ HistoryOf(Cache, g, call.op, call.arg, b, r, d)
        /\ s = IF r.transaction = NoId THEN r
               ELSE IF r.parent = NoData THEN LeftBlock(r) ELSE RestoredBlock(r)
        /\ r.transaction # NoId => ~e.transaction[r.transaction].hasSub
        /\ h.committed = g.committed /\ h.owed = g.owed /\ h.base = g.base
        /\ h.active = g.active \ {Max(g.active)}
        /\ b \in h.defined => g.subBase[b] # NoData
        /\ h.subBase[b] = NoData
    BY <2>1, <2>2, <2>3, <2>4
  <2> HIDE DEF g, h, r, s, e, d, StampsOf
  <2>6. /\ HistoryOf(e, h, call.op, call.arg, b, s, d)
        /\ g.subBase[b] # NoData => Seen(s, d) = g.subBase[b]
    BY <1>2, <2>5, AbortSubHistory
  <2>7. QED
    BY <1>1, <2>6, GhostsAre DEF HistoryAt, g, h, s, e, d
<1>4. Inv2'
  BY <1>1, <1>3, LockedInv2
<1>5. \A b \in Known(subBase) : View'[b] = subBase[b]
  BY <1>1, <1>3 DEF Known, View, Seen
<1>6. QED
  BY <1>4, <1>5

\* get_writable_cached_block()
LEMMA WriteInv2 ==
    ASSUME Inv1, ActiveOK, Inv2, NEW i \in Ids, NEW b \in Blocks, NEW cleared \in BOOLEAN,
           Write(b, i, cleared)
    PROVE  Inv2'
<1> DEFINE r == Found(b, cleared)
           isNew == cleared /\ ~block[b].cached
           v == Max(active)
           s == WrittenBlock(r, isNew, i, v)
<1>1. /\ active # {} /\ Idle /\ Open(i) /\ b \notin BusyWriting
      /\ GetWritable(b, i, cleared, v)
      /\ block' = [block EXCEPT ![b] = s]
      /\ UNCHANGED <<toWrite, written, call, disk>>
      /\ base' = [base EXCEPT ![b] = IF isNew THEN NoData ELSE @]
      /\ subBase' = [subBase EXCEPT ![b] = IF isNew THEN NoData ELSE @]
      /\ defined' = defined \cup {b}
      /\ UNCHANGED <<stamp, active, committed, owed>>
  BY DEF Write, GetWritable, WrittenBlock
<1>2. v \in active /\ v \in Values
  BY <1>1, MaxActive DEF Inv1, Types, OtherTypes, ActiveOK, GhostTypes
<1>3. ~Committing(call.op)
  BY <1>1 DEF Idle, NoCall, Committing
<1>4. \A j \in Ids : transaction'[j].hasSub = transaction[j].hasSub
  BY <1>1, WriteUpdates
<1>5. /\ block[b] \in BlockType /\ ShapeOf(Cache, block[b]) /\ StampsOf(Ghosts, disk[b])
      /\ HistoryOf(Cache, Ghosts, call.op, call.arg, b, block[b], disk[b])
      /\ disk[b] \in Values
  BY BlockParts DEF HistoryAt
<1>6. /\ r \in BlockType
      /\ block[b].cached => r = block[b] /\ ~isNew
      /\ ~block[b].cached => /\ block[b] = Absent /\ r.transaction = NoId /\ r.previous = NoId
                             /\ r.original = NoData /\ r.parent = NoData
                             /\ ~isNew => r.current = disk[b]
  BY <1>5, FoundIs
<1>7. /\ Ghosts'.committed = Ghosts.committed /\ Ghosts'.active = Ghosts.active
      /\ Ghosts'.owed = Ghosts.owed
      /\ \A x \in Blocks :
            /\ Ghosts'.base[x] = IF x = b /\ isNew THEN NoData ELSE Ghosts.base[x]
            /\ Ghosts'.subBase[x] = IF x = b /\ isNew THEN NoData ELSE Ghosts.subBase[x]
            /\ x # b => (x \in Ghosts'.defined => x \in Ghosts.defined)
      /\ v = Max(Ghosts.active) /\ v \in Ghosts.active
  <2>1. base \in [Blocks -> Values \cup {NoData}] /\ subBase \in [Blocks -> Values \cup {NoData}]
    BY DEF Inv1, Types, OtherTypes, ActiveOK, GhostTypes
  <2> HIDE DEF isNew
  <2>2. \A x \in Blocks :
            /\ base'[x] = IF x = b /\ isNew THEN NoData ELSE base[x]
            /\ subBase'[x] = IF x = b /\ isNew THEN NoData ELSE subBase[x]
            /\ x # b => (x \in defined' => x \in defined)
    BY <1>1, <2>1
  <2>3. /\ Ghosts'.committed = committed' /\ Ghosts'.active = active' /\ Ghosts'.owed = owed'
        /\ Ghosts'.base = base' /\ Ghosts'.subBase = subBase' /\ Ghosts'.defined = defined'
    BY DEF Ghosts
  <2>4. QED
    BY <1>1, <1>2, <2>2, <2>3, GhostsAre
<1>8. \A x \in Blocks : block'[x] = IF x = b THEN s ELSE block[x]
  <2> HIDE DEF s
  <2>1. QED
    BY <1>1, InvParts
<1>9. isNew \in BOOLEAN
  OBVIOUS
<1> HIDE DEF r, isNew, v, s
<1>10. HistoryAt(b)'
  <2> DEFINE g == Ghosts
             h == Ghosts'
             f == block[b]
             d == disk[b]
             e == Cache'
             c == Cache
             op == call.op
             arg == call.arg
  <2>1. /\ r \in BlockType /\ isNew \in BOOLEAN /\ v \in Values /\ ~Committing(op)
        /\ f \in BlockType /\ ShapeOf(c, f) /\ StampsOf(g, d) /\ d \in Values
        /\ HistoryOf(c, g, op, arg, b, f, d)
        /\ f.cached => r = f /\ ~isNew
        /\ ~f.cached => /\ f = Absent /\ r.transaction = NoId /\ r.previous = NoId
                        /\ r.original = NoData /\ r.parent = NoData
                        /\ ~isNew => r.current = d
        /\ v = Max(g.active) /\ v \in g.active
        /\ h.committed = g.committed /\ h.active = g.active /\ h.owed = g.owed
        /\ h.base[b] = IF isNew THEN NoData ELSE g.base[b]
        /\ h.subBase[b] = IF isNew THEN NoData ELSE g.subBase[b]
    BY <1>2, <1>3, <1>5, <1>6, <1>7, <1>9
  <2>2. s = WrittenBlock(r, isNew, i, v)
    BY DEF s
  <2> HIDE DEF g, h, f, d, e, c, op, arg, StampsOf
  <2>3. Writing(c, g, h, op, arg, b, d, f, r, isNew, v)
    BY <2>1 DEF Writing
  <2>4. HistoryOf(e, h, op, arg, b, s, d)
    BY <2>1, <2>2, <2>3, WriteHistory
  <2>5. QED
    BY <1>1, <1>8, <2>4 DEF HistoryAt, h, d, e, op, arg
<1>11. ASSUME NEW x \in Blocks, x # b PROVE HistoryAt(x)'
  <2>1. HistoryOf(Cache, Ghosts, call.op, call.arg, x, block[x], disk[x]) /\ block[x] \in BlockType
    BY BlockParts DEF HistoryAt
  <2>2. block[x].transaction # NoId /\ Cache'.transaction[block[x].transaction].hasSub =>
            Cache.transaction[block[x].transaction].hasSub
    <3>1. block[x].transaction \in Ids \cup {NoId}
      BY <2>1 DEF BlockType
    <3>2. QED
      BY <1>4, <3>1 DEF Cache
  <2>3. /\ Ghosts'.committed = Ghosts.committed /\ Ghosts'.active = Ghosts.active
        /\ Ghosts'.owed = Ghosts.owed /\ Ghosts'.base[x] = Ghosts.base[x]
        /\ Ghosts'.subBase[x] = Ghosts.subBase[x]
        /\ x \in Ghosts'.defined => x \in Ghosts.defined
    BY <1>7, <1>11
  <2>4. HistoryOf(Cache', Ghosts', call.op, call.arg, x, block[x], disk[x])
    BY <1>3, <2>1, <2>2, <2>3, SameHistory
  <2>5. QED
    BY <1>1, <1>8, <1>11, <2>4 DEF HistoryAt
<1>12. WrittenBack'
  <2>1. \A w \in Writers : \A x \in written[w] : x # b /\ x \in Blocks
    BY <1>1 DEF BusyWriting, Busy, Writers, Inv1, Types, OtherTypes, ActiveOK, GhostTypes
  <2>2. QED
    BY <1>1, <1>8, <2>1 DEF WrittenBack, Inv2
<1>13. Relied'
  BY <1>1 DEF Relied, Idle, NoCall, Committing
<1>14. UncommittedOffDisk'
  BY <1>1 DEF Inv2, UncommittedOffDisk
<1>15. QED
  BY <1>10, <1>11, <1>12, <1>13, <1>14 DEF Inv2

\* Steps that change neither blocks nor the disk: the blocks keep their histories if no
\* call that commits begins or ends, and nothing new is owed.
LEMMA FrameInv2 ==
    ASSUME Inv2, UNCHANGED <<block, transaction, written, disk>>,
           UNCHANGED <<active, committed, defined, base, subBase>>,
           call' = call \/ (call.op = "wait" /\ call' = NoCall),
           \A w \in Writers : toWrite'[w] \cap written[w] = {},
           \A i \in Ids, b \in Blocks : owed'[i][b] = owed[i][b] \/ owed'[i][b] <= disk[b]
    PROVE  Inv2'
<1>1. ASSUME NEW b \in Blocks PROVE HistoryAt(b)'
  <2>1. HistoryOf(Cache, Ghosts, call.op, call.arg, b, block[b], disk[b])
    BY DEF Inv2, HistoryAt
  <2>2. \/ call'.op = call.op /\ call'.arg = call.arg
        \/ ~Committing(call.op) /\ ~Committing(call'.op)
    BY DEF NoCall, Committing
  <2>3. /\ Ghosts'.active = Ghosts.active /\ Ghosts'.committed = Ghosts.committed
        /\ Ghosts'.base = Ghosts.base /\ Ghosts'.subBase = Ghosts.subBase
        /\ Ghosts'.defined = Ghosts.defined
        /\ Ghosts'.owed = owed' /\ Ghosts.owed = owed /\ Cache'.transaction = Cache.transaction
    BY DEF Ghosts, Cache
  <2>4. HistoryOf(Cache', Ghosts', call'.op, call'.arg, b, block[b], disk[b])
    BY <2>1, <2>2, <2>3, SameHistory
  <2>5. QED
    BY <2>4 DEF HistoryAt
<1>2. WrittenBack'
  BY DEF Inv2, WrittenBack
<1>3. Relied'
  BY DEF Inv2, Relied, NoCall, Committing
<1>4. UncommittedOffDisk'
  BY DEF Inv2, UncommittedOffDisk
<1>5. QED
  BY <1>1, <1>2, <1>3, <1>4 DEF Inv2

\* A writer that has no blocks marks some.
LEMMA MarksInv2 ==
    ASSUME Inv1, Inv2, NEW w \in {"background", "memory"}, Busy(w) = {},
           NEW S, toWrite' = [toWrite EXCEPT ![w] = S],
           UNCHANGED <<block, transaction, written, call, disk>>, UNCHANGED ghosts
    PROVE  Inv2'
<1>1. UNCHANGED <<active, committed, defined, base, subBase, owed>>
  BY DEF ghosts
<1>2. \A u \in Writers : toWrite'[u] \cap written[u] = {}
  <2>1. toWrite \in [Writers -> SUBSET Blocks] /\ written[w] = {}
    BY DEF Inv1, Types, OtherTypes, Busy
  <2>2. \A u \in Writers : u # w => toWrite'[u] = toWrite[u]
    BY <2>1
  <2>3. QED
    BY <2>1, <2>2 DEF Inv2, WrittenBack
<1>3. QED
  BY <1>1, <1>2, FrameInv2

\* The background writer marks blocks.
LEMMA BackgroundTakesInv2 ==
    ASSUME Inv1, Inv2, BackgroundTakes, UNCHANGED ghosts
    PROVE  Inv2'
<1>1. PICK w \in {"background", "memory"} : w = "background"
  OBVIOUS
<1>2. /\ Busy(w) = {} /\ \E S : toWrite' = [toWrite EXCEPT ![w] = S]
      /\ UNCHANGED <<block, transaction, written, call, disk>>
  BY <1>1 DEF BackgroundTakes
<1>3. QED
  BY <1>2, MarksInv2

\* A notification is taken.
LEMMA TakeEventInv2 ==
    ASSUME Inv1, Inv2, TakeEvent, UNCHANGED ghosts
    PROVE  Inv2'
<1>1. /\ UNCHANGED <<block, transaction, toWrite, written, disk>>
      /\ UNCHANGED <<active, committed, defined, base, subBase, owed>>
  BY DEF TakeEvent, ghosts
<1>2. call' = call \/ (call.op = "wait" /\ call' = NoCall)
  <2>1. CASE Head(events) = Sync
    <3>1. call' = NoCall /\ events # <<>> /\ events \in Seq(Ids \cup {Sync})
      BY <2>1, InvParts DEF TakeEvent
    <3>2. 1 \in 1..Len(events) /\ events[1] = Sync
      BY <2>1, <3>1
    <3>3. QED
      BY <3>1, <3>2 DEF Inv1, SyncOK
  <2>2. CASE Head(events) # Sync
    BY <2>2 DEF TakeEvent
  <2>3. QED
    BY <2>1, <2>2
<1>3. \A w \in Writers : toWrite'[w] \cap written[w] = {}
  BY <1>1 DEF Inv2, WrittenBack
<1>4. QED
  BY <1>1, <1>2, <1>3, FrameInv2

\* A hook returns: its transaction owes nothing any more.
LEMMA CallbackInv2 ==
    ASSUME Inv1, Inv2, Callback
    PROVE  Inv2'
<1>1. /\ UNCHANGED <<block, transaction, toWrite, written, call, disk>>
      /\ UNCHANGED <<active, committed, defined, base, subBase>>
      /\ owed' = [owed EXCEPT ![notifying] = Nothing]
  BY DEF Callback, HookReturns
<1>2. \A w \in Writers : toWrite'[w] \cap written[w] = {}
  BY <1>1 DEF Inv2, WrittenBack
<1>3. ASSUME NEW i \in Ids, NEW b \in Blocks
      PROVE  owed'[i][b] = owed[i][b] \/ owed'[i][b] <= disk[b]
  <2>1. disk[b] \in Nat
    BY BlockCacheAssumption DEF Inv1, Types, OtherTypes, ActiveOK, GhostTypes, Values
  <2>2. Nothing[b] = NoData
    BY DEF Nothing
  <2>3. owed'[i] = owed[i] \/ owed'[i] = Nothing
    BY <1>1 DEF Inv1, Types, OtherTypes, ActiveOK, GhostTypes
  <2>4. QED
    BY <2>1, <2>2, <2>3
<1>4. QED
  BY <1>1, <1>2, <1>3, FrameInv2

\* A block is written.
LEMMA WriteBlockInv2 ==
    ASSUME Inv1, ActiveOK, Inv2, NEW w \in Writers, WriteBlock(w), UNCHANGED ghosts
    PROVE  Inv2'
<1> DEFINE b == Min(toWrite[w])
<1>1. /\ toWrite[w] # {} /\ disk' = [disk EXCEPT ![b] = Data(block[b])]
      /\ toWrite' = [toWrite EXCEPT ![w] = @ \ {b}]
      /\ written' = [written EXCEPT ![w] = @ \cup {b}]
      /\ UNCHANGED <<block, transaction, events, call>>
  BY DEF WriteBlock
<1>2. /\ toWrite \in [Writers -> SUBSET Blocks] /\ written \in [Writers -> SUBSET Blocks]
      /\ disk \in [Blocks -> Values]
  BY DEF Inv1, Types, OtherTypes, ActiveOK, GhostTypes
<1>3. b \in toWrite[w] /\ b \in Blocks
  <2>1. toWrite[w] \in SUBSET Nat
    BY <1>2, BlockCacheAssumption
  <2>2. QED
    BY <1>1, <1>2, <2>1, MinIn
<1> HIDE DEF b
<1>4. MayBeWritten(block[b])
  BY <1>3 DEF BusyWriting, Busy, Writers, Inv1, WritersOK
<1>5. Cache' = Cache /\ Ghosts' = Ghosts /\ Ghosts.committed = committed /\ committed' = committed
  BY <1>1 DEF Cache, Ghosts, ghosts
<1>6. \A x \in Blocks : disk'[x] = IF x = b THEN Data(block[b]) ELSE disk[x]
  BY <1>1, <1>2
<1>7. /\ HistoryOf(Cache, Ghosts, call.op, call.arg, b, block[b], Data(block[b]))
      /\ Data(block[b]) \in committed
  <2> DEFINE g == Ghosts
             r == block[b]
             d == disk[b]
  <2>1. /\ r \in BlockType /\ ShapeOf(Cache, r) /\ StampsOf(g, d)
        /\ HistoryOf(Cache, g, call.op, call.arg, b, r, d)
        /\ MayBeWritten(r)
    BY <1>3, <1>4, BlockParts DEF HistoryAt
  <2>2. \A i \in Ids : g.owed[i][b] \in Int
    <3>1. \A i \in Ids : owed[i][b] \in Values \cup {NoData}
      BY <1>3, BlockParts
    <3>2. Values \cup {NoData} \subseteq Int
      BY BlockCacheAssumption DEF Values
    <3>3. QED
      BY <3>1, <3>2, GhostsAre
  <2> HIDE DEF g, r, d, StampsOf
  <2>3. HistoryOf(Cache, g, call.op, call.arg, b, r, Data(r)) /\ Data(r) \in g.committed
    BY <2>1, <2>2, WriteBackHistory
  <2>4. QED
    BY <1>5, <2>3 DEF g, r
<1>8. ASSUME NEW x \in Blocks PROVE HistoryAt(x)'
  <2>1. CASE x = b
    BY <1>1, <1>5, <1>6, <1>7, <2>1 DEF HistoryAt
  <2>2. CASE x # b
    BY <1>1, <1>5, <1>6, <2>2 DEF HistoryAt, Inv2
  <2>3. QED
    BY <2>1, <2>2
<1>9. WrittenBack'
  <2> SUFFICES ASSUME NEW u \in Writers
               PROVE  /\ toWrite'[u] \cap written'[u] = {}
                      /\ \A x \in written'[u] : disk'[x] = Data(block[x])
    BY <1>1 DEF WrittenBack
  <2>1. /\ toWrite'[u] = IF u = w THEN toWrite[u] \ {b} ELSE toWrite[u]
        /\ written'[u] = IF u = w THEN written[u] \cup {b} ELSE written[u]
    BY <1>1, <1>2
  <2>2. toWrite[u] \cap written[u] = {} /\ \A x \in written[u] : disk[x] = Data(block[x])
    BY DEF Inv2, WrittenBack
  <2>3. written[u] \subseteq Blocks
    BY <1>2
  <2>4. QED
    BY <1>3, <1>6, <2>1, <2>2, <2>3
<1>10. Relied'
  BY <1>1 DEF Inv2, Relied, ghosts
<1>11. UncommittedOffDisk'
  BY <1>5, <1>6, <1>7 DEF Inv2, UncommittedOffDisk
<1>12. QED
  BY <1>8, <1>9, <1>10, <1>11 DEF Inv2

\* The blocks S of a writer are done: what was to be written is on the disk.
LEMMA BlocksDoneHistory ==
    ASSUME Inv1, ActiveOK, Inv2, NEW w \in Writers, NEW S, S = written[w],
           NEW d, d = BlocksDone(Cache, S), NEW b \in Blocks
    PROVE  HistoryOf(d, Ghosts, call.op, call.arg, b, d.block[b], disk[b])
<1>1. S \in SUBSET Blocks /\ S \subseteq BusyWriting
  BY DEF Inv1, Types, OtherTypes, ActiveOK, GhostTypes, BusyWriting, Busy, Writers
<1>2. /\ block[b] \in BlockType /\ ShapeOf(Cache, block[b])
      /\ HistoryOf(Cache, Ghosts, call.op, call.arg, b, block[b], disk[b])
  BY BlockParts DEF HistoryAt
<1>3. d.block[b] = IF b \in S THEN Done(block[b]) ELSE block[b]
  BY <1>1, InvParts, BlocksDoneParts
<1>4. block[b].transaction # NoId /\ d.transaction[block[b].transaction].hasSub =>
            Cache.transaction[block[b].transaction].hasSub
  <2> SUFFICES ASSUME block[b].transaction # NoId
               PROVE  d.transaction[block[b].transaction].hasSub =>
                            Cache.transaction[block[b].transaction].hasSub
    OBVIOUS
  <2>1. block[b].transaction \in Ids /\ IsOpen(Cache, block[b].transaction)
    BY <1>2 DEF BlockType, ShapeOf
  <2>2. TransactionDone(Cache, d, S, block[b].transaction)
    <3>1. CacheOK(Cache, nextId)
      BY DEF Inv1
    <3>2. \A i \in Ids : TransactionDone(Cache, d, S, i)
      BY <1>1, <3>1, BlocksDoneParts
    <3>3. QED
      BY <2>1, <3>2
  <2>3. QED
    BY <2>1, <2>2 DEF TransactionDone, SameButNum, IsOpen
<1>5. CASE b \in S
  <2>1. MayBeWritten(block[b]) /\ disk[b] = Data(block[b])
    BY <1>1, <1>5 DEF Inv1, WritersOK, Inv2, WrittenBack
  <2>2. d.block[b] = Done(block[b])
    BY <1>3, <1>5
  <2>3. QED
    BY <1>2, <1>4, <2>1, <2>2, DoneHistory
<1>6. CASE b \notin S
  <2>1. d.block[b] = block[b]
    BY <1>3, <1>6
  <2>2. QED
    BY <1>2, <1>4, <2>1, SameHistory
<1>7. QED
  BY <1>5, <1>6

\* The background writer, or the one that drops blocks, is done.
LEMMA WriterDoneInv2 ==
    ASSUME Inv1, ActiveOK, Inv2, NEW w \in {"background", "memory"}, WriteEnds(w),
           call' = call, UNCHANGED ghosts,
           NEW d, d = BlocksDone(Cache, written[w]), NEW e, DoneOrDropped(d, e, written[w]),
           Cache' = e
    PROVE  Inv2'
<1>1. /\ written' = [written EXCEPT ![w] = {}] /\ UNCHANGED <<toWrite, disk>>
      /\ w \in Writers /\ Ghosts' = Ghosts /\ committed' = committed
  BY DEF WriteEnds, Writers, Ghosts, ghosts
<1>2. /\ written[w] \in SUBSET Blocks /\ written \in [Writers -> SUBSET Blocks]
      /\ CacheOK(d, nextId)
  BY <1>1, WriterBlocksDone DEF Inv1, Types, OtherTypes
<1>3. /\ block' = e.block /\ e.transaction = d.transaction
      /\ \A b \in Blocks \ written[w] : e.block[b] = d.block[b] /\ d.block[b] = block[b]
      /\ \A b \in written[w] : \/ e.block[b] = d.block[b]
                               \/ Loose(d.block[b]) /\ e.block[b] = Absent
  <2>1. \A b \in Blocks : d.block[b] = IF b \in written[w] THEN Done(block[b]) ELSE block[b]
    BY <1>2, InvParts, BlocksDoneParts
  <2>2. block' = e.block
    BY DEF Cache
  <2>3. /\ e.transaction = d.transaction
        /\ \A b \in Blocks \ written[w] : e.block[b] = d.block[b]
        /\ \A b \in written[w] : \/ e.block[b] = d.block[b]
                                 \/ Loose(d.block[b]) /\ e.block[b] = Absent
    BY DEF DoneOrDropped
  <2>4. QED
    BY <2>1, <2>2, <2>3
<1>4. ASSUME NEW b \in Blocks PROVE HistoryAt(b)'
  <2>1. HistoryOf(d, Ghosts, call.op, call.arg, b, d.block[b], disk[b])
    BY <1>1, BlocksDoneHistory
  <2>2. HistoryOf(e, Ghosts, call.op, call.arg, b, e.block[b], disk[b])
    <3>1. CASE e.block[b] = d.block[b]
      <4>1. d.block[b].transaction # NoId /\ e.transaction[d.block[b].transaction].hasSub =>
                d.transaction[d.block[b].transaction].hasSub
        BY <1>3
      <4>2. QED
        BY <2>1, <3>1, <4>1, SameHistory
    <3>2. CASE Loose(d.block[b]) /\ e.block[b] = Absent
      <4>1. ShapeOf(d, d.block[b])
        BY <1>2, CacheParts
      <4>2. /\ d.block[b].transaction = NoId /\ d.block[b].previous = NoId
            /\ d.block[b].parent = NoData
        BY <3>2, <4>1 DEF Loose, ShapeOf
      <4>3. QED
        BY <2>1, <3>2, <4>2, RemovedHistory
    <3>3. QED
      BY <1>3, <3>1, <3>2
  <2>3. QED
    BY <1>1, <1>3, <2>2 DEF HistoryAt
<1>5. WrittenBack'
  <2>1. written'[w] = {} /\ \A u \in Writers : u # w => written'[u] = written[u]
    BY <1>1, <1>2
  <2>2. \A u \in Writers : u # w => written[u] \cap written[w] = {}
    BY DEF Inv1, WritersOK, Disjoint, Busy, Writers
  <2>3. \A u \in Writers : u # w => \A b \in written[u] : block'[b] = block[b]
    BY <1>2, <1>3, <2>2
  <2>4. QED
    BY <1>1, <2>1, <2>3 DEF Inv2, WrittenBack
<1>6. Relied' /\ UncommittedOffDisk'
  BY <1>1 DEF Inv2, Relied, UncommittedOffDisk, ghosts
<1>7. QED
  BY <1>4, <1>5, <1>6 DEF Inv2

\* The background writer has written its blocks.
LEMMA BackgroundWrittenInv2 ==
    ASSUME Inv1, ActiveOK, Inv2, BackgroundWritten, UNCHANGED ghosts
    PROVE  Inv2'
<1>1. PICK w \in {"background", "memory"} : w = "background"
  OBVIOUS
<1>2. PICK d : d = BlocksDone(Cache, written[w])
  OBVIOUS
<1>3. /\ WriteEnds(w) /\ call' = call /\ block' = d.block /\ transaction' = d.transaction
      /\ events' = d.events
  BY <1>1, <1>2 DEF BackgroundWritten, Becomes
<1>4. d = [block |-> d.block, transaction |-> d.transaction, events |-> d.events]
  BY <1>2 DEF BlocksDone
<1>5. Cache' = d
  BY <1>3, <1>4 DEF Cache
<1>6. DoneOrDropped(d, d, written[w])
  BY DEF DoneOrDropped
<1>7. QED
  BY <1>2, <1>3, <1>5, <1>6, WriterDoneInv2

\* What was written to be dropped is dropped.
LEMMA WrittenRemovedInv2 ==
    ASSUME Inv1, ActiveOK, Inv2, WrittenRemoved, UNCHANGED ghosts
    PROVE  Inv2'
<1>1. PICK w \in {"background", "memory"} : w = "memory"
  OBVIOUS
<1>2. PICK d : d = BlocksDone(Cache, written[w])
  OBVIOUS
<1>3. PICK e : e = [d EXCEPT !.block = [b \in Blocks |-> IF b \in written[w] THEN Absent
                                                          ELSE d.block[b]]]
  OBVIOUS
<1>4. WriteEnds(w) /\ call' = call /\ Becomes(e)
  BY <1>1, <1>2, <1>3 DEF WrittenRemoved
<1>5. /\ CacheOK(d, nextId) /\ written[w] \in SUBSET Blocks
      /\ d = [block |-> d.block, transaction |-> d.transaction, events |-> d.events]
      /\ \A b \in written[w] : d.block[b] = Done(block[b]) /\ block[b] \in BlockType
  BY <1>1, <1>2, WriterBlocksDone DEF Writers
<1>6. e = [block |-> e.block, transaction |-> d.transaction, events |-> d.events]
  BY <1>3, <1>5
<1>7. Cache' = e
  BY <1>4, <1>6 DEF Cache, Becomes
<1>8. DoneOrDropped(d, e, written[w])
  <2>1. \A b \in written[w] : Loose(d.block[b])
    <3>1. \A b \in written[w] : Loose(block[b])
      BY <1>1 DEF Inv1, WritersOK, Busy
    <3>2. QED
      BY <1>5, <3>1, DoneType DEF Loose
  <2>2. \A b \in Blocks : e.block[b] = IF b \in written[w] THEN Absent ELSE d.block[b]
    BY <1>3, <1>5
  <2>3. QED
    BY <1>3, <1>5, <1>6, <2>1, <2>2 DEF DoneOrDropped
<1>9. QED
  BY <1>2, <1>4, <1>7, <1>8, WriterDoneInv2

\* The client's writer has written its blocks, and the call finishes.
LEMMA ClientWrittenInv2 ==
    ASSUME Inv1, ActiveOK, Inv2, ClientWritten, UNCHANGED ghosts
    PROVE  Inv2'
<1> DEFINE S == written["client"]
           d == BlocksDone(Cache, S)
<1>1. CallMayFinish(d, S)
  BY ClientWrittenParts
<1>2. \A b \in Blocks : HistoryOf(d, Ghosts, call.op, call.arg, b, d.block[b], disk[b])
  BY BlocksDoneHistory DEF Writers
<1>3. /\ written' = [written EXCEPT !["client"] = {}] /\ UNCHANGED <<toWrite, disk>>
      /\ Ghosts' = Ghosts /\ committed' = committed
  BY DEF ClientWritten, WriteEnds, Ghosts, ghosts
<1> HIDE DEF d, S
<1>4. Types /\ nextId \in Nat
  BY InvParts
<1>5. /\ CacheOK(d, nextId) /\ call.op \in {"end", "detach", "discard", "sync"}
      /\ call.hook \in BOOLEAN /\ Finish(d, call.op, call.arg, call.hook)
      /\ CanFinish(d, nextId, call.op, call.arg) /\ call.arg \in Nat /\ NoSync(d)
  BY <1>1 DEF CallMayFinish
<1>6. ASSUME NEW b \in Blocks PROVE HistoryAt(b)'
  <2>1. StampsOf(Ghosts, disk[b])
    BY BlockParts
  <2>2. /\ call.op = "end" => Ghosts.base[b] = NoData
        /\ Committing(call.op) => Ghosts.subBase[b] = NoData
        /\ call.op = "discard" => call.arg \notin Ghosts.defined
    BY GhostsAre DEF Inv2, Relied, Nothing
  <2>3. call.op = "detach" => Max(Ghosts.active) \in Ghosts.active
    <3> SUFFICES ASSUME call.op = "detach" PROVE Max(active) \in active
      BY GhostsAre
    <3>1. call.arg \in Ids /\ Open(call.arg)
      BY InvParts DEF Inv1, CallOK, Committing, Closing
    <3>2. active # {} /\ active \in SUBSET Values
      BY <1>4, <3>1 DEF ActiveOK, StampsOK, Types, OtherTypes, GhostTypes
    <3>3. QED
      BY <3>2, MaxActive
  <2>4. HistoryOf(d, Ghosts, call.op, call.arg, b, d.block[b], disk[b])
    BY <1>2
  <2> HIDE DEF StampsOf
  <2>5. HistoryOf(Cache', Ghosts, call'.op, call'.arg, b, block'[b], disk[b])
    BY <1>4, <1>5, <2>1, <2>2, <2>3, <2>4, FinishHistory
  <2>6. QED
    BY <1>3, <2>5 DEF HistoryAt
<1>7. /\ Finished(d)
      /\ \A b \in Blocks : Apart(d, call.op, call.arg, b) => block'[b] = d.block[b]
  BY <1>4, <1>5, FinishOK
<1>8. WrittenBack'
  <2>1. /\ written'["client"] = {}
        /\ \A w \in Writers : w # "client" => written'[w] = written[w]
    BY <1>3, <1>4 DEF Types, OtherTypes, Writers
  <2>2. \A b \in Busy("background") \cup Busy("memory") : block'[b] = block[b]
    BY <1>1, <1>7 DEF CallMayFinish, LeavesWriters
  <2>3. \A w \in Writers : w # "client" => \A b \in written[w] : block'[b] = block[b]
    BY <2>2 DEF Busy, Writers
  <2>4. QED
    BY <1>3, <2>1, <2>3 DEF Inv2, WrittenBack
<1>9. Relied'
  BY <1>7 DEF Finished, Relied, Committing
<1>10. UncommittedOffDisk'
  BY <1>3 DEF Inv2, UncommittedOffDisk
<1>11. QED
  BY <1>6, <1>8, <1>9, <1>10 DEF Inv2

\* One block changes that nobody writes, or changes in no field that matters.
LEMMA OneBlockInv2 ==
    ASSUME Inv1, Inv2, NEW b \in Blocks, NEW s, block' = [block EXCEPT ![b] = s],
           UNCHANGED <<transaction, toWrite, written, call, disk>>, UNCHANGED ghosts,
           HistoryOf(Cache, Ghosts, call.op, call.arg, b, s, disk[b]),
           b \in BusyWriting => Data(s) = Data(block[b])
    PROVE  Inv2'
<1>1. \A x \in Blocks : block'[x] = IF x = b THEN s ELSE block[x]
  BY InvParts
<1>2. Ghosts' = Ghosts /\ committed' = committed /\ Cache'.transaction = Cache.transaction
  BY DEF Ghosts, ghosts, Cache
<1>3. ASSUME NEW x \in Blocks PROVE HistoryAt(x)'
  <2>1. HistoryOf(Cache, Ghosts, call.op, call.arg, x, block'[x], disk[x])
    BY <1>1 DEF Inv2, HistoryAt
  <2>2. HistoryOf(Cache', Ghosts, call.op, call.arg, x, block'[x], disk[x])
    BY <1>2, <2>1, SameHistory
  <2>3. QED
    BY <1>2, <2>2 DEF HistoryAt
<1>4. WrittenBack'
  <2>1. \A w \in Writers : \A x \in written[w] : x \in Blocks /\ x \in BusyWriting
    BY DEF Inv1, Types, OtherTypes, ActiveOK, GhostTypes, BusyWriting, Busy, Writers
  <2>2. \A w \in Writers : \A x \in written[w] : Data(block'[x]) = Data(block[x])
    BY <1>1, <2>1
  <2>3. QED
    BY <2>2 DEF Inv2, WrittenBack
<1>5. Relied' /\ UncommittedOffDisk'
  BY DEF Inv2, Relied, UncommittedOffDisk, ghosts
<1>6. QED
  BY <1>3, <1>4, <1>5 DEF Inv2

\* block_cache_get() and block_cache_put() by a reader: an unused block is put back, one that
\* was discarded is dropped, and one that is not in the cache is read.
LEMMA ReadInv2 ==
    ASSUME Inv1, ActiveOK, Inv2, NEW b \in Blocks, Read(b), UNCHANGED ghosts
    PROVE  Inv2'
<1> DEFINE r == Found(b, FALSE)
           put == r.transaction = NoId /\ r.previous = NoId
           s == IF put /\ r.discard THEN Absent ELSE [r EXCEPT !.unused = put]
<1>1. /\ block' = [block EXCEPT ![b] = s]
      /\ UNCHANGED <<transaction, toWrite, written, call, disk>>
  BY DEF Read
<1>2. /\ block[b] \in BlockType /\ ShapeOf(Cache, block[b]) /\ disk[b] \in Values
      /\ HistoryOf(Cache, Ghosts, call.op, call.arg, b, block[b], disk[b])
  BY BlockParts DEF HistoryAt
<1>3. /\ r \in BlockType
      /\ block[b].cached => r = block[b]
      /\ ~block[b].cached =>
            /\ block[b] = Absent /\ r.cached /\ r.current = disk[b]
            /\ r.original = NoData /\ r.parent = NoData /\ r.transaction = NoId
            /\ r.previous = NoId /\ ~r.dirty /\ ~r.discard
  <2>0. PICK read \in BOOLEAN : read = FALSE
    OBVIOUS
  <2>1. r = Found(b, read)
    BY <2>0
  <2> HIDE DEF r
  <2>2. /\ r \in BlockType /\ r.cached
        /\ block[b].cached => r = block[b]
        /\ ~block[b].cached =>
            /\ block[b] = Absent /\ r.current = IF read THEN NoData ELSE disk[b]
            /\ r.original = NoData /\ r.parent = NoData /\ r.transaction = NoId
            /\ r.previous = NoId /\ ~r.dirty /\ ~r.discard
    BY <1>2, <2>1, FoundIs
  <2>3. QED
    BY <2>0, <2>2
<1> HIDE DEF r
<1>4. CASE put /\ r.discard
  <2>1. s = Absent /\ r = block[b]
    BY <1>3, <1>4
  <2>2. block[b].transaction = NoId /\ block[b].previous = NoId /\ block[b].parent = NoData
    BY <1>2, <1>4, <2>1 DEF ShapeOf
  <2>3. b \notin BusyWriting
    <3>1. ~MayBeWritten(block[b])
      BY <1>2, <1>4, <2>1, <2>2 DEF MayBeWritten, ShapeOf
    <3>2. QED
      BY <3>1 DEF Inv1, WritersOK
  <2> HIDE DEF s
  <2>4. HistoryOf(Cache, Ghosts, call.op, call.arg, b, s, disk[b])
    BY <1>2, <2>1, <2>2, RemovedHistory
  <2>5. QED
    BY <1>1, <2>3, <2>4, OneBlockInv2
<1>5. CASE ~(put /\ r.discard)
  <2>1. s = [r EXCEPT !.unused = put]
    BY <1>5
  <2>2. put \in BOOLEAN
    OBVIOUS
  <2> HIDE DEF s, put
  <2>3. /\ s.transaction = r.transaction /\ s.previous = r.previous
        /\ s.parent = r.parent /\ s.original = r.original /\ s.discard = r.discard
        /\ s.dirty = r.dirty /\ s.current = r.current /\ s.cached = r.cached
    BY <1>3, <2>1, <2>2 DEF BlockType
  <2>4. CASE block[b].cached
    <3>1. r = block[b]
      BY <1>3, <2>4
    <3>2. Data(s) = Data(block[b])
      BY <2>3, <3>1 DEF Data, WritesOriginal
    <3>3. HistoryOf(Cache, Ghosts, call.op, call.arg, b, s, disk[b])
      BY <1>2, <2>3, <3>1, UnusedHistory
    <3>4. QED
      BY <1>1, <3>2, <3>3, OneBlockInv2
  <2>5. CASE ~block[b].cached
    <3>1. HistoryOf(Cache, Ghosts, call.op, call.arg, b, Absent, disk[b]) /\ block[b] = Absent
      BY <1>2, <1>3, <2>5
    <3>2. /\ s.cached /\ s.current = disk[b] /\ s.original = NoData /\ s.parent = NoData
          /\ s.transaction = NoId /\ s.previous = NoId /\ ~s.dirty
      BY <1>3, <2>3, <2>5
    <3>3. HistoryOf(Cache, Ghosts, call.op, call.arg, b, s, disk[b])
      BY <3>1, <3>2, ReadHistory
    <3>4. b \notin BusyWriting
      <4>1. ~MayBeWritten(block[b])
        BY <3>1, AbsentIs DEF MayBeWritten
      <4>2. QED
        BY <4>1 DEF Inv1, WritersOK
    <3>5. QED
      BY <1>1, <3>3, <3>4, OneBlockInv2
  <2>6. QED
    BY <2>4, <2>5
<1>6. QED
  BY <1>4, <1>5

\* An unused block is dropped: what is seen of it is on the disk; or it is marked.
LEMMA RemoveUnusedInv2 ==
    ASSUME Inv1, ActiveOK, Inv2, NEW b \in Blocks, RemoveUnused(b), UNCHANGED ghosts
    PROVE  Inv2'
<1>1. CASE block[b].dirty /\ ~block[b].discard
  <2>1. PICK w \in {"background", "memory"} : w = "memory"
    OBVIOUS
  <2>2. /\ Busy(w) = {} /\ \E S : toWrite' = [toWrite EXCEPT ![w] = S]
        /\ UNCHANGED <<block, transaction, written, call, disk>>
    BY <1>1, <2>1 DEF RemoveUnused
  <2>3. QED
    BY <2>2, MarksInv2
<1>2. CASE ~(block[b].dirty /\ ~block[b].discard)
  <2>1. /\ block[b].unused /\ b \notin BusyWriting /\ block' = [block EXCEPT ![b] = Absent]
        /\ UNCHANGED <<transaction, toWrite, written, call, disk>>
    BY <1>2 DEF RemoveUnused
  <2>2. /\ ShapeOf(Cache, block[b])
        /\ HistoryOf(Cache, Ghosts, call.op, call.arg, b, block[b], disk[b])
    BY BlockParts DEF HistoryAt
  <2>3. block[b].transaction = NoId /\ block[b].previous = NoId /\ block[b].parent = NoData
    BY <2>1, <2>2 DEF ShapeOf
  <2>4. HistoryOf(Cache, Ghosts, call.op, call.arg, b, Absent, disk[b])
    BY <2>2, <2>3, RemovedHistory
  <2>5. QED
    BY <2>1, <2>4, OneBlockInv2
<1>3. QED
  BY <1>1, <1>2

-----------------------------------------------------------------------------
(* The theorems *)

\* At first every block is on the disk and nowhere else.
LEMMA InitInv2 == Init => Inv2
<1> SUFFICES ASSUME Init PROVE Inv2
  OBVIOUS
<1>1. /\ block = [b \in Blocks |-> Absent] /\ written = [w \in Writers |-> {}]
      /\ toWrite = [w \in Writers |-> {}] /\ call.op = "none" /\ disk = [b \in Blocks |-> 0]
      /\ committed = {0} /\ base = Nothing /\ subBase = Nothing
      /\ owed = [i \in Ids |-> Nothing]
  BY DEF Init, CacheInit, NoCall
<1>2. ASSUME NEW b \in Blocks PROVE HistoryAt(b)
  <2>1. block[b] = Absent /\ disk[b] = 0 /\ base[b] = NoData /\ subBase[b] = NoData
        /\ \A i \in Ids : owed[i][b] = NoData
    BY <1>1 DEF Nothing
  <2>2. VersionsOf(Cache, Ghosts, call.op, Absent, 0)
    BY AbsentIs DEF VersionsOf
  <2>3. AllOwed(Ghosts, call.op, call.arg, b, Absent, 0)
    BY <2>1, GhostsAre DEF AllOwed, OwedOf
  <2>4. RestoresOf(Ghosts, call.op, b, Absent, 0)
    BY <1>1, <2>1, GhostsAre, AbsentIs
       DEF RestoresOf, Defined, AbortGives, SubAbortGives, Seen
  <2>5. QED
    BY <2>1, <2>2, <2>3, <2>4 DEF HistoryAt, HistoryOf
<1>3. WrittenBack /\ Relied /\ UncommittedOffDisk
  BY <1>1 DEF WrittenBack, Relied, UncommittedOffDisk, Committing
<1>4. QED
  BY <1>2, <1>3 DEF Inv2

\* Every step keeps the histories of all blocks, unless it is a wrong division.
LEMMA NextInv2 ==
    Inv1 /\ ActiveOK /\ Inv1' /\ ActiveOK' /\ Inv2 /\ Divides /\ [Next]_vars => Inv2'
<1> SUFFICES ASSUME Inv1, ActiveOK, Inv1', ActiveOK', Inv2, Divides, [Next]_vars PROVE Inv2'
  OBVIOUS
<1>1. CASE Start
  BY <1>1, StartInv2
<1>2. ASSUME NEW i \in Ids,
             \/ StartSub(i) \/ Abort(i) \/ AbortSub(i) \/ End(i) \/ Detach(i)
             \/ SyncTransaction(i) /\ UNCHANGED ghosts
             \/ \E b \in Blocks, cleared \in BOOLEAN : Write(b, i, cleared)
      PROVE  Inv2'
  <2>1. CASE StartSub(i)
    BY <2>1, StartSubInv2
  <2>2. CASE Abort(i)
    BY <2>2, AbortInv2
  <2>3. CASE AbortSub(i)
    BY <2>3, AbortSubInv2
  <2>4. CASE End(i)
    BY <2>4, EndInv2
  <2>5. CASE Detach(i)
    BY <2>5, DetachInv2 DEF Divides
  <2>6. CASE SyncTransaction(i) /\ UNCHANGED ghosts
    <3> DEFINE S == UNION {InPrevious(Cache, j) :
                                j \in {k \in 1..i : transaction[k].state = "closed"}}
    <3>1. Idle /\ Call("sync", i, FALSE, S)
      BY <2>6 DEF SyncTransaction, TransactionLock
    <3>2. S \in SUBSET Blocks
      BY DEF InPrevious
    <3> HIDE DEF S
    <3>3. QED
      BY <2>6, <3>1, <3>2, SyncInv2
  <2>7. CASE \E b \in Blocks, cleared \in BOOLEAN : Write(b, i, cleared)
    BY <2>7, WriteInv2
  <2>8. QED
    BY <1>2, <2>1, <2>2, <2>3, <2>4, <2>5, <2>6, <2>7
<1>3. CASE SyncAll /\ UNCHANGED ghosts
  <2> DEFINE S == {b \in Blocks : CanBeWritten(b)}
  <2>1. Idle /\ Call("sync", NoId, FALSE, S) /\ S \in SUBSET Blocks
    BY <1>3 DEF SyncAll
  <2> HIDE DEF S
  <2>2. QED
    BY <1>3, <2>1, SyncInv2
<1>4. ASSUME NEW b \in Blocks, Free(b) PROVE Inv2'
  BY <1>4, FreeInv2
<1>5. CASE Inside
  BY <1>5, WriteBlockInv2, ClientWrittenInv2 DEF Inside, Writers
<1>6. CASE Others
  BY <1>6, ReadInv2, RemoveUnusedInv2, WriteBlockInv2, WrittenRemovedInv2 DEF Others, Writers
<1>7. CASE Callback
  BY <1>7, CallbackInv2
<1>8. CASE Background /\ UNCHANGED ghosts
  BY <1>8, WriteBlockInv2, BackgroundTakesInv2, BackgroundWrittenInv2, TakeEventInv2
     DEF Background, Writers
<1>9. CASE UNCHANGED vars
  <2>1. /\ UNCHANGED <<block, transaction, toWrite, written, call, disk>>
        /\ UNCHANGED <<active, committed, defined, base, subBase, owed>>
    BY <1>9 DEF vars, cacheVars
  <2>2. \A w \in Writers : toWrite'[w] \cap written[w] = {}
    BY <2>1 DEF Inv2, WrittenBack
  <2>3. QED
    BY <2>1, <2>2, FrameInv2
<1>10. QED
  BY <1>1, <1>2, <1>3, <1>4, <1>5, <1>6, <1>7, <1>8, <1>9 DEF Next, Client

\* All that holds until a division is wrong, with the histories.
Restorable == Consistent /\ Inv2

\* The histories of the blocks are kept in every behaviour, together with the consistency of
\* the cache, until a detach divides a transaction wrongly.
THEOREM HistoriesKept == Spec => [](division # "wrong" => Restorable)
<1>1. Init => (division # "wrong" => Restorable)
  BY InitConsistent, InitInv2 DEF Restorable
<1>2. Restorable /\ [Next]_vars /\ division' # "wrong" => Restorable'
  <2> SUFFICES ASSUME Restorable, [Next]_vars, division' # "wrong" PROVE Restorable'
    OBVIOUS
  <2>1. Consistent /\ Inv2 /\ Inv1 /\ ActiveOK /\ DividedOK
    BY DEF Restorable, Consistent
  <2>2. Consistent' /\ Inv1' /\ ActiveOK'
    BY <2>1, NextConsistent DEF Consistent
  <2>3. Divides
    BY <2>1, DetachDivides
  <2>4. QED
    BY <2>1, <2>2, <2>3, NextInv2 DEF Restorable
<1>3. (division # "wrong" => Restorable) /\ [Next]_vars => (division # "wrong" => Restorable)'
  BY <1>2, WrongStays
<1>4. QED
  BY <1>1, <1>3, PTL DEF Spec

\* Until a detach has divided a transaction wrongly, the disk never holds what an open or an
\* aborted transaction has written, whichever of the three writers writes and whenever
\* (BlockWriter::_Data(), CanBeWritten()).
THEOREM DiskCommitted == Spec => []OnlyCommittedOnDisk
<1>1. (division # "wrong" => Restorable) => OnlyCommittedOnDisk
  BY DEF Restorable, Inv2, OnlyCommittedOnDisk
<1>2. QED
  BY <1>1, HistoriesKept, PTL

\* When a TRANSACTION_WRITTEN hook runs, all that its transaction changed is on the disk, as
\* it left it or as a later transaction that has ended left it (_BlockDone()), if no
\* detach has divided a transaction wrongly.
THEOREM WrittenIsOnDisk == Spec => []WrittenMeansOnDisk
<1>1. ASSUME Inv1, ActiveOK, Inv2, division # "wrong" PROVE WrittenMeansOnDisk
  <2> SUFFICES ASSUME notifying # NoId, NEW b \in Blocks PROVE owed[notifying][b] <= disk[b]
    BY DEF WrittenMeansOnDisk
  <2>1. notifying \in Ids /\ transaction[notifying].state = "gone"
    BY <1>1 DEF Inv1, Types, OtherTypes, ActiveOK, GhostTypes, Notified
  <2>2. /\ block[b] \in BlockType /\ ShapeOf(Cache, block[b]) /\ Cache.transaction = transaction
        /\ HistoryOf(Cache, Ghosts, call.op, call.arg, b, block[b], disk[b])
    BY <1>1, BlockParts, InvParts DEF HistoryAt
  <2>3. block[b].transaction # notifying /\ block[b].previous # notifying
    BY <2>1, <2>2 DEF ShapeOf, IsOpen
  <2>4. OwedOf(call.op, call.arg, notifying, block[b], owed[notifying][b], disk[b])
    BY <2>1, <2>2, GhostsAre DEF HistoryOf, AllOwed
  <2>5. QED
    BY <2>3, <2>4 DEF OwedOf
<1>2. (division # "wrong" => Restorable) => WrittenMeansOnDisk
  BY <1>1 DEF Restorable, Consistent, WrittenMeansOnDisk
<1>3. QED
  BY <1>2, HistoriesKept, PTL

\* cache_abort_transaction() and cache_abort_sub_transaction() bring back what was there
\* before, whatever was written, read or dropped in the meantime, if no detach has divided
\* a transaction wrongly.
THEOREM AbortsRestore == Spec => AbortRestores
<1> DEFINE A == division # "wrong" =>
                /\ \A i \in Ids : Abort(i) => \A b \in Known(base) : View'[b] = base[b]
                /\ \A i \in Ids : AbortSub(i) => \A b \in Known(subBase) : View'[b] = subBase[b]
<1>1. (division # "wrong" => Restorable) /\ [Next]_vars => [A]_vars
  <2> SUFFICES ASSUME Inv1, ActiveOK, Inv2 PROVE A
    BY DEF Restorable, Consistent
  <2>1. ASSUME NEW i \in Ids, Abort(i) PROVE \A b \in Known(base) : View'[b] = base[b]
    BY <2>1, AbortInv2
  <2>2. ASSUME NEW i \in Ids, AbortSub(i)
        PROVE  \A b \in Known(subBase) : View'[b] = subBase[b]
    BY <2>2, AbortSubInv2
  <2>3. QED
    BY <2>1, <2>2
<1>2. Spec => [][A]_vars
  BY <1>1, HistoriesKept, PTL DEF Spec
<1>3. QED
  BY <1>2 DEF AbortRestores
=============================================================================
