-------------------------- MODULE BlockCacheClient --------------------------
(***************************************************************************)
(* The block cache under an arbitrary client: any sequence of the calls    *)
(* that do not panic, a background writer, readers and low memory.  This   *)
(* module adds what a file system relies on.                               *)
(*                                                                         *)
(* cache_detach_sub_transaction() divides the blocks rightly only if the   *)
(* sub transaction has kept to what it is made for; "division" follows     *)
(* what the client does.  After a wrong division nothing is promised: the  *)
(* properties say so, and UncommittedOffDisk shows what then happens.      *)
(*                                                                         *)
(* The data a client writes is the number of its transaction or sub        *)
(* transaction, its "stamp", counted over both, and MaxStamp bounds them.  *)
(***************************************************************************)
EXTENDS BlockCache

CONSTANT
    MaxSub       \* bound: a sub_num_blocks up to which blocks are written

ASSUME ClientAssumption == MaxSub \in Nat

VARIABLES
    stamp,       \* the last stamp given out
    active,      \* the stamps of the open transaction that were not aborted
    committed,   \* the stamps of ended transactions
    defined,     \* the blocks with contents that matter: not freed, not fresh
    base,        \* what they held before the open transaction; NoData for others
    subBase,     \* the contents before its sub transaction
    owed,        \* owed[i][b]: the stamp i has to bring to the disk in b
    division     \* "doubtful": the last sub transaction has misled the counts that its
                 \* detach goes by; "wrong": one that had was detached

vars == <<cacheVars, stamp, active, committed, defined, base, subBase, owed, division>>

ghosts == <<stamp, active, committed, defined, base, subBase, owed, division>>

\* What a reader of the cache sees.
View == [b \in Blocks |-> IF block[b].cached THEN block[b].current ELSE disk[b]]

Kept == [b \in Blocks |-> IF b \in defined THEN View[b] ELSE NoData]

Nothing == [b \in Blocks |-> NoData]

Init ==
    /\ CacheInit
    /\ stamp = 0 /\ active = {} /\ committed = {0}
    /\ defined = Blocks
    /\ base = Nothing /\ subBase = Nothing
    /\ owed = [i \in Ids |-> Nothing]
    /\ division = "exact"

-----------------------------------------------------------------------------
(* What cache_detach_sub_transaction() cannot tell *)

\* It goes by original_data, parent_data, main_num_blocks and sub_num_blocks.  A block that
\* the sub transaction gets empty has no original data, one that it changes again before
\* an earlier change has been written is counted again, and one that the parent has
\* discarded is counted as the parent's.
Misleads(b, i, cleared) ==
    /\ transaction[i].hasSub
    /\ \/ cleared /\ ~block[b].cached
       \/ /\ block[b].transaction = i /\ block[b].parent = NoData
          /\ block[b].discard \/ block[b].previous # NoId

\* What the sub transaction discards is taken from what the parent has changed.
MisleadsDiscarded(b) ==
    block[b].transaction # NoId /\ transaction[block[b].transaction].hasSub

Doubt(misled) == division' = IF misled /\ division = "exact" THEN "doubtful" ELSE division

\* The sub transaction is a new one.
NoDoubt == division' = IF division = "wrong" THEN "wrong" ELSE "exact"

-----------------------------------------------------------------------------

Start ==
    /\ stamp < MaxStamp
    /\ StartTransaction
    /\ stamp' = stamp + 1 /\ active' = {stamp'}
    /\ base' = Kept /\ subBase' = Nothing
    /\ UNCHANGED <<committed, defined, owed, division>>

StartSub(i) ==
    /\ stamp < MaxStamp
    /\ StartSubTransaction(i)
    /\ stamp' = stamp + 1 /\ active' = active \cup {stamp'}
    /\ subBase' = Kept
    /\ NoDoubt
    /\ UNCHANGED <<committed, defined, base, owed>>

\* What a block held that is new to the cache and asked for as an empty one is not read,
\* and an abort cannot restore it.
Write(b, i, cleared) ==
    /\ active # {}
    /\ transaction[i].sub < MaxSub
    /\ GetWritable(b, i, cleared, Max(active))
    /\ LET forget(f) == [f EXCEPT ![b] = IF cleared /\ ~block[b].cached THEN NoData ELSE @]
       IN base' = forget(base) /\ subBase' = forget(subBase)
    /\ defined' = defined \cup {b}
    /\ Doubt(Misleads(b, i, cleared))
    /\ UNCHANGED <<stamp, active, committed, owed>>

Free(b) ==
    /\ CacheDiscard(b)
    /\ defined' = defined \ {b}
    /\ Doubt(MisleadsDiscarded(b))
    /\ UNCHANGED <<stamp, active, committed, base, subBase, owed>>

Known(f) == {b \in Blocks : f[b] # NoData}

Abort(i) ==
    /\ AbortTransaction(i)
    /\ active' = {}
    /\ defined' = Known(base)
    /\ base' = Nothing /\ subBase' = Nothing
    /\ UNCHANGED <<stamp, committed, owed, division>>

AbortSub(i) ==
    /\ AbortSubTransaction(i)
    /\ active' = active \ {Max(active)}
    /\ defined' = Known(subBase)
    /\ subBase' = Nothing
    /\ UNCHANGED <<stamp, committed, base, owed, division>>

\* What an ended transaction has to bring to the disk.
Owes(i) == [b \in Blocks |->
    IF block[b].transaction = i /\ ~block[b].discard THEN block[b].current ELSE NoData]

End(i) ==
    /\ EndTransaction(i, TRUE)
    /\ committed' = committed \cup active /\ active' = {}
    /\ owed' = [owed EXCEPT ![i] = Owes(i)]
    /\ base' = Nothing /\ subBase' = Nothing
    /\ UNCHANGED <<stamp, defined, division>>

Detach(i) ==
    /\ DetachSubTransaction(i, TRUE)
    /\ committed' = committed \cup (active \ {Max(active)})
    /\ active' = {Max(active)}
    /\ base' = subBase /\ subBase' = Nothing
    /\ owed' = [owed EXCEPT ![i] = [b \in Blocks |->
            CASE block[b].transaction # i \/ block[b].discard -> NoData
              [] block[b].parent = Current -> block[b].current
              [] OTHER -> block[b].parent]]
    /\ division' = IF division = "exact" THEN "exact" ELSE "wrong"
    /\ UNCHANGED <<stamp, defined>>

Callback ==
    /\ HookReturns
    /\ owed' = [owed EXCEPT ![notifying] = Nothing]
    /\ UNCHANGED <<stamp, active, committed, defined, base, subBase, division>>

Client ==
    \/ Start
    \/ \E i \in Ids :
        \/ StartSub(i) \/ Abort(i) \/ AbortSub(i) \/ End(i) \/ Detach(i)
        \/ SyncTransaction(i) /\ UNCHANGED ghosts
        \/ \E b \in Blocks, cleared \in BOOLEAN : Write(b, i, cleared)
    \/ SyncAll /\ UNCHANGED ghosts
    \/ \E b \in Blocks : Free(b)

Inside == (WriteBlock("client") \/ ClientWritten) /\ UNCHANGED ghosts

Others ==
    /\ \/ \E b \in Blocks : Read(b) \/ RemoveUnused(b)
       \/ WriteBlock("memory") \/ WrittenRemoved
    /\ UNCHANGED ghosts

Next ==
    \/ Client \/ Inside \/ Others \/ Callback
    \/ Background /\ UNCHANGED ghosts

Spec == Init /\ [][Next]_vars

-----------------------------------------------------------------------------
(* Properties *)

TypeOK ==
    /\ \A b \in Blocks :
        /\ block[b].current \in 0..MaxStamp \cup {NoData}
        /\ block[b].original \in 0..MaxStamp \cup {NoData}
        /\ block[b].parent \in 0..MaxStamp \cup {NoData, Current}
        /\ block[b].transaction \in Ids \cup {NoId}
        /\ block[b].previous \in Ids \cup {NoId}
    /\ \A i \in Ids : transaction[i].state \in {"gone", "open", "closed"}
    /\ events \in Seq(Ids \cup {Sync})
    /\ disk \in [Blocks -> 0..MaxStamp \cup {NoData}]

\* block_cache_sync(): "We will sync all dirty blocks to disk that have a completed
\* transaction or no transaction only".  So the disk never gets to hold what an open or an
\* aborted transaction has written.
UncommittedOffDisk ==
    \A b \in Blocks : disk[b] \in committed

\* The same, as long as no division was wrong: the journal could not undo what is on the
\* disk (BlockWriter::_Data(), CanBeWritten()).
OnlyCommittedOnDisk ==
    division # "wrong" => UncommittedOffDisk

\* When the TRANSACTION_WRITTEN hook of a transaction runs, each block of it is on the
\* disk as it left it, or as a later transaction that has ended left it, unless a division
\* was wrong.  The journal frees the log entry on the strength of this.
WrittenMeansOnDisk ==
    division # "wrong" /\ notifying # NoId =>
        \A b \in Blocks : owed[notifying][b] <= disk[b]

\* What the open sub transaction has changed, and what its parent has changed or
\* discarded.
ChangedInSub(i) ==
    {b \in InTransaction(Cache, i) : block[b].parent # Current /\ ~block[b].discard}
ChangedInMain(i) ==
    {b \in InTransaction(Cache, i) : block[b].parent # NoData \/ block[b].discard}

\* As long as no division was wrong, and whatever the open sub transaction has done,
\* num_blocks counts exactly the blocks that hang on a transaction, in its list while it
\* is open and in its list of unwritten blocks afterwards; no block points to
\* a transaction that was deleted; and if the sub transaction has not misled them,
\* sub_num_blocks and main_num_blocks count exactly what a detach would make of the two.
CountsExact ==
    division # "wrong" =>
        /\ \A i \in Ids : transaction[i].state # "gone" =>
              transaction[i].num = Cardinality(InTransaction(Cache, i) \cup InPrevious(Cache, i))
        /\ \A b \in Blocks :
              /\ block[b].transaction # NoId => Open(block[b].transaction)
              /\ block[b].previous # NoId => transaction[block[b].previous].state = "closed"
        /\ division = "exact" => \A i \in Ids : Open(i) /\ transaction[i].hasSub =>
              /\ transaction[i].sub = Cardinality(ChangedInSub(i))
              /\ transaction[i].main = Cardinality(ChangedInMain(i))

\* The ASSERT()s of put_cached_block(), _BlockDone(), cache_end_transaction() and
\* Add(), unless a division was wrong: an unused block has no other data, parent data
\* exist only with a sub transaction, and a marked block is one that may be written.  The
\* one of cache_detach_sub_transaction() for original data is not among them: it fails for
\* a block that the parent has gotten empty.
AssertsHold ==
    division # "wrong" => \A b \in Blocks :
        /\ block[b].unused => block[b].original = NoData /\ block[b].parent = NoData
        /\ block[b].parent # NoData => transaction[block[b].transaction].hasSub
        /\ b \in UNION {toWrite[w] : w \in Writers} =>
                \/ block[b].previous # NoId
                \/ block[b].transaction = NoId /\ block[b].dirty
        /\ \A w, x \in Writers : b \in Busy(w) \cap Busy(x) => w = x

\* After an abort every reader sees what was there before the transaction, or, after one of
\* a sub transaction, before that, whatever was written back in the meantime; unless
\* a division was wrong.
AbortRestores ==
    [][division # "wrong" =>
       /\ \A i \in Ids : Abort(i) =>
            \A b \in Known(base) : View'[b] = base[b]
       /\ \A i \in Ids : AbortSub(i) =>
            \A b \in Known(subBase) : View'[b] = subBase[b]]_vars

=============================================================================
