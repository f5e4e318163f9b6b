------------------------------ MODULE FifoLock ------------------------------
(***************************************************************************)
(* What a kernel mutex promises, without spinlocks, wake-ups or counters:  *)
(* per lock there is one line of threads.  The thread at its head has the  *)
(* lock, though it may not have been told yet; a lock is passed on in the  *)
(* order in which the threads lined up, and only the thread that has been  *)
(* told it has the lock passes it on.                                      *)
(***************************************************************************)
EXTENDS Sequences, Naturals

CONSTANTS Threads, Locks

VARIABLES
    line,        \* line[m]: the threads that have or wait for m, owner first
    holds        \* holds[t]: the locks t knows to have

fifoVars == <<line, holds>>

FifoInit ==
    /\ line = [m \in Locks |-> <<>>]
    /\ holds = [t \in Threads |-> {}]

\* t finds the lock free and has it at once.
Grab(t, m) ==
    /\ line[m] = <<>>
    /\ line' = [line EXCEPT ![m] = <<t>>]
    /\ holds' = [holds EXCEPT ![t] = @ \cup {m}]

\* t lines up.
Join(t, m) ==
    /\ m \notin holds[t]
    /\ line' = [line EXCEPT ![m] = Append(@, t)]
    /\ UNCHANGED holds

\* The thread at the head learns that it has the lock.
Learn(t, m) ==
    /\ line[m] # <<>> /\ Head(line[m]) = t
    /\ holds' = [holds EXCEPT ![t] = @ \cup {m}]
    /\ UNCHANGED line

\* The owner passes the lock on.
Pass(t, m) ==
    /\ m \in holds[t]
    /\ line[m] # <<>> /\ Head(line[m]) = t
    /\ line' = [line EXCEPT ![m] = Tail(@)]
    /\ holds' = [holds EXCEPT ![t] = @ \ {m}]

\* The owner lets another thread take its place.
Give(t, m, u) ==
    /\ m \in holds[t] /\ m \notin holds[u]
    /\ line[m] # <<>> /\ Head(line[m]) = t
    /\ line' = [line EXCEPT ![m] = <<u>> \o Tail(@)]
    /\ holds' = [holds EXCEPT ![t] = @ \ {m}, ![u] = @ \cup {m}]

\* A thread that does not have the lock leaves the line at place i.
Quit(m, i) ==
    /\ i \in 1..Len(line[m])
    /\ m \notin holds[line[m][i]]
    /\ line' = [line EXCEPT ![m] =
                  [j \in 1..(Len(@) - 1) |-> IF j < i THEN @[j] ELSE @[j + 1]]]
    /\ UNCHANGED holds

\* The owner closes the lock and sends everybody away.
Close(t, m) ==
    /\ m \in holds[t]
    /\ line[m] # <<>> /\ Head(line[m]) = t
    /\ line' = [line EXCEPT ![m] = <<>>]
    /\ holds' = [holds EXCEPT ![t] = @ \ {m}]

FifoNext ==
    \E m \in Locks :
        \/ \E t \in Threads :
              \/ Grab(t, m) \/ Join(t, m) \/ Learn(t, m)
              \/ Pass(t, m) \/ Close(t, m)
              \/ \E u \in Threads : Give(t, m, u)
        \/ \E i \in 1..Len(line[m]) : Quit(m, i)

FifoSpec == FifoInit /\ [][FifoNext]_fifoVars
=============================================================================
