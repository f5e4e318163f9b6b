--------------------------- MODULE ThreadBlocking ---------------------------
(***************************************************************************)
(* The thread blocking API of the kernel (headers/private/kernel/thread.h, *)
(* src/system/kernel/thread.cpp) as the locking primitives see it.         *)
(*                                                                         *)
(* Each thread has a word thread->wait.status.  It is 1 while the thread   *)
(* waits and otherwise holds the code the wait ended with.  Every way of   *)
(* ending a wait is a test-and-set from 1: the first unblocker decides the *)
(* result and the later ones have no effect.  A client therefore blocks in *)
(* two steps: thread_prepare_to_block() with its own spinlock held, and    *)
(* thread_block() after the spinlock has been dropped.                     *)
(***************************************************************************)
CONSTANT
    Threads      \* the kernel threads

VARIABLE
    wait         \* wait[t] is thread->wait.status of thread t

-----------------------------------------------------------------------------

Waiting == "waiting"             \* wait.status == 1

B_OK          == "B_OK"
B_ERROR       == "B_ERROR"       \* any error that an unblocker passes
B_TIMED_OUT   == "B_TIMED_OUT"
B_INTERRUPTED == "B_INTERRUPTED"

Results == {B_OK, B_ERROR, B_TIMED_OUT, B_INTERRUPTED}

WaitTypeOK == wait \in [Threads -> Results \cup {Waiting}]

\* The status words before any thread has blocked: the result of some old wait.
NoWaits == [t \in Threads |-> B_OK]

(***************************************************************************)
(* The operations, as functions of the status words w so that a critical   *)
(* section can apply several of them.                                      *)
(***************************************************************************)
thread_prepare_to_block(w, t) == [w EXCEPT ![t] = Waiting]

thread_is_blocked(w, t) == w[t] = Waiting

\* atomic_test_and_set(&thread->wait.status, status, 1): first one wins.
thread_unblock(w, t, status) ==
    IF thread_is_blocked(w, t) THEN [w EXCEPT ![t] = status] ELSE w

\* A loop that unblocks each thread of a set with the same status.
UnblockAll(w, S, status) ==
    [t \in Threads |-> IF t \in S /\ thread_is_blocked(w, t)
                       THEN status ELSE w[t]]

\* The timer hook of thread_block_with_timeout() runs for thread t.
thread_block_timeout(t) ==
    /\ thread_is_blocked(wait, t)
    /\ wait' = thread_unblock(wait, t, B_TIMED_OUT)

\* thread_block() returns: the wait of t has ended.
Unblocked(t) == ~thread_is_blocked(wait, t)

=============================================================================
