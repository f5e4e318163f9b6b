------------------------------ MODULE WaitQueue ------------------------------
(***************************************************************************)
(* Queues of waiting threads.  The kernel links structures that live on    *)
(* the stacks of the threads; a queue is the sequence of their threads.    *)
(***************************************************************************)
EXTENDS Sequences, Naturals

\* The threads in the queue q.
Members(q) == {q[i] : i \in 1..Len(q)}

\* No structure is linked twice.
Distinct(q) == \A i, j \in 1..Len(q) : q[i] = q[j] => i = j

\* q after its i-th entry was unlinked.
Without(q, i) == [j \in 1..(Len(q) - 1) |-> IF j < i THEN q[j] ELSE q[j + 1]]
=============================================================================
