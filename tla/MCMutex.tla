------------------------------ MODULE MCMutex ------------------------------
(* Instances of Mutex for TLC: mutex "a" guards the object mutex "b" is in. *)
EXTENDS Mutex, TLC

CONSTANTS a, b

OneLock   == {a}
TwoLocks  == {a, b}
NoPairs   == {}
AThenB    == {<<a, b>>}
Symmetric == Permutations(Threads)
=============================================================================
