---------------------------- MODULE MCSemaphore ----------------------------
(* Instances of Semaphore for TLC. *)
EXTENDS Semaphore

CONSTANTS a, b, t1, t2, t3, t4

Two == {t1, t2}
Three == {t1, t2, t3}
Four == {t1, t2, t3, t4}

OneSlot == {a}
TwoSlots == {a, b}
NoSwitches == {}
AThenB == {<<a, b>>}
NoThreads == {}
AllThreads == Threads
Symmetric == Permutations(Threads)
=============================================================================
