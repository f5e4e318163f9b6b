------------------------ MODULE MCConditionVariable ------------------------
(* Instances of ConditionVariable for TLC. *)
EXTENDS ConditionVariable

CONSTANTS t1, t2, t3

Three == {t1, t2, t3}
Two == {t1, t2}
Others == {t2, t3}
=============================================================================
