---------------------------- MODULE MCBlockCache ----------------------------
(* Instances of BlockCacheClient for TLC. *)
EXTENDS BlockCacheClient

\* After a wrong division the properties say nothing, and TLC does not go on.
NoWrongDivision == division # "wrong"
=============================================================================
