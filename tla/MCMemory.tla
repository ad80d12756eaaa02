------------------------------ MODULE MCMemory -------------------------------
(* The instances of Memory that TLC checks: the sizes are in the .cfg's.   *)
EXTENDS Memory
=============================================================================
