----------------------------- MODULE MCCowMemory ------------------------------
(* The instance of CowMemory that TLC checks: the sizes are in the .cfg.   *)
EXTENDS CowMemory
=============================================================================
