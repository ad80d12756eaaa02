----------------------------- MODULE MCKeyBuffer -----------------------------
(* The instance of KeyBuffer that TLC checks.                              *)
EXTENDS KeyBuffer
=============================================================================
