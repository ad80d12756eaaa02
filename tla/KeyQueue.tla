------------------------------ MODULE KeyQueue -------------------------------
(***************************************************************************)
(* What the keyboard promises: keys are read in the order they came, each  *)
(* once, and one is dropped only when as many as fit wait to be read.      *)
(***************************************************************************)
EXTENDS Integers, Sequences

CONSTANTS Capacity, Char, MaxRead

VARIABLES
  keys,     \* keys that wait to be read
  received  \* what the last read returned

vars == <<keys, received>>

Init == keys = <<>> /\ received = <<>>

Key(c) ==
  /\ Len(keys) < Capacity
  /\ keys' = Append(keys, c)
  /\ UNCHANGED received

\* A read of up to n keys does not wait for more than there are.
Read(n) ==
  LET k == IF n > Len(keys) THEN Len(keys) ELSE n
  IN  /\ received' = SubSeq(keys, 1, k)
      /\ keys' = SubSeq(keys, k + 1, Len(keys))

Next == (\E c \in Char : Key(c)) \/ (\E n \in 0 .. MaxRead : Read(n))

Spec == Init /\ [][Next]_vars
=============================================================================
