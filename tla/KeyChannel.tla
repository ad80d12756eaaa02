----------------------------- MODULE KeyChannel ------------------------------
(***************************************************************************)
(* What the player may expect of the keys of the game: the game handles    *)
(* the directions that were typed, in that order and leaving out none,     *)
(* until it is over.  It is not each once: while none is waiting, the one  *)
(* handled last can be handled again.                                      *)
(***************************************************************************)
EXTENDS Sequences

CONSTANTS Direction, NoDirection

VARIABLES
  typed,      \* flips with every key that gets into the keyboard
  pending,    \* directions typed and not handled yet
  direction,  \* the one handled last
  over        \* whether the game is over

vars == <<typed, pending, direction, over>>

Init == typed = FALSE /\ pending = <<>> /\ direction = NoDirection /\ over = FALSE

\* A key, which may be a direction; nothing comes of it when the game is over.
Type ==
  /\ typed' = ~typed
  /\ pending' \in {pending} \cup {Append(pending, d) : d \in Direction}
  /\ over => pending' = pending
  /\ UNCHANGED <<direction, over>>

Handle ==
  /\ pending # <<>>
  /\ direction' = Head(pending)
  /\ pending' = Tail(pending)
  /\ UNCHANGED <<typed, over>>

\* What was in the reader's variable passes for a key: the last direction or, before
\* there was one, anything.
Again ==
  /\ pending = <<>> /\ ~over
  /\ pending' \in {<<d>> : d \in IF direction = NoDirection THEN Direction
                                                         ELSE {direction}}
  /\ UNCHANGED <<typed, direction, over>>

End ==
  /\ over' = TRUE
  /\ pending' = <<>>
  /\ UNCHANGED <<typed, direction>>

Next == Type \/ Handle \/ Again \/ End

Spec == Init /\ [][Next]_vars
=============================================================================
