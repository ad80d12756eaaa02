------------------------------- MODULE Console -------------------------------
(***************************************************************************)
(* The text screen of practica/zeos: io.c, devices.c and the system calls  *)
(* over them in sys.c.  Each runs with interrupts off, as one step.  Its   *)
(* parameters are good ones: a text of the caller's (see access_ok in      *)
(* README), a position and a color that the calls accept.                  *)
(***************************************************************************)
EXTENDS Integers, Sequences, SequencesExt

CONSTANTS
  NUM_COLUMNS, NUM_ROWS,  \* 80 and 25
  TAM_BUFFER,             \* bytes that sys_write copies at a time: 512
  Glyph, Color, Newline   \* characters that show, colors, and the new line

ASSUME ConsoleAssumption ==
  /\ {NUM_COLUMNS, NUM_ROWS, TAM_BUFFER} \subseteq Nat \ {0}
  /\ Newline \notin Glyph

Column == 0 .. NUM_COLUMNS - 1
Row == 0 .. NUM_ROWS - 1

VARIABLES
  x, y,    \* the cursor
  color,   \* what set_text_color chose
  screen   \* the cells at 0xb8000, row by row: character and color

console_vars == <<x, y, color, screen>>

blank == [char |-> "blank", color |-> "none"]

ConsoleInit(row, c) ==
  /\ x = 0 /\ y = row
  /\ color = c
  /\ screen = [n \in 0 .. NUM_ROWS * NUM_COLUMNS - 1 |-> blank]

at(column, row) == row * NUM_COLUMNS + column
-----------------------------------------------------------------------------
(* Mutated forms of the operators below; only the mutant runs use them.    *)

printc_wraps_late(S, c) ==
  LET last == S.x + 1 > NUM_COLUMNS
  IN  [x |-> IF last THEN 0 ELSE S.x + 1,
       y |-> IF last THEN (S.y + 1) % NUM_ROWS ELSE S.y,
       screen |-> [S.screen EXCEPT ![at(S.x, S.y)] = [char |-> c, color |-> color]]]

chunk_from_start(buffer, k) ==
  LET left == Len(buffer) - (k - 1) * TAM_BUFFER
  IN  SubSeq(buffer, 1, IF left > TAM_BUFFER THEN TAM_BUFFER ELSE left)
-----------------------------------------------------------------------------
\* One character at the cursor of S.
printc(S, c) ==
  LET last == c = Newline \/ S.x + 1 >= NUM_COLUMNS
  IN  [x |-> IF last THEN 0 ELSE S.x + 1,
       y |-> IF last THEN (S.y + 1) % NUM_ROWS ELSE S.y,
       screen |-> IF c = Newline THEN S.screen
                  ELSE [S.screen EXCEPT ![at(S.x, S.y)] = [char |-> c, color |-> color]]]

sys_write_console(S, buffer) == FoldLeft(printc, S, buffer)

\* The text goes through a buffer on the stack, as much of it at a time as fits.
chunk(buffer, k) ==
  LET left == Len(buffer) - (k - 1) * TAM_BUFFER
  IN  SubSeq(buffer, (k - 1) * TAM_BUFFER + 1,
             IF left > TAM_BUFFER THEN k * TAM_BUFFER ELSE Len(buffer))

sys_write(buffer) ==
  LET chunks == [k \in 1 .. (Len(buffer) + TAM_BUFFER - 1) \div TAM_BUFFER |->
                   chunk(buffer, k)]
  IN  /\ \E S \in {FoldLeft(sys_write_console,
                            [x |-> x, y |-> y, screen |-> screen], chunks)} :
           x' = S.x /\ y' = S.y /\ screen' = S.screen
      /\ UNCHANGED color

sys_gotoxy(column, row) ==
  /\ x' = column /\ y' = row
  /\ UNCHANGED <<color, screen>>

sys_set_color(c) ==
  /\ color' = c
  /\ UNCHANGED <<x, y, screen>>
-----------------------------------------------------------------------------
(* Properties.                                                             *)

\* Every variable has its type: the cursor stays on the screen, or printc would
\* store behind it (io.c:43).
ConsoleTypeOK ==
  /\ x \in Column /\ y \in Row
  /\ color \in Color
  /\ screen \in [0 .. NUM_ROWS * NUM_COLUMNS - 1 ->
                   {blank} \cup [char : Glyph, color : Color]]
=============================================================================
