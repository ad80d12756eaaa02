----------------------------- MODULE GameScreen ------------------------------
(***************************************************************************)
(* Two processes on one screen (practica/zeos, user.c and game.c): the     *)
(* child draws the frames of the game, call by call, while the parent      *)
(* writes the number of its child once, whenever it gets the processor     *)
(* (user.c:39).  Cursor and color belong to the screen, not to a process:  *)
(* a switch between two calls of a frame may leave them elsewhere.         *)
(*                                                                         *)
(* A frame shows a picture: the cells of the board and where the units     *)
(* are.  Module Game says how it changes; here the next may be any of      *)
(* Picture.  The numbers drawn beside the board are one character each,    *)
(* and its labels are left out.                                            *)
(***************************************************************************)
EXTENDS Console

CONSTANTS
  ROWS, COLUMNS,  \* of the board: 20 and 50
  LEFT, TOP,      \* where the board is on the screen: 10 and 2
  LABEL,          \* column of the points, beside the board: 72
  Message,        \* what is left on the screen in the end
  Picture,        \* pictures: [cells, pacman, phantom]
  Pid             \* what the parent writes

Square == (0 .. ROWS - 1) \X (0 .. COLUMNS - 1)

\* The board with its margins and labels is on the screen, a picture has the
\* board's size, and no text is longer than the screen.
ASSUME ScreenAssumption ==
  /\ {ROWS, COLUMNS, LEFT, TOP, LABEL} \subseteq Nat \ {0}
  /\ LEFT + COLUMNS < LABEL /\ LABEL < NUM_COLUMNS
  /\ TOP + ROWS <= NUM_ROWS
  /\ {"surround", "pacman", "phantom"} \subseteq Color
  /\ {"space", "digit", "pacman", "phantom"} \subseteq Glyph
  /\ Message \in Seq(Glyph)
  /\ at(LEFT, TOP) + Len(Message) <= NUM_ROWS * NUM_COLUMNS
  /\ Pid \in Seq(Glyph) /\ Len(Pid) <= NUM_ROWS * NUM_COLUMNS
  /\ \A p \in Picture :
       /\ \A i \in 1 .. ROWS, j \in 1 .. COLUMNS : p.cells[i][j] \in Glyph \cap Color
       /\ p.pacman \in Square /\ p.phantom \in Seq(Square)

VARIABLES
  phase,      \* what the child is at: the start, a frame, the end
  picture,    \* what the child draws
  done,       \* calls of this phase that are done
  written,    \* whether the parent has written
  disturbed   \* history: whether it did so during this phase

screen_vars == <<console_vars, phase, picture, done, written, disturbed>>

gotoxy(column, row) == [op |-> "gotoxy", x |-> column, y |-> row]
set_color(c) == [op |-> "set_color", color |-> c]
write(buffer) == [op |-> "write", buffer |-> buffer]
-----------------------------------------------------------------------------
(* The calls of a phase, game.c.                                           *)

clear_screen ==
  <<set_color("surround"), gotoxy(0, 0)>> \o
    [n \in 1 .. NUM_ROWS * NUM_COLUMNS |-> write(<<"space">>)]

\* Coordinates and lives, in the first column, in whatever color there is.
imprimir_coordenadas ==
  FlattenSeq([r \in 1 .. ROWS |-> <<gotoxy(0, TOP + r - 1), write(<<"digit">>)>>])

\* Mutated form: one position for the whole map.
print_map_in_one(p) ==
  <<gotoxy(LEFT, TOP)>> \o
    FlattenSeq([i \in 1 .. ROWS |->
      FlattenSeq([j \in 1 .. COLUMNS |->
        <<set_color(p.cells[i][j]), write(<<p.cells[i][j]>>)>>])])

print_map(p) ==
  FlattenSeq([i \in 1 .. ROWS |->
    <<gotoxy(LEFT, TOP + i - 1)>> \o
      FlattenSeq([j \in 1 .. COLUMNS |->
        <<set_color(p.cells[i][j]), write(<<p.cells[i][j]>>)>>])])

print_unit(cell, unit) ==
  <<gotoxy(LEFT + cell[2], TOP + cell[1]), set_color(unit), write(<<unit>>)>>

print_units(p) ==
  print_unit(p.pacman, "pacman") \o
    FlattenSeq([i \in 1 .. Len(p.phantom) |-> print_unit(p.phantom[i], "phantom")])

\* Frames per second, from the clock, then the points, beside the board.
print_frame(p) ==
  print_map(p) \o print_units(p) \o
    << gotoxy(1, TOP - 1), write(<<"digit">>),
       set_color("surround"), gotoxy(1, TOP - 1), write(<<"space">>),
       set_color("phantom"), gotoxy(LABEL, TOP), write(<<"digit">>) >>

init_game(p) ==
  clear_screen \o print_map(p) \o print_units(p) \o
    << gotoxy(LABEL - 1, TOP), write(<<"digit">>),
       gotoxy(LABEL, TOP), write(<<"digit">>) >>

\* When the pacman is caught, restart draws the frame once more, and the lives.
turn(p) == imprimir_coordenadas \o print_frame(p)
turn_caught(p) ==
  turn(p) \o <<gotoxy(LABEL - 1, TOP), write(<<"digit">>)>> \o print_frame(p)

end_game ==
  clear_screen \o <<set_color("pacman"), gotoxy(LEFT, TOP), write(Message)>>

calls ==
  CASE phase = "start" -> init_game(picture)
    [] phase = "turn" -> turn(picture)
    [] phase = "caught" -> turn_caught(picture)
    [] phase = "end" -> end_game
-----------------------------------------------------------------------------
ScreenInit ==
  /\ ConsoleInit(NUM_ROWS - 1, "surround")
  /\ phase = "start"
  /\ picture \in Picture
  /\ done = 0
  /\ written = FALSE /\ disturbed = FALSE

call(c) ==
  CASE c.op = "gotoxy" -> sys_gotoxy(c.x, c.y)
    [] c.op = "set_color" -> sys_set_color(c.color)
    [] c.op = "write" -> sys_write(c.buffer)

draw ==
  /\ done < Len(calls)
  /\ call(calls[done + 1])
  /\ done' = done + 1
  /\ UNCHANGED <<phase, picture, written, disturbed>>

drawn == done = Len(calls)

\* When the game is over the child only reads keys (module Mailbox).
next_phase ==
  /\ drawn /\ phase # "end"
  /\ phase' \in {"turn", "caught", "end"}
  /\ picture' \in Picture
  /\ done' = 0
  /\ disturbed' = FALSE
  /\ UNCHANGED <<console_vars, written>>

parent_writes ==
  /\ ~written
  /\ sys_write(Pid)
  /\ written' = TRUE /\ disturbed' = TRUE
  /\ UNCHANGED <<phase, picture, done>>

ScreenNext == draw \/ next_phase \/ parent_writes

ScreenSpec == ScreenInit /\ [][ScreenNext]_screen_vars
-----------------------------------------------------------------------------
(* Properties.                                                             *)

\* What the screen shows at cell c of the board when it shows picture p: a unit,
\* the last drawn first, or the cell.
shown(p, c) ==
  LET units == {p.phantom[i] : i \in DOMAIN p.phantom}
      what == IF c \in units THEN "phantom"
              ELSE IF c = p.pacman THEN "pacman" ELSE p.cells[c[1] + 1][c[2] + 1]
  IN  [char |-> what, color |-> what]

board_is_right ==
  \A c \in Square :
    screen[at(LEFT + c[2], TOP + c[1])] = shown(picture, c)

message_is_right ==
  \A k \in DOMAIN Message :
    screen[at(LEFT, TOP) + k - 1] = [char |-> Message[k], color |-> "pacman"]

\* What nobody disturbs is drawn right whatever the cursor, the color and the
\* screen were before: nothing of an earlier frame, of a disturbed one or of what
\* the parent wrote stays on the board or in the message.
FrameIsRight ==
  drawn /\ ~disturbed => IF phase = "end" THEN message_is_right ELSE board_is_right

\* A text is on the screen as it was written, each character once and in order
\* from where the cursor was, although it is copied in pieces (sys.c:190).
WriteIsWhole ==
  [][parent_writes =>
       \A k \in DOMAIN Pid :
         LET n == (at(x, y) + k - 1) % (NUM_ROWS * NUM_COLUMNS)
         IN  screen'[n] = [char |-> Pid[k], color |-> color]]_screen_vars
=============================================================================
