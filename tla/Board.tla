-------------------------------- MODULE Board --------------------------------
(***************************************************************************)
(* The board of the game (init_game, game.c:23): 0 is a wall, 2 food, 3 an *)
(* empty cell.  Module Game takes it as its constant Matrix; TLC checks it *)
(* here and plays on a smaller one.                                        *)
(***************************************************************************)
EXTENDS Integers, Sequences

Board == <<
<<0,0,0,0,0,0,0,0,0,0,0,0,0,0,0,0,0,0,0,0,0,0,0,0,0,0,0,0,0,0,0,0,0,0,0,0,0,0,0,0,0,0,0,0,0,0,0,0,0,0>>,
<<0,2,2,2,2,2,2,2,2,2,2,2,2,2,2,2,2,2,2,2,2,2,2,2,2,2,2,2,2,2,2,2,2,2,2,2,2,2,2,2,2,2,2,2,2,2,2,2,2,0>>,
<<0,2,0,0,0,0,2,0,0,0,0,0,2,0,0,0,0,0,2,0,0,0,0,0,2,0,0,0,0,0,2,0,0,0,0,0,2,0,0,0,0,0,2,0,0,0,0,0,2,0>>,
<<0,2,0,0,0,0,2,0,0,0,0,0,2,0,0,0,0,0,2,0,0,0,0,0,2,0,0,0,0,0,2,0,0,0,0,0,2,0,0,0,0,0,2,0,0,0,0,0,2,0>>,
<<0,2,2,2,2,2,2,2,2,2,2,2,2,2,2,2,2,2,2,2,2,2,2,2,2,2,2,2,2,2,2,2,2,2,2,2,2,2,2,2,2,2,2,2,2,2,2,2,2,0>>,
<<0,2,0,0,0,0,2,0,0,2,0,0,0,0,0,2,0,0,0,0,0,2,0,0,0,0,0,2,0,0,2,0,0,0,0,0,2,0,0,0,0,0,2,0,0,0,0,0,2,0>>,
<<0,2,0,0,0,0,2,0,0,2,0,0,0,0,0,2,0,0,0,0,0,2,0,0,0,0,0,2,0,0,2,0,0,0,0,0,2,0,0,0,0,0,2,0,0,0,0,0,2,0>>,
<<0,2,2,2,2,2,2,0,0,2,2,2,2,0,0,2,2,2,2,2,2,2,0,0,2,2,2,2,0,0,2,2,2,2,2,2,2,0,0,2,2,2,2,0,0,2,2,2,2,0>>,
<<0,0,0,0,0,0,2,0,0,0,0,0,2,0,0,0,0,0,2,0,0,0,0,0,2,0,0,0,0,0,2,0,0,0,0,0,2,0,0,2,0,0,0,0,0,2,0,0,0,0>>,
<<0,0,0,0,0,0,2,0,0,0,0,0,2,0,0,0,0,0,2,0,0,0,0,0,2,0,0,0,0,0,2,0,0,0,0,0,2,0,0,2,0,0,0,0,0,2,0,0,0,0>>,
<<0,0,0,0,0,0,2,0,0,2,2,2,2,2,2,2,2,2,2,0,0,2,2,2,2,2,2,2,2,2,2,0,0,2,2,2,2,0,0,2,0,0,0,0,0,2,0,0,0,0>>,
<<0,0,0,0,0,0,2,0,0,2,0,0,0,0,0,0,0,0,2,0,0,2,0,0,0,0,0,2,0,0,2,0,0,2,0,0,0,0,0,2,0,0,0,0,0,2,0,0,0,0>>,
<<0,0,0,0,0,0,2,0,0,2,0,0,0,0,0,0,0,0,2,0,0,2,0,0,0,0,0,2,0,0,2,0,0,2,0,0,0,0,0,2,0,0,0,0,0,2,0,0,0,0>>,
<<0,2,2,2,2,2,2,2,2,2,0,0,0,0,0,0,0,0,2,0,0,2,0,0,0,0,0,2,0,0,2,2,2,2,2,2,2,0,0,2,2,2,2,2,2,2,0,0,0,0>>,
<<0,2,0,0,0,0,2,0,0,0,0,0,0,0,0,0,0,0,2,0,0,2,0,0,0,0,0,2,0,0,0,0,0,0,0,0,2,0,0,0,0,0,2,0,0,2,0,0,0,0>>,
<<0,2,0,0,0,0,2,0,0,0,0,0,0,0,0,0,0,0,2,0,0,2,2,2,2,0,0,2,0,0,0,0,0,0,0,0,2,0,0,0,0,0,2,0,0,2,0,0,0,0>>,
<<0,2,2,2,0,0,2,2,2,2,0,0,2,2,2,2,2,2,2,0,0,2,0,0,2,2,2,2,2,2,2,2,2,2,0,0,2,2,2,2,2,2,2,2,2,2,0,0,0,0>>,
<<0,2,0,2,0,0,2,0,0,2,0,0,2,0,0,2,0,0,2,0,0,2,2,2,2,0,2,0,2,0,2,0,0,2,0,0,2,0,2,0,2,0,2,0,0,2,3,3,3,0>>,
<<0,2,2,2,2,2,2,2,2,2,2,2,2,0,0,2,2,2,2,2,2,2,0,0,0,0,2,2,2,2,2,0,0,2,2,2,2,0,2,2,2,0,2,2,2,2,3,3,3,0>>,
<<0,0,0,0,0,0,0,0,0,0,0,0,0,0,0,0,0,0,0,0,0,0,0,0,0,0,0,0,0,0,0,0,0,0,0,0,0,0,0,0,0,0,0,0,0,0,0,0,0,0>> >>

Square == (0 .. 19) \X (0 .. 49)
Passable == {c \in Square : Board[c[1] + 1][c[2] + 1] # 0}
WithFood == {c \in Square : Board[c[1] + 1][c[2] + 1] = 2}

Adjacent(b, c) ==
  {b[1] - c[1], c[1] - b[1], b[2] - c[2], c[2] - b[2]} = {-1, 0, 1}

\* What can be reached from the cells of F.
Reachable[F \in SUBSET Passable] ==
  LET G == F \cup {c \in Passable : \E b \in F : Adjacent(b, c)}
  IN  IF G = F THEN F ELSE Reachable[G]

\* The rows are full, the board is closed by walls, pacman and phantoms start on
\* free cells, and all food can be eaten, so the game can be won.
ASSUME BoardAssumption ==
  /\ Len(Board) = 20 /\ \A r \in 1 .. 20 : Len(Board[r]) = 50
  /\ \A c \in Passable : c[1] \in 1 .. 18 /\ c[2] \in 1 .. 48
  /\ {<<1, 1>>, <<17, 47>>, <<18, 47>>, <<17, 48>>, <<18, 48>>} \subseteq Passable
  /\ WithFood \subseteq Reachable[{<<1, 1>>}]
=============================================================================
