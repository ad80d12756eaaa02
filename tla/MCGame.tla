------------------------------- MODULE MCGame --------------------------------
EXTENDS Game, Board

\* Two dead ends, and the yard of the phantoms, which is a loop.
SmallMatrix ==
  << <<0, 0, 0, 0, 0, 0, 0>>,
     <<0, 2, 3, 2, 3, 3, 0>>,
     <<0, 2, 0, 2, 3, 3, 0>>,
     <<0, 2, 0, 0, 0, 0, 0>>,
     <<0, 0, 0, 0, 0, 0, 0>> >>
=============================================================================
