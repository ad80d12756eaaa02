---------------------------- MODULE MCGameScreen -----------------------------
EXTENDS GameScreen

SmallPicture ==
  { [cells |-> << <<"wall", "food">>, <<"food", "empty">> >>,
     pacman |-> <<1, 1>>, phantom |-> << <<0, 1>>, <<1, 0>> >>],
    [cells |-> << <<"wall", "empty">>, <<"food", "empty">> >>,
     pacman |-> <<0, 1>>, phantom |-> << <<0, 1>>, <<1, 1>> >>] }

SmallPid == <<"digit", "digit", "digit", "digit", "space">>

SmallMessage == <<"digit", "digit", "digit">>

SmallGlyph == {"wall", "food", "empty", "pacman", "phantom", "digit", "space"}
SmallColor == {"wall", "food", "empty", "pacman", "phantom", "surround"}
=============================================================================
