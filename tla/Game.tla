-------------------------------- MODULE Game ---------------------------------
(***************************************************************************)
(* The game the child of main plays (practica/zeos/game.c).  An action is  *)
(* a turn of the loop of start_game, with the direction it finds in the    *)
(* shared word, which module Mailbox puts there; between two turns the     *)
(* game only draws, and reads the clock until DELAY ticks have gone by.    *)
(*                                                                         *)
(* Matrix keeps its walls, so food is all that is left of it as a          *)
(* variable.  A position is a cell, row and column: the fields x and y of  *)
(* pacman, but y and x of a phantom.  A phantom's dir is left out: nothing *)
(* reads it but the move it is computed for.                               *)
(*                                                                         *)
(* main has game = 0, and page 0 of a forked process is mapped: the        *)
(* fields lives and points are the words at 0 and 4.  The first is not     *)
(* used (the lives that count are a global), but the second is where a     *)
(* store to NULL->prev goes.                                               *)
(*                                                                         *)
(* Two things are left to the compiler.  The text of the lives and of the  *)
(* frames per second goes where a char that nobody set points: gcc makes   *)
(* it 0, the unused word.  And queue[rear++] = rear - 1 of bfs is read     *)
(* after the increment, as gcc does, so node rear gets its own number.     *)
(***************************************************************************)
EXTENDS Integers, Sequences, FiniteSets, LinkedList

CONSTANTS
  Matrix,   \* the board, rows of cells; the code's own is in module Board
  X_START,  \* first column and
  Y_START,  \* first row of the four cells where phantoms start
  SIGHT,    \* 17 + 10: how far a phantom sees
  LIVES     \* 3

CT_WALL == 0
CT_FOOD == 2
CT_EMPTY == 3

ROWS == Len(Matrix)
COLUMNS == Len(Matrix[1])
Cell == (0 .. ROWS - 1) \X (0 .. COLUMNS - 1)
cell(c) == Matrix[c[1] + 1][c[2] + 1]
Open == {c \in Cell : cell(c) # CT_WALL}
Food == {c \in Cell : cell(c) = CT_FOOD}
total == Cardinality(Food)

Phantom == 0 .. 3
phantom_start(i) == <<Y_START + (i % 2), X_START + (i \div 2)>>
pacman_start == <<1, 1>>

\* Matrix is an array of cells, and each is a wall, food or empty.  Nothing may be
\* open at the edge: is_viable and move look one cell further without asking where
\* the array ends.
ASSUME GameAssumption ==
  /\ Matrix \in Seq(Seq({CT_WALL, CT_FOOD, CT_EMPTY}))
  /\ Matrix # <<>> /\ \A r \in 1 .. ROWS : Len(Matrix[r]) = COLUMNS
  /\ \A c \in Open : c[1] \in 1 .. ROWS - 2 /\ c[2] \in 1 .. COLUMNS - 2
  /\ {pacman_start} \cup {phantom_start(i) : i \in Phantom} \subseteq Open
  /\ SIGHT \in Nat /\ LIVES \in Nat \ {0}
  /\ NULL \notin {"movements", "moviments"}

DT_NULL == "DT_NULL"
Direction == {"DT_UP", "DT_DOWN", "DT_LEFT", "DT_RIGHT"}

step(c, d) ==
  CASE d = "DT_UP" -> <<c[1] - 1, c[2]>>
    [] d = "DT_DOWN" -> <<c[1] + 1, c[2]>>
    [] d = "DT_LEFT" -> <<c[1], c[2] - 1>>
    [] d = "DT_RIGHT" -> <<c[1], c[2] + 1>>
    [] OTHER -> c

Node == {"movements", "moviments", NULL}

VARIABLES
  food,     \* cells with food
  pacman,   \* where the player is
  dir,      \* field pacman.dir
  phantom,  \* where each phantom is
  points, lives,
  random,   \* counts moves of phantoms; see below
  links,    \* links of the head movements and of its only entry, moviments
  moviments \* field direction of that entry, while it is in the list

vars == <<food, pacman, dir, phantom, points, lives, random, links, moviments>>

Init ==
  /\ food = Food
  /\ pacman = pacman_start /\ dir = "DT_LEFT"
  /\ phantom = [i \in Phantom |-> phantom_start(i)]
  /\ points = 0 /\ lives = LIVES
  /\ random = 0
  /\ links = INIT_LIST_HEAD([next |-> [n \in Node |-> NULL],
                             prev |-> [n \in Node |-> NULL]], "movements")
  /\ moviments = DT_NULL
-----------------------------------------------------------------------------
(* Mutated forms of the operators below; only the mutant runs use them.    *)

count_never(r) == r

move_pacman_blindly(L, d) ==
  LET is_viable == step(pacman, d) \in Open
      new_dir == IF is_viable THEN d ELSE dir
  IN  [at |-> IF list_empty(L, "movements") THEN pacman ELSE step(pacman, new_dir),
       dir |-> new_dir,
       links |-> IF is_viable THEN list_del(L, "moviments") ELSE L,
       food |-> food \ {pacman}, points |-> points]

move_pacman_leaves_food(L, d) ==
  LET at == IF step(pacman, d) \in Open THEN step(pacman, d) ELSE pacman
  IN  IF list_empty(L, "movements")
      THEN [at |-> pacman, dir |-> dir, links |-> L, food |-> food, points |-> points]
      ELSE [at |-> at, dir |-> d, links |-> list_del(L, "moviments"), food |-> food,
            points |-> IF pacman \in food THEN points + 10 ELSE points]
-----------------------------------------------------------------------------
(* The phantoms.                                                           *)

\* A node of the search: a cell, and the direction of the first step to it.
Found == [at : Open, direction : Direction \cup {DT_NULL}]

\* The nodes the search comes from n to, in the order of the directions.
neighbours(n, nodes) ==
  LET visited == {nodes[k].at : k \in DOMAIN nodes}
      found(d) ==
        IF step(n.at, d) \notin Open \ visited THEN <<>>
        ELSE <<[at |-> step(n.at, d),
                direction |-> IF n.direction = DT_NULL THEN d ELSE n.direction]>>
  IN  found("DT_UP") \o found("DT_DOWN") \o found("DT_LEFT") \o found("DT_RIGHT")

\* Mutated form: the nodes found last come first.
bfs_depth_first(start, target) ==
  LET search[q \in [nodes : Seq(Found), done : Seq(Found)]] ==
        IF q.nodes = <<>> THEN DT_NULL
        ELSE IF q.nodes[1].at = target THEN q.nodes[1].direction
        ELSE search[[nodes |-> neighbours(q.nodes[1], q.nodes \o q.done)
                                 \o Tail(q.nodes),
                     done |-> Append(q.done, q.nodes[1])]]
  IN  search[[nodes |-> <<[at |-> start, direction |-> DT_NULL]>>, done |-> <<>>]]

\* Breadth-first search: the first direction of the way to target.  The queue
\* holds the numbers of the nodes in the order in which they are found, so it is
\* the sequence nodes from front on.
bfs(start, target) ==
  LET search[q \in [nodes : Seq(Found), front : Nat \ {0}]] ==
        IF q.front > Len(q.nodes) THEN DT_NULL
        ELSE IF q.nodes[q.front].at = target THEN q.nodes[q.front].direction
        ELSE search[[nodes |-> q.nodes \o neighbours(q.nodes[q.front], q.nodes),
                     front |-> q.front + 1]]
  IN  search[[nodes |-> <<[at |-> start, direction |-> DT_NULL]>>, front |-> 1]]

phantom1 == <<2, 2, 1, 1, 1, 2, 1, 1, 2, 2>>   \* and phantom2
phantom3 == <<1, 1, 2, 2, 1, 1, 2, 2, 1, 1>>   \* and phantom4

\* Whether phantom i moves in a turn where random is r.
moves(i, r) ==
  LET indice == (r % 10) + 1
  IN  CASE i = 0 -> phantom1[indice] % 2 # 0 /\ r >= 2
        [] i = 1 -> phantom1[indice] % 2 = 0 /\ r >= 4
        [] i = 2 -> phantom3[indice] % 2 = 0 /\ r >= 1
        [] i = 3 -> phantom3[indice] % 2 = 0

abs(n) == IF n < 0 THEN -n ELSE n
sees(at, target) == abs(at[1] - target[1]) + abs(at[2] - target[2]) <= SIGHT

\* From 10 on only the last digit of random counts, so 20 is as good as 10.
count(r) == IF r = 19 THEN 10 ELSE r + 1

\* Mutated form: they make for where the pacman was.
move_phantoms_late(target) ==
  [at |-> [i \in Phantom |->
             IF sees(phantom[i], pacman) /\ moves(i, random)
             THEN step(phantom[i], bfs(phantom[i], pacman)) ELSE phantom[i]],
   random |-> count(random)]

\* Where the phantoms are and random, before and after phantom i, which random
\* goes on with if it sees the pacman.
Moved == [at : [Phantom -> Open], random : 0 .. 19]
move_phantom(i, target) ==
  [M \in Moved |->
     IF ~sees(M.at[i], target) THEN M
     ELSE [at |-> IF moves(i, M.random)
                  THEN [M.at EXCEPT ![i] = step(@, bfs(@, target))] ELSE M.at,
           random |-> count(M.random)]]

\* One after the other.
move_phantoms(target) ==
  LET M == move_phantom(0, target)[[at |-> phantom, random |-> random]]
  IN  move_phantom(3, target)[move_phantom(2, target)[move_phantom(1, target)[M]]]
-----------------------------------------------------------------------------
(* A turn.                                                                 *)

\* A direction found in the shared word goes to the entry, which is linked at
\* the end of movements even if it is there already (game.c:502).
linked(d) ==
  IF d = DT_NULL THEN links
  ELSE list_add_tail(unlinked(links, "moviments"), "moviments", "movements")

\* The pacman moves only while an entry waits; an entry is deleted when its
\* direction is open, and until then the pacman goes on as before.  With null
\* links it is deleted through NULL, where prev is the word of points.
move_pacman(L, d) ==
  LET entry == list_first(L, "movements")
      is_viable == step(pacman, d) \in Open
      new_dir == IF is_viable THEN d ELSE dir
      kept == IF is_viable /\ L.next[entry] = NULL THEN 0 ELSE points
  IN  IF list_empty(L, "movements")
      THEN [at |-> pacman, dir |-> dir, links |-> L, food |-> food, points |-> points]
      ELSE [at |-> IF step(pacman, new_dir) \in Open THEN step(pacman, new_dir)
                   ELSE pacman,
            dir |-> new_dir,
            links |-> IF is_viable THEN list_del(L, entry) ELSE L,
            food |-> food \ {pacman},
            points |-> IF pacman \in food THEN kept + 10 ELSE kept]

over == lives = 0 \/ points >= total * 10

\* A turn in which the shared word holds d.  A phantom at the pacman's cell
\* costs one life, and all go back to where they started.
turn(d) ==
  /\ ~over
  /\ \E P \in {move_pacman(linked(d), IF d = DT_NULL THEN moviments ELSE d)} :
       \E M \in {move_phantoms(P.at)} :
         LET caught == \E i \in Phantom : M.at[i] = P.at
         IN  /\ links' = P.links
             /\ moviments' = IF list_empty(P.links, "movements") THEN DT_NULL
                             ELSE IF d = DT_NULL THEN moviments ELSE d
             /\ food' = P.food
             /\ points' = P.points
             /\ random' = M.random
             /\ pacman' = IF caught THEN pacman_start ELSE P.at
             /\ dir' = IF caught THEN DT_NULL ELSE P.dir
             /\ phantom' = IF caught THEN [i \in Phantom |-> phantom_start(i)]
                           ELSE M.at
             /\ lives' = IF caught THEN lives - 1 ELSE lives

Next == \E d \in Direction \cup {DT_NULL} : turn(d)

\* The clock goes on (module Scheduler), so a turn is followed by the next.
Spec == Init /\ [][Next]_vars /\ WF_vars(Next)
-----------------------------------------------------------------------------
(* Properties.                                                             *)

\* Every variable has its type; nobody is inside a wall.
TypeOK ==
  /\ food \subseteq Food
  /\ pacman \in Open /\ dir \in Direction \cup {DT_NULL}
  /\ phantom \in [Phantom -> Open]
  /\ points \in Nat /\ lives \in 0 .. LIVES
  /\ random \in 0 .. 19
  /\ moviments \in Direction \cup {DT_NULL}

\* movements is a ring, of the head alone or of the head and its entry.
Ring ==
  LET all == {"movements", "moviments"} IN
  \/ links.next["movements"] = "movements" /\ links.prev["movements"] = "movements"
  \/ \A n, m \in all : n # m => links.next[n] = m /\ links.prev[n] = m

\* Points are food eaten: ten each, none twice, and as long as movements is a
\* ring none is lost, so nobody wins while there is food (game.c:499, 515).
PointsAreEaten ==
  /\ points <= 10 * Cardinality(Food \ food)
  /\ Ring => points = 10 * Cardinality(Food \ food)

\* Pacman and phantoms do not pass through each other, although the phantoms
\* move after the pacman, one by one, and are compared with him only in the end.
NobodyPasses ==
  [][\A i \in Phantom :
       lives' = lives => /\ phantom'[i] # pacman'
                         /\ phantom'[i] = pacman => pacman' # phantom[i]]_vars

\* The cells from which c can be reached in n steps, for each n.
within(c) ==
  LET of[n \in Nat] ==
        IF n = 0 THEN {c}
        ELSE of[n - 1] \cup {b \in Open : \E d \in Direction : step(b, d) \in of[n - 1]}
  IN  of

\* The length of the shortest way between two cells.
distance ==
  [c \in Open |->
     LET reach == [n \in 0 .. Cardinality(Open) |-> within(c)[n]]
     IN  [b \in Open |-> CHOOSE n \in DOMAIN reach :
                            b \in reach[n] /\ (n = 0 \/ b \notin reach[n - 1])]]

\* What the search is for: a phantom that moves takes a shortest way.
PhantomsGetCloser ==
  [][\A i \in Phantom : lives' = lives /\ phantom'[i] # phantom[i] =>
       distance[pacman'][phantom'[i]] = distance[pacman'][phantom[i]] - 1]_vars

\* A pacman that stands still is caught, unless the phantoms lose sight of him:
\* the tables let each of them move again and again, however many count.
SeenIsCaught ==
  \/ []<><<pacman' # pacman \/ lives' # lives>>_vars
  \/ []<>(\A i \in Phantom : ~sees(phantom[i], pacman))
  \/ <>over

\* "deletes entry from list" (list.c:69): when the direction of the entry was
\* taken, the list is empty again.
TakenIsDeleted ==
  [][links'.next["moviments"] = NULL => list_empty(links', "movements")]_vars
=============================================================================
