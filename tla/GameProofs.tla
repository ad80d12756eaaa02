----------------------------- MODULE GameProofs ------------------------------
(***************************************************************************)
(* Theorems about module Game, for every board, every number of lives and  *)
(* however far the phantoms see.                                           *)
(***************************************************************************)
EXTENDS Game, QueueLemmas

-----------------------------------------------------------------------------
(* The board.                                                              *)

\* The cells of the board, and that there are finitely many of them.
LEMMA BoardFacts ==
  /\ ROWS \in Nat /\ COLUMNS \in Nat
  /\ \A c \in Open : c = <<c[1], c[2]>> /\ c[1] \in Int /\ c[2] \in Int
  /\ IsFiniteSet(Open) /\ IsFiniteSet(Food) /\ Food \subseteq Open
<1>1. ROWS \in Nat \ {0} /\ Matrix[1] \in Seq({CT_WALL, CT_FOOD, CT_EMPTY})
  <2>1. ROWS \in Nat \ {0}
    BY GameAssumption, EmptySeq DEF ROWS
  <2>2. 1 \in 1 .. Len(Matrix)
    BY <2>1 DEF ROWS
  <2>3. QED
    BY <2>1, <2>2, GameAssumption, ElementOfSeq
<1>2. COLUMNS \in Nat
  BY <1>1, LenProperties DEF COLUMNS
<1>3. IsFiniteSet(Cell)
  <2>1. IsFiniteSet(0 .. ROWS - 1) /\ IsFiniteSet(0 .. COLUMNS - 1)
    BY <1>1, <1>2, FS_Interval
  <2>2. QED
    BY <2>1, FS_Product DEF Cell
<1>4. Open \subseteq Cell /\ Food \subseteq Cell
  BY DEF Open, Food
<1>5. Food \subseteq Open
  BY DEF Food, Open, CT_FOOD, CT_WALL
<1>6. \A c \in Cell : c = <<c[1], c[2]>> /\ c[1] \in Int /\ c[2] \in Int
  BY DEF Cell
<1>7. QED
  BY <1>1, <1>2, <1>3, <1>4, <1>5, <1>6, FS_Subset

\* The cells where the game starts.
LEMMA StartFacts ==
  /\ pacman_start \in Open
  /\ \A i \in Phantom : phantom_start(i) \in Open
BY GameAssumption

\* The directions are different, and each leads to a cell of its own.
LEMMA StepFacts ==
  ASSUME NEW c \in Open
  PROVE  /\ DT_NULL \notin Direction /\ step(c, DT_NULL) = c
         /\ \A d \in Direction : step(c, d) # c
         /\ \A d, e \in Direction : step(c, d) = step(c, e) => d = e
<1>1. PICK x \in Int, y \in Int : c = <<x, y>>
  BY BoardFacts
<1>2. /\ step(c, "DT_UP") = <<x - 1, y>> /\ step(c, "DT_DOWN") = <<x + 1, y>>
      /\ step(c, "DT_LEFT") = <<x, y - 1>> /\ step(c, "DT_RIGHT") = <<x, y + 1>>
      /\ step(c, DT_NULL) = c
  BY <1>1 DEF step, DT_NULL
<1>3. QED
  BY <1>1, <1>2 DEF Direction, DT_NULL

-----------------------------------------------------------------------------
(* The search.                                                             *)

\* The states of the search: it begins with the node of start, and after the
\* node at the front comes the next.
Search == [nodes : Seq(Found), front : Nat \ {0}]
Begin(start) == [nodes |-> <<[at |-> start, direction |-> DT_NULL]>>, front |-> 1]
After(q) == [nodes |-> q.nodes \o neighbours(q.nodes[q.front], q.nodes),
             front |-> q.front + 1]

Visited(nodes) == {nodes[k].at : k \in DOMAIN nodes}

\* The node a step from n leads to, if it is new.
NodeTo(n, d) == [at |-> step(n.at, d),
                 direction |-> IF n.direction = DT_NULL THEN d ELSE n.direction]
NewFrom(n, nodes) == {d \in Direction : step(n.at, d) \in Open \ Visited(nodes)}

\* No two nodes are at the same cell.
Distinct(s) == \A j, k \in 1 .. Len(s) : s[j].at = s[k].at => j = k

\* What two sequences hold, one after the other.
LEMMA JoinRange ==
  ASSUME NEW S, NEW s \in Seq(S), NEW t \in Seq(S)
  PROVE  /\ s \o t \in Seq(S) /\ Len(s \o t) = Len(s) + Len(t)
         /\ Range(s \o t) = Range(s) \cup Range(t)
<1>1. Len(s) \in Nat /\ Len(t) \in Nat
  BY LenProperties
<1>2. /\ s \o t \in Seq(S) /\ Len(s \o t) = Len(s) + Len(t)
      /\ \A i \in 1 .. Len(s) + Len(t) :
           (s \o t)[i] = IF i <= Len(s) THEN s[i] ELSE t[i - Len(s)]
  BY ConcatProperties
<1>3. /\ Range(s) = {s[i] : i \in 1 .. Len(s)}
      /\ Range(t) = {t[i] : i \in 1 .. Len(t)}
      /\ Range(s \o t) = {(s \o t)[i] : i \in 1 .. Len(s) + Len(t)}
  BY <1>2, RangeEquality
<1>4. ASSUME NEW x \in Range(s \o t)
      PROVE  x \in Range(s) \cup Range(t)
  <2>1. PICK i \in 1 .. Len(s) + Len(t) : x = (s \o t)[i]
    BY <1>3
  <2>2. i \in 1 .. Len(s) \/ (~(i <= Len(s)) /\ i - Len(s) \in 1 .. Len(t))
    BY <1>1
  <2>3. QED
    BY <1>2, <1>3, <2>1, <2>2
<1>5. ASSUME NEW x \in Range(s)
      PROVE  x \in Range(s \o t)
  <2>1. PICK i \in 1 .. Len(s) : x = s[i]
    BY <1>3
  <2>2. i \in 1 .. Len(s) + Len(t) /\ i <= Len(s)
    BY <1>1
  <2>3. QED
    BY <1>2, <1>3, <2>1, <2>2
<1>6. ASSUME NEW x \in Range(t)
      PROVE  x \in Range(s \o t)
  <2>1. PICK i \in 1 .. Len(t) : x = t[i]
    BY <1>3
  <2>2. /\ i + Len(s) \in 1 .. Len(s) + Len(t) /\ ~(i + Len(s) <= Len(s))
        /\ (i + Len(s)) - Len(s) = i
    BY <1>1
  <2>3. QED
    BY <1>2, <1>3, <2>1, <2>2
<1>7. QED
  BY <1>2, <1>4, <1>5, <1>6

\* Nodes at different cells stay so when others at other cells are added.
LEMMA JoinDistinct ==
  ASSUME NEW S, NEW s \in Seq(S), NEW t \in Seq(S), Distinct(s), Distinct(t),
         \A x \in Range(s), y \in Range(t) : x.at # y.at
  PROVE  Distinct(s \o t)
<1>1. Len(s) \in Nat /\ Len(t) \in Nat
  BY LenProperties
<1>2. /\ Len(s \o t) = Len(s) + Len(t)
      /\ \A i \in 1 .. Len(s) + Len(t) :
           (s \o t)[i] = IF i <= Len(s) THEN s[i] ELSE t[i - Len(s)]
  BY ConcatProperties
<1>3. \A i \in 1 .. Len(s), j \in 1 .. Len(t) : s[i].at # t[j].at
  BY RangeEquality
<1>4. SUFFICES ASSUME NEW j \in 1 .. Len(s) + Len(t), NEW k \in 1 .. Len(s) + Len(t),
                      (s \o t)[j].at = (s \o t)[k].at
               PROVE  j = k
  BY <1>2 DEF Distinct
<1>5. /\ j \in 1 .. Len(s) \/ (~(j <= Len(s)) /\ j - Len(s) \in 1 .. Len(t))
      /\ k \in 1 .. Len(s) \/ (~(k <= Len(s)) /\ k - Len(s) \in 1 .. Len(t))
  BY <1>1
<1>6. CASE j \in 1 .. Len(s) /\ k \in 1 .. Len(s)
  <2>1. (s \o t)[j] = s[j] /\ (s \o t)[k] = s[k]
    BY <1>1, <1>2, <1>6
  <2>2. QED
    BY <1>4, <1>6, <2>1 DEF Distinct
<1>7. CASE ~(j <= Len(s)) /\ ~(k <= Len(s))
  <2>1. (s \o t)[j] = t[j - Len(s)] /\ (s \o t)[k] = t[k - Len(s)]
    BY <1>1, <1>2, <1>7
  <2>2. j - Len(s) = k - Len(s)
    BY <1>4, <1>5, <1>7, <2>1 DEF Distinct
  <2>3. QED
    BY <1>1, <2>2
<1>8. CASE j \in 1 .. Len(s) /\ ~(k <= Len(s))
  <2>1. (s \o t)[j] = s[j] /\ (s \o t)[k] = t[k - Len(s)]
    BY <1>1, <1>2, <1>8
  <2>2. QED
    BY <1>3, <1>4, <1>5, <1>8, <2>1
<1>9. CASE ~(j <= Len(s)) /\ k \in 1 .. Len(s)
  <2>1. (s \o t)[k] = s[k] /\ (s \o t)[j] = t[j - Len(s)]
    BY <1>1, <1>2, <1>9
  <2>2. QED
    BY <1>3, <1>4, <1>5, <1>9, <2>1
<1>10. QED
  BY <1>1, <1>5, <1>6, <1>7, <1>8, <1>9

\* The nodes the search comes from n to: one for each direction that leads to an
\* open cell not visited.
LEMMA NeighboursFound ==
  ASSUME NEW n \in Found, NEW nodes
  PROVE  LET r == neighbours(n, nodes)
         IN  /\ r \in Seq(Found) /\ Len(r) <= 4 /\ Distinct(r)
             /\ Range(r) = {NodeTo(n, d) : d \in NewFrom(n, nodes)}
<1> DEFINE found(d) == IF step(n.at, d) \notin Open \ Visited(nodes) THEN <<>>
                       ELSE <<NodeTo(n, d)>>
           r == neighbours(n, nodes)
           here(D) == {NodeTo(n, d) : d \in D \cap NewFrom(n, nodes)}
<1>1. r = found("DT_UP") \o found("DT_DOWN") \o found("DT_LEFT") \o found("DT_RIGHT")
  BY DEF neighbours, Visited, NodeTo
<1>2. n.at \in Open /\ n.direction \in Direction \cup {DT_NULL}
  BY DEF Found
<1>3. ASSUME NEW d \in Direction
      PROVE  /\ found(d) \in Seq(Found) /\ Len(found(d)) <= 1 /\ Len(found(d)) \in Nat
             /\ Distinct(found(d)) /\ Range(found(d)) = here({d})
  <2>1. CASE d \in NewFrom(n, nodes)
    <3>1. found(d) = <<NodeTo(n, d)>>
      BY <2>1 DEF NewFrom
    <3>2. NodeTo(n, d) \in Found
      BY <1>2, <2>1 DEF NodeTo, Found, NewFrom
    <3>3. /\ <<NodeTo(n, d)>> \in Seq(Found) /\ Len(<<NodeTo(n, d)>>) = 1
          /\ DOMAIN <<NodeTo(n, d)>> = {1} /\ <<NodeTo(n, d)>>[1] = NodeTo(n, d)
      BY <3>2
    <3> HIDE DEF found
    <3>4. Range(found(d)) = {NodeTo(n, d)}
      BY <3>1, <3>3 DEF Range
    <3>5. here({d}) = {NodeTo(n, d)}
      BY <2>1
    <3>6. Distinct(found(d))
      BY <3>1, <3>3 DEF Distinct
    <3>7. QED
      BY <3>1, <3>3, <3>4, <3>5, <3>6
  <2>2. CASE d \notin NewFrom(n, nodes)
    <3>1. found(d) = <<>>
      BY <2>2 DEF NewFrom
    <3>2. here({d}) = {}
      BY <2>2
    <3> HIDE DEF found
    <3>3. <<>> \in Seq(Found) /\ Len(<<>>) = 0 /\ Range(<<>>) = {}
      BY EmptySeq, EmptyRange
    <3>4. QED
      BY <3>1, <3>2, <3>3 DEF Distinct
  <2>3. QED
    BY <2>1, <2>2
<1>4. ASSUME NEW D \in SUBSET Direction, NEW E \in SUBSET Direction, D \cap E = {}
      PROVE  \A x \in here(D), y \in here(E) : x.at # y.at
  <2> SUFFICES ASSUME NEW d \in D, NEW e \in E
               PROVE  NodeTo(n, d).at # NodeTo(n, e).at
    OBVIOUS
  <2>1. d # e /\ d \in Direction /\ e \in Direction
    BY <1>4
  <2>2. QED
    BY <1>2, <2>1, StepFacts DEF NodeTo
<1>5. \A D, E : here(D \cup E) = here(D) \cup here(E)
  OBVIOUS
<1> DEFINE OK(s, D, k) == /\ s \in Seq(Found) /\ Len(s) <= k /\ Distinct(s)
                          /\ Range(s) = here(D)
<1>6. ASSUME NEW s, NEW D \in SUBSET Direction, NEW k \in Nat, OK(s, D, k),
             NEW d \in Direction \ D
      PROVE  OK(s \o found(d), D \cup {d}, k + 1)
  <2>1. /\ found(d) \in Seq(Found) /\ Len(found(d)) <= 1 /\ Len(found(d)) \in Nat
        /\ Distinct(found(d)) /\ Range(found(d)) = here({d})
    BY <1>3
  <2>2. \A x \in here(D), y \in here({d}) : x.at # y.at
    <3>1. {d} \in SUBSET Direction /\ D \cap {d} = {}
      OBVIOUS
    <3> HIDE DEF here
    <3>2. QED
      BY <1>4, <3>1
  <2>3. here(D \cup {d}) = here(D) \cup here({d})
    BY <1>5
  <2> HIDE DEF found, here
  <2>4. /\ s \o found(d) \in Seq(Found) /\ Len(s \o found(d)) = Len(s) + Len(found(d))
        /\ Range(s \o found(d)) = here(D) \cup here({d})
    BY <1>6, <2>1, JoinRange
  <2>5. Distinct(s \o found(d))
    BY <1>6, <2>1, <2>2, JoinDistinct
  <2>6. Len(s) \in Nat
    BY <1>6, LenProperties
  <2>7. Len(s \o found(d)) <= k + 1
    BY <1>6, <2>1, <2>4, <2>6
  <2>8. QED
    BY <2>3, <2>4, <2>5, <2>7
<1>7. "DT_UP" \in Direction /\ OK(found("DT_UP"), {"DT_UP"}, 1)
  <2>1. "DT_UP" \in Direction
    BY DEF Direction
  <2> HIDE DEF found, here
  <2>2. QED
    BY <1>3, <2>1
<1> HIDE DEF found, OK, here
<1>8. OK(found("DT_UP") \o found("DT_DOWN"), {"DT_UP", "DT_DOWN"}, 2)
  <2>1. /\ {"DT_UP"} \in SUBSET Direction /\ "DT_DOWN" \in Direction \ {"DT_UP"}
        /\ {"DT_UP"} \cup {"DT_DOWN"} = {"DT_UP", "DT_DOWN"} /\ 1 + 1 = 2
    BY DEF Direction
  <2>2. OK(found("DT_UP") \o found("DT_DOWN"), {"DT_UP"} \cup {"DT_DOWN"}, 1 + 1)
    BY <1>6, <1>7, <2>1
  <2>3. QED
    BY <2>1, <2>2
<1>9. OK(found("DT_UP") \o found("DT_DOWN") \o found("DT_LEFT"),
         {"DT_UP", "DT_DOWN", "DT_LEFT"}, 3)
  <2>1. /\ {"DT_UP", "DT_DOWN"} \in SUBSET Direction
        /\ "DT_LEFT" \in Direction \ {"DT_UP", "DT_DOWN"}
        /\ {"DT_UP", "DT_DOWN"} \cup {"DT_LEFT"} = {"DT_UP", "DT_DOWN", "DT_LEFT"}
        /\ 2 + 1 = 3
    BY DEF Direction
  <2>2. OK(found("DT_UP") \o found("DT_DOWN") \o found("DT_LEFT"),
           {"DT_UP", "DT_DOWN"} \cup {"DT_LEFT"}, 2 + 1)
    BY <1>6, <1>8, <2>1
  <2>3. QED
    BY <2>1, <2>2
<1>10. OK(r, Direction, 4)
  <2>1. /\ {"DT_UP", "DT_DOWN", "DT_LEFT"} \in SUBSET Direction
        /\ "DT_RIGHT" \in Direction \ {"DT_UP", "DT_DOWN", "DT_LEFT"}
        /\ {"DT_UP", "DT_DOWN", "DT_LEFT"} \cup {"DT_RIGHT"} = Direction
        /\ 3 + 1 = 4
    BY DEF Direction
  <2>2. OK(found("DT_UP") \o found("DT_DOWN") \o found("DT_LEFT") \o found("DT_RIGHT"),
           {"DT_UP", "DT_DOWN", "DT_LEFT"} \cup {"DT_RIGHT"}, 3 + 1)
    BY <1>6, <1>9, <2>1
  <2> HIDE DEF r
  <2>3. QED
    BY <1>1, <2>1, <2>2
<1>11. here(Direction) = {NodeTo(n, d) : d \in NewFrom(n, nodes)}
  BY DEF here, NewFrom
<1>12. QED
  BY <1>10, <1>11 DEF OK

\* What is left of a search: the cells to visit, five times as they may each add
\* to the queue, and the queue.
left(q) ==
  5 * Cardinality(Open \ Visited(q.nodes))
    + (IF q.front > Len(q.nodes) THEN 0 ELSE Len(q.nodes) - q.front + 1)

\* The cells visited, by the nodes.
LEMMA VisitedRange ==
  ASSUME NEW s
  PROVE  Visited(s) = {x.at : x \in Range(s)}
BY DEF Visited, Range

\* The next state of a search, its nodes first those there were and then the ones
\* found, is nearer to the end.
LEMMA SearchStep ==
  ASSUME NEW q \in Search, q.front <= Len(q.nodes)
  PROVE  LET n == q.nodes[q.front]
             r == neighbours(n, q.nodes)
         IN  /\ n \in Found /\ r \in Seq(Found) /\ q.front \in 1 .. Len(q.nodes)
             /\ After(q) \in Search
             /\ left(q) \in Nat /\ left(After(q)) \in Nat /\ left(After(q)) < left(q)
<1> DEFINE s == q.nodes
           n == s[q.front]
           r == neighbours(n, s)
           U == Open \ Visited(s)
           W == Open \ Visited(s \o r)
<1>1. s \in Seq(Found) /\ q.front \in Nat \ {0} /\ Len(s) \in Nat
  BY LenProperties DEF Search
<1>2. n \in Found /\ q.front \in 1 .. Len(s)
  BY <1>1, ElementOfSeq
<1>3. /\ r \in Seq(Found) /\ Len(r) <= 4
      /\ Range(r) = {NodeTo(n, d) : d \in NewFrom(n, s)}
  BY <1>2, NeighboursFound
<1> HIDE DEF r
<1>4. Len(r) \in Nat
  BY <1>3, LenProperties
<1>5. /\ s \o r \in Seq(Found) /\ Len(s \o r) = Len(s) + Len(r)
      /\ Range(s \o r) = Range(s) \cup Range(r)
  BY <1>1, <1>3, JoinRange
<1>6. /\ After(q) \in Search /\ After(q).nodes = s \o r
      /\ After(q).front = q.front + 1
  <2>1. After(q) = [nodes |-> s \o r, front |-> q.front + 1]
    BY DEF After, r
  <2>2. QED
    BY <1>1, <1>5, <2>1 DEF Search
<1>7. IsFiniteSet(U) /\ Cardinality(U) \in Nat
  BY BoardFacts, FS_Subset, FS_CardinalityType
<1>8. W \subseteq U
  BY <1>5, VisitedRange
<1>9. Cardinality(W) \in Nat /\ Cardinality(W) <= Cardinality(U)
  BY <1>7, <1>8, FS_Subset, FS_CardinalityType
<1>10. r # <<>> => Cardinality(W) < Cardinality(U)
  <2> SUFFICES ASSUME r # <<>> PROVE Cardinality(W) < Cardinality(U)
    OBVIOUS
  <2>1. Range(r) # {}
    BY <1>3, EmptyRange
  <2>2. PICK d \in NewFrom(n, s) : NodeTo(n, d) \in Range(r)
    BY <1>3, <2>1
  <2>3. step(n.at, d) \in U /\ step(n.at, d) \notin W
    BY <1>5, <2>2, VisitedRange DEF NewFrom, NodeTo
  <2>4. W # U
    BY <2>3
  <2>5. QED
    BY <1>7, <1>8, <1>9, <2>4, FS_Subset
<1>11. Len(r) = 0 => r = <<>>
  BY <1>3, EmptySeq
<1> DEFINE u == Cardinality(U)
           w == Cardinality(W)
           before(l, f, x) == 5 * x + (l - f + 1)
           after(l, k, f, y) ==
             5 * y + (IF f + 1 > l + k THEN 0 ELSE l + k - (f + 1) + 1)
<1>12. /\ left(q) = before(Len(s), q.front, u)
       /\ left(After(q)) = after(Len(s), Len(r), q.front, w)
  BY <1>1, <1>2, <1>5, <1>6 DEF left
<1>13. u \in Nat /\ w \in Nat /\ w <= u /\ (Len(r) # 0 => w < u)
  BY <1>7, <1>9, <1>10
<1>14. ASSUME NEW l \in Nat, NEW k \in Nat, k <= 4, NEW f \in 1 .. l,
              NEW x \in Nat, NEW y \in Nat, y <= x, k # 0 => y < x
       PROVE  /\ before(l, f, x) \in Nat /\ after(l, k, f, y) \in Nat
              /\ after(l, k, f, y) < before(l, f, x)
  <2>1. k # 0 => y + 1 <= x
    BY <1>14
  <2>2. CASE k = 0
    BY <1>14, <2>2
  <2>3. CASE k # 0
    BY <1>14, <2>1, <2>3
  <2>4. QED
    BY <2>2, <2>3
<1> HIDE DEF u, w, s, before, after
<1>15. left(q) \in Nat /\ left(After(q)) \in Nat /\ left(After(q)) < left(q)
  <2>1. /\ before(Len(s), q.front, u) \in Nat
        /\ after(Len(s), Len(r), q.front, w) \in Nat
        /\ after(Len(s), Len(r), q.front, w) < before(Len(s), q.front, u)
    BY <1>1, <1>2, <1>3, <1>4, <1>13, <1>14
  <2>2. QED
    BY <1>12, <2>1
<1>16. QED
  BY <1>2, <1>3, <1>6, <1>15 DEF r, s

\* bfs is what its recursive definition says, as every search comes to an end.
LEMMA SearchComputed ==
  ASSUME NEW start \in Open, NEW target
  PROVE  \E search :
           /\ bfs(start, target) = search[Begin(start)]
           /\ \A q \in Search :
                search[q] = IF q.front > Len(q.nodes) THEN DT_NULL
                            ELSE IF q.nodes[q.front].at = target
                                 THEN q.nodes[q.front].direction
                            ELSE search[After(q)]
<1> DEFINE V == Direction \cup {DT_NULL}
           body(f, q) == IF q.front > Len(q.nodes) THEN DT_NULL
                         ELSE IF q.nodes[q.front].at = target
                              THEN q.nodes[q.front].direction
                         ELSE f[After(q)]
           m == [q \in Search |-> IF q.front > Len(q.nodes) THEN 0 ELSE left(q)]
           D == [p \in Search \X [Search -> V] |-> body(p[2], p[1])]
           search == CHOOSE f : f = [q \in Search |-> body(f, q)]
<1>1. V # {}
  OBVIOUS
<1>2. ASSUME NEW q \in Search
      PROVE  /\ q.front \in Nat /\ Len(q.nodes) \in Nat
             /\ ~(q.front > Len(q.nodes)) =>
                  /\ q.nodes[q.front].direction \in V
                  /\ After(q) \in Search
                  /\ m[q] \in Nat /\ m[After(q)] < m[q]
             /\ m[q] \in Nat
  <2>1. q.front \in Nat \ {0} /\ Len(q.nodes) \in Nat
    BY LenProperties DEF Search
  <2>2. CASE q.front > Len(q.nodes)
    BY <2>1, <2>2
  <2>3. CASE ~(q.front > Len(q.nodes))
    <3>1. q.front <= Len(q.nodes)
      BY <2>1, <2>3
    <3>2. /\ q.nodes[q.front] \in Found /\ After(q) \in Search
          /\ left(q) \in Nat /\ left(After(q)) \in Nat /\ left(After(q)) < left(q)
      BY <3>1, SearchStep
    <3>3. m[q] = left(q) /\ m[After(q)] \in {0, left(After(q))}
      BY <2>3, <3>2
    <3>4. 0 <= left(After(q))
      BY <3>2
    <3> HIDE DEF m
    <3>5. QED
      BY <2>1, <3>2, <3>3, <3>4 DEF Found
  <2>4. QED
    BY <2>2, <2>3
<1>3. m \in [Search -> Nat]
  <2>1. \A q \in Search : m[q] \in Nat
    BY <1>2
  <2>2. QED
    BY <2>1
<1> HIDE DEF m
<1>4. /\ D \in [Search \X [Search -> V] -> V]
      /\ \A q \in Search, f \in [Search -> V] : D[<<q, f>>] = body(f, q)
  <2>1. ASSUME NEW q \in Search, NEW f \in [Search -> V]
        PROVE  body(f, q) \in V
    BY <1>2
  <2>2. QED
    BY <2>1
<1>5. \A q \in Search : \A f, g \in [Search -> V] :
        (\A k \in Search : m[k] < m[q] => f[k] = g[k]) => D[<<q, f>>] = D[<<q, g>>]
  <2> SUFFICES ASSUME NEW q \in Search, NEW f \in [Search -> V], NEW g \in [Search -> V],
                      \A k \in Search : m[k] < m[q] => f[k] = g[k]
               PROVE  body(f, q) = body(g, q)
    <3> HIDE DEF body, V, D, m
    <3>1. QED
      BY <1>4
  <2>1. ~(q.front > Len(q.nodes)) => f[After(q)] = g[After(q)]
    BY <1>2
  <2>2. QED
    BY <2>1
<1> HIDE DEF body, V, D, m
<1>6. PICK f \in [Search -> V] : \A q \in Search : f[q] = D[<<q, f>>]
  <2>1. LooksBelow(Search, V, m, D)
    BY <1>5 DEF LooksBelow
  <2>2. Solvable(Search, V, D)
    BY <1>1, <1>3, <1>4, <2>1, Recursion, Zenon
  <2>3. QED
    BY <2>2 DEF Solvable
<1>7. f = [q \in Search |-> body(f, q)]
  BY <1>4, <1>6
<1>8. search = [q \in Search |-> body(search, q)]
  BY <1>7
<1>9. bfs(start, target) = search[Begin(start)]
  BY DEF bfs, body, Search, Begin, After
<1> HIDE DEF search
<1>10. \A q \in Search : search[q] = body(search, q)
  BY <1>8
<1>11. QED
  BY <1>9, <1>10 DEF body

\* Induction over a search: G are states of it that lead to each other, and R the
\* directions that may come of them.
LEMMA SearchInduction ==
  ASSUME NEW start \in Open, NEW target, NEW R, NEW G \in SUBSET Search,
         Begin(start) \in G, DT_NULL \in R,
         \A q \in G : q.front <= Len(q.nodes) =>
           IF q.nodes[q.front].at = target THEN q.nodes[q.front].direction \in R
           ELSE After(q) \in G
  PROVE  bfs(start, target) \in R
<1>1. PICK search :
        /\ bfs(start, target) = search[Begin(start)]
        /\ \A q \in Search :
             search[q] = IF q.front > Len(q.nodes) THEN DT_NULL
                         ELSE IF q.nodes[q.front].at = target
                              THEN q.nodes[q.front].direction
                         ELSE search[After(q)]
  BY SearchComputed
<1> DEFINE bad == {q \in G : search[q] \notin R}
           T == {left(q) : q \in bad}
<1>2. \A q \in Search : q.front \in Nat /\ Len(q.nodes) \in Nat
  BY LenProperties DEF Search
<1>3. ASSUME NEW q \in bad
      PROVE  After(q) \in bad /\ left(q) \in Nat /\ left(After(q)) < left(q)
  <2>1. q \in G /\ q \in Search /\ search[q] \notin R
    OBVIOUS
  <2>2. ~(q.front > Len(q.nodes))
    BY <1>1, <2>1
  <2>3. q.front <= Len(q.nodes)
    BY <1>2, <2>1, <2>2
  <2>4. search[q] = search[After(q)] /\ After(q) \in G
    BY <1>1, <2>1, <2>2, <2>3
  <2>5. QED
    BY <2>1, <2>3, <2>4, SearchStep
<1>4. bad = {}
  <2> SUFFICES ASSUME bad # {} PROVE FALSE
    OBVIOUS
  <2>1. T \in SUBSET Nat /\ T # {}
    BY <1>3
  <2> HIDE DEF T
  <2>2. PICK k \in T : \A j \in T : k <= j
    BY <2>1, Least
  <2>3. PICK q \in bad : k = left(q)
    BY DEF T
  <2>4. left(After(q)) \in T /\ left(After(q)) < k
    BY <1>3, <2>3 DEF T
  <2>5. k \in Nat /\ left(After(q)) \in Nat /\ k <= left(After(q))
    BY <2>1, <2>2, <2>4
  <2>6. QED
    BY <2>4, <2>5
<1>5. QED
  BY <1>1, <1>4

\* The nodes after a step of the search: those there were, and those found.
LEMMA AfterNodes ==
  ASSUME NEW q \in Search, q.front <= Len(q.nodes)
  PROVE  LET n == q.nodes[q.front]
             r == neighbours(n, q.nodes)
         IN  /\ n \in Range(q.nodes)
             /\ After(q).nodes = q.nodes \o r /\ After(q).front = q.front + 1
             /\ Range(After(q).nodes)
                  = Range(q.nodes) \cup {NodeTo(n, d) : d \in NewFrom(n, q.nodes)}
<1> DEFINE n == q.nodes[q.front]
           r == neighbours(n, q.nodes)
<1>1. n \in Found /\ r \in Seq(Found) /\ q.front \in 1 .. Len(q.nodes)
  BY SearchStep
<1>2. q.nodes \in Seq(Found)
  BY DEF Search
<1>3. n \in Range(q.nodes)
  BY <1>1, <1>2, RangeEquality
<1>4. Range(r) = {NodeTo(n, d) : d \in NewFrom(n, q.nodes)}
  BY <1>1, NeighboursFound
<1>5. After(q).nodes = q.nodes \o r /\ After(q).front = q.front + 1
  BY DEF After
<1> HIDE DEF n, r
<1>6. Range(q.nodes \o r) = Range(q.nodes) \cup Range(r)
  BY <1>1, <1>2, JoinRange
<1>7. QED
  BY <1>3, <1>4, <1>5, <1>6 DEF n, r

\* The first state of a search.
LEMMA BeginFacts ==
  ASSUME NEW start \in Open
  PROVE  LET n == [at |-> start, direction |-> DT_NULL]
         IN  /\ Begin(start) \in Search /\ n \in Found
             /\ Begin(start).front = 1 /\ Begin(start).nodes = <<n>>
             /\ Len(<<n>>) = 1 /\ <<n>>[1] = n /\ Range(<<n>>) = {n}
<1> DEFINE n == [at |-> start, direction |-> DT_NULL]
<1>1. n \in Found
  BY DEF Found
<1> HIDE DEF n
<1>2. <<n>> \in Seq(Found) /\ Len(<<n>>) = 1 /\ <<n>>[1] = n /\ DOMAIN <<n>> = {1}
  BY <1>1
<1>3. Range(<<n>>) = {n}
  BY <1>2 DEF Range
<1>4. Begin(start) = [nodes |-> <<n>>, front |-> 1]
  BY DEF Begin, n
<1>5. Begin(start) \in Search
  BY <1>2, <1>4 DEF Search
<1>6. QED
  BY <1>1, <1>2, <1>3, <1>4, <1>5 DEF n

\* The node of start has no direction, and the direction of any other is open.
FirstStep(start, x) ==
  \/ x.direction = DT_NULL /\ x.at = start
  \/ x.direction \in Direction /\ step(start, x.direction) \in Open

\* A step from such a node leads to such a node.
LEMMA NextFirstStep ==
  ASSUME NEW start \in Open, NEW n, FirstStep(start, n),
         NEW nodes, NEW d \in NewFrom(n, nodes)
  PROVE  FirstStep(start, NodeTo(n, d)) /\ NodeTo(n, d).direction \in Direction
<1>1. d \in Direction /\ step(n.at, d) \in Open /\ d # DT_NULL
  BY StepFacts DEF NewFrom
<1>2. DT_NULL \notin Direction
  BY StepFacts
<1>3. CASE n.direction = DT_NULL
  <2>1. NodeTo(n, d).direction = d /\ n.at = start
    BY <1>2, <1>3 DEF NodeTo, FirstStep
  <2>2. QED
    BY <1>1, <2>1 DEF FirstStep
<1>4. CASE n.direction # DT_NULL
  <2>1. NodeTo(n, d).direction = n.direction
    BY <1>4 DEF NodeTo
  <2>2. QED
    BY <1>4, <2>1 DEF FirstStep
<1>5. QED
  BY <1>3, <1>4

\* The search never sends a phantom into a wall.
LEMMA SearchViable ==
  ASSUME NEW start \in Open, NEW target
  PROVE  step(start, bfs(start, target)) \in Open
<1> DEFINE R == {d \in Direction \cup {DT_NULL} : step(start, d) \in Open}
           G == {q \in Search : \A x \in Range(q.nodes) : FirstStep(start, x)}
<1>1. DT_NULL \in R
  BY StepFacts
<1>2. Begin(start) \in G
  <2> DEFINE n == [at |-> start, direction |-> DT_NULL]
  <2>1. Begin(start) \in Search /\ Range(Begin(start).nodes) = {n}
    BY BeginFacts
  <2>2. FirstStep(start, n)
    BY DEF FirstStep
  <2> HIDE DEF n
  <2>3. QED
    BY <2>1, <2>2
<1>3. ASSUME NEW q \in G, q.front <= Len(q.nodes)
      PROVE  /\ q.nodes[q.front].direction \in R
             /\ After(q) \in G
  <2> DEFINE n == q.nodes[q.front]
  <2>1. n \in Range(q.nodes) /\ FirstStep(start, n)
    BY <1>3, AfterNodes
  <2>2. n.direction \in R
    BY <1>1, <2>1 DEF FirstStep
  <2>3. ASSUME NEW x \in Range(After(q).nodes)
        PROVE  FirstStep(start, x)
    <3>1. Range(After(q).nodes)
            = Range(q.nodes) \cup {NodeTo(n, d) : d \in NewFrom(n, q.nodes)}
      BY <1>3, AfterNodes
    <3> HIDE DEF n
    <3>2. x \in Range(q.nodes) \/ \E d \in NewFrom(n, q.nodes) : x = NodeTo(n, d)
      BY <3>1
    <3>3. QED
      BY <2>1, <3>2, NextFirstStep
  <2>4. QED
    BY <1>3, <2>2, <2>3, SearchStep
<1> HIDE DEF R, G
<1>4. G \in SUBSET Search
  BY DEF G
<1>5. bfs(start, target) \in R
  BY <1>1, <1>2, <1>3, <1>4, SearchInduction
<1>6. QED
  BY <1>5 DEF R

\* A phantom that is there stays.
LEMMA SearchStays ==
  ASSUME NEW start \in Open
  PROVE  bfs(start, start) = DT_NULL
<1> DEFINE R == {DT_NULL}
           G == {Begin(start)}
<1>1. Begin(start) \in G /\ DT_NULL \in R /\ G \in SUBSET Search
  BY BeginFacts
<1>2. ASSUME NEW q \in G
      PROVE  q.nodes[q.front].at = start /\ q.nodes[q.front].direction \in R
  <2> DEFINE n == [at |-> start, direction |-> DT_NULL]
  <2>1. q.nodes[q.front] = n
    BY BeginFacts
  <2>2. QED
    BY <2>1
<1> HIDE DEF R, G
<1>3. bfs(start, start) \in R
  BY <1>1, <1>2, SearchInduction
<1>4. QED
  BY <1>3 DEF R
-----------------------------------------------------------------------------
(* The phantoms.                                                           *)

\* random goes round.
LEMMA CountType ==
  ASSUME NEW r \in 0 .. 19
  PROVE  count(r) \in 0 .. 19
BY DEF count

\* A phantom moves to an open cell, one step from where it was or not at all, and
\* the others stay.
LEMMA PhantomMoves ==
  ASSUME NEW i \in Phantom, NEW target, NEW M \in Moved
  PROVE  LET N == move_phantom(i, target)[M]
         IN  /\ N \in Moved
             /\ \A j \in Phantom \ {i} : N.at[j] = M.at[j]
             /\ N.at[i] \in {M.at[i], step(M.at[i], bfs(M.at[i], target))}
<1> DEFINE N == move_phantom(i, target)[M]
           to == step(M.at[i], bfs(M.at[i], target))
<1>1. M.at \in [Phantom -> Open] /\ M.random \in 0 .. 19 /\ M.at[i] \in Open
  BY DEF Moved
<1>2. to \in Open
  BY <1>1, SearchViable
<1>3. N = IF ~sees(M.at[i], target) THEN M
          ELSE [at |-> IF moves(i, M.random) THEN [M.at EXCEPT ![i] = to] ELSE M.at,
                random |-> count(M.random)]
  BY DEF move_phantom
<1> HIDE DEF N, to
<1>4. N.at = M.at \/ N.at = [M.at EXCEPT ![i] = to]
  BY <1>3
<1>5. N \in Moved
  <2>1. [M.at EXCEPT ![i] = to] \in [Phantom -> Open]
    BY <1>1, <1>2
  <2>2. QED
    BY <1>1, <1>3, <2>1, CountType DEF Moved
<1>6. QED
  BY <1>1, <1>4, <1>5 DEF N, to

\* So do all, one after the other: each takes the way of its own search.
LEMMA PhantomsMove ==
  ASSUME phantom \in [Phantom -> Open], random \in 0 .. 19, NEW target
  PROVE  LET M == move_phantoms(target)
         IN  /\ M.at \in [Phantom -> Open] /\ M.random \in 0 .. 19
             /\ \A i \in Phantom :
                  M.at[i] \in {phantom[i], step(phantom[i], bfs(phantom[i], target))}
<1> DEFINE M0 == [at |-> phantom, random |-> random]
           M1 == move_phantom(0, target)[M0]
           M2 == move_phantom(1, target)[M1]
           M3 == move_phantom(2, target)[M2]
           M4 == move_phantom(3, target)[M3]
<1>1. move_phantoms(target) = M4
  BY DEF move_phantoms
<1>2. Phantom = {0, 1, 2, 3}
  BY DEF Phantom
<1>3. M0 \in Moved /\ M0.at = phantom
  BY DEF Moved
<1> HIDE DEF M0
<1>4. /\ M1 \in Moved /\ \A j \in Phantom \ {0} : M1.at[j] = M0.at[j]
      /\ M1.at[0] \in {M0.at[0], step(M0.at[0], bfs(M0.at[0], target))}
  BY <1>2, <1>3, PhantomMoves
<1> HIDE DEF M1
<1>5. /\ M2 \in Moved /\ \A j \in Phantom \ {1} : M2.at[j] = M1.at[j]
      /\ M2.at[1] \in {M1.at[1], step(M1.at[1], bfs(M1.at[1], target))}
  BY <1>2, <1>4, PhantomMoves
<1> HIDE DEF M2
<1>6. /\ M3 \in Moved /\ \A j \in Phantom \ {2} : M3.at[j] = M2.at[j]
      /\ M3.at[2] \in {M2.at[2], step(M2.at[2], bfs(M2.at[2], target))}
  BY <1>2, <1>5, PhantomMoves
<1> HIDE DEF M3
<1>7. /\ M4 \in Moved /\ \A j \in Phantom \ {3} : M4.at[j] = M3.at[j]
      /\ M4.at[3] \in {M3.at[3], step(M3.at[3], bfs(M3.at[3], target))}
  BY <1>2, <1>6, PhantomMoves
<1> HIDE DEF M4
<1>8. /\ M4.at[0] \in {phantom[0], step(phantom[0], bfs(phantom[0], target))}
      /\ M4.at[1] \in {phantom[1], step(phantom[1], bfs(phantom[1], target))}
      /\ M4.at[2] \in {phantom[2], step(phantom[2], bfs(phantom[2], target))}
      /\ M4.at[3] \in {phantom[3], step(phantom[3], bfs(phantom[3], target))}
  BY <1>2, <1>3, <1>4, <1>5, <1>6, <1>7
<1>9. M4.at \in [Phantom -> Open] /\ M4.random \in 0 .. 19
  BY <1>7 DEF Moved
<1>10. \A i \in Phantom :
         M4.at[i] \in {phantom[i], step(phantom[i], bfs(phantom[i], target))}
  BY <1>2, <1>8
<1>11. QED
  BY <1>1, <1>9, <1>10

-----------------------------------------------------------------------------
(* The invariant.  The list of movements is the head alone, the head and   *)
(* its entry, or broken: the entry was linked a second time.  As long as   *)
(* it is not broken no points are lost, and once broken it stays so.       *)

Alone(L) == L.next["movements"] = "movements" /\ L.prev["movements"] = "movements"

Waiting(L) ==
  /\ L.next["movements"] = "moviments" /\ L.prev["movements"] = "moviments"
  /\ L.next["moviments"] = "movements" /\ L.prev["moviments"] = "movements"

Broken(L) ==
  /\ L.next["movements"] = "moviments" /\ L.prev["movements"] = "moviments"
  /\ L.next["moviments"] \in {"moviments", NULL}
  /\ L.prev["moviments"] \in {"moviments", NULL}

Links == [next : [Node -> Node], prev : [Node -> Node]]

eaten == 10 * Cardinality(Food \ food)

PointsCounted ==
  \/ (Alone(links) \/ Waiting(links)) /\ points = eaten
  \/ Broken(links) /\ points <= eaten

IInv == TypeOK /\ links \in Links /\ PointsCounted

\* The nodes of the list are different.
LEMMA NodeFacts ==
  /\ Node = {"movements", "moviments", NULL}
  /\ "movements" # "moviments" /\ NULL # "movements" /\ NULL # "moviments"
BY GameAssumption DEF Node

\* A key that is given links the entry, and breaks the list if it is linked.
LEMMA LinkedShape ==
  ASSUME links \in Links, NEW d, d # DT_NULL
  PROVE  /\ linked(d) \in Links
         /\ Alone(links) => Waiting(linked(d))
         /\ Waiting(links) \/ Broken(links) => Broken(linked(d))
<1> DEFINE U == unlinked(links, "moviments")
           L == linked(d)
<1>1. /\ U.next = [links.next EXCEPT !["moviments"] = NULL]
      /\ U.prev = [links.prev EXCEPT !["moviments"] = NULL]
  BY DEF unlinked
<1>2. U.next \in [Node -> Node] /\ U.prev \in [Node -> Node]
  BY <1>1, NodeFacts DEF Links
<1> HIDE DEF U
<1> DEFINE last == U.prev["movements"]
<1>3. last \in Node /\ last = links.prev["movements"]
  BY <1>1, <1>2, NodeFacts DEF Links
<1>4. L = insert(U, "moviments", last, "movements")
  BY DEF linked, list_add_tail, U
<1>5. /\ L = [next |-> [U.next EXCEPT !["moviments"] = "movements", ![last] = "moviments"],
              prev |-> [U.prev EXCEPT !["movements"] = "moviments", !["moviments"] = last]]
  BY <1>4 DEF insert
<1> HIDE DEF L, last
<1>6. L \in Links
  BY <1>2, <1>3, <1>5, NodeFacts DEF Links
<1>7. Alone(links) => Waiting(L)
  BY <1>1, <1>2, <1>3, <1>5, NodeFacts DEF Alone, Waiting, Links
<1>8. Waiting(links) \/ Broken(links) => Broken(L)
  BY <1>1, <1>2, <1>3, <1>5, NodeFacts DEF Broken, Waiting, Links
<1>9. QED
  BY <1>6, <1>7, <1>8 DEF L

\* Deleting the entry leaves the head alone, if the list is not broken.
LEMMA DeletedShape ==
  ASSUME NEW L \in Links, Waiting(L) \/ Broken(L)
  PROVE  LET D == list_del(L, "moviments")
         IN  /\ D \in Links
             /\ Waiting(L) => Alone(D)
             /\ Broken(L) => Broken(D)
<1> DEFINE p == L.prev["moviments"]
           n == L.next["moviments"]
           J == join(L, p, n)
           D == list_del(L, "moviments")
<1>1. p \in Node /\ n \in Node
  BY NodeFacts DEF Links
<1>2. J = [next |-> [L.next EXCEPT ![p] = n], prev |-> [L.prev EXCEPT ![n] = p]]
  BY DEF join
<1>3. D = [next |-> [J.next EXCEPT !["moviments"] = NULL],
           prev |-> [J.prev EXCEPT !["moviments"] = NULL]]
  BY DEF list_del, unlinked
<1>4. L.next \in [Node -> Node] /\ L.prev \in [Node -> Node]
  BY DEF Links
<1> HIDE DEF J, D
<1>5. /\ D.next = [[L.next EXCEPT ![p] = n] EXCEPT !["moviments"] = NULL]
      /\ D.prev = [[L.prev EXCEPT ![n] = p] EXCEPT !["moviments"] = NULL]
      /\ D = [next |-> D.next, prev |-> D.prev]
  BY <1>2, <1>3
<1>6. D \in Links
  <2>1. D.next \in [Node -> Node] /\ D.prev \in [Node -> Node]
    BY <1>1, <1>4, <1>5, NodeFacts
  <2>2. QED
    BY <1>5, <2>1 DEF Links
<1>7. Waiting(L) => Alone(D)
  BY <1>4, <1>5, NodeFacts DEF Alone, Waiting
<1>8. Broken(L) => Broken(D)
  BY <1>4, <1>5, NodeFacts DEF Broken
<1>9. QED
  BY <1>6, <1>7, <1>8 DEF D

\* What a turn of the pacman may do: the list, where he goes, and his points.
LEMMA PacmanMoves ==
  ASSUME IInv, NEW e \in Direction \cup {DT_NULL}, NEW d \in Direction \cup {DT_NULL}
  PROVE  LET P == move_pacman(linked(e), d)
         IN  /\ P.links \in Links
             /\ P.at \in Open /\ P.dir \in Direction \cup {DT_NULL}
             /\ P.food \subseteq Food /\ P.points \in Nat
             /\ \/ /\ Alone(P.links) \/ Waiting(P.links)
                   /\ P.points = 10 * Cardinality(Food \ P.food)
                \/ /\ Broken(P.links)
                   /\ P.points <= 10 * Cardinality(Food \ P.food)
<1> DEFINE L == linked(e)
           P == move_pacman(L, d)
           entry == list_first(L, "movements")
           viable == step(pacman, d) \in Open
           new_dir == IF viable THEN d ELSE dir
           kept == IF viable /\ L.next[entry] = NULL THEN 0 ELSE points
<1>1. /\ food \subseteq Food /\ pacman \in Open /\ dir \in Direction \cup {DT_NULL}
      /\ points \in Nat /\ links \in Links /\ PointsCounted
  BY DEF IInv, TypeOK
<1>2. /\ L \in Links
      /\ \/ (Alone(L) \/ Waiting(L)) /\ points = eaten
         \/ Broken(L) /\ points <= eaten
  <2>1. CASE e = DT_NULL
    <3>1. L = links
      BY <2>1 DEF linked
    <3> HIDE DEF L
    <3>2. QED
      BY <1>1, <3>1 DEF PointsCounted
  <2>2. CASE e # DT_NULL
    <3>1. /\ L \in Links /\ (Alone(links) => Waiting(L))
          /\ (Waiting(links) \/ Broken(links) => Broken(L))
      BY <1>1, <2>2, LinkedShape
    <3>2. eaten \in Int
      <4>1. Cardinality(Food \ food) \in Nat
        BY BoardFacts, FS_Subset, FS_CardinalityType
      <4>2. QED
        BY <4>1 DEF eaten
    <3> HIDE DEF L
    <3>3. QED
      BY <1>1, <3>1, <3>2 DEF PointsCounted
  <2>3. QED
    BY <2>1, <2>2
<1> HIDE DEF L
<1>3. CASE Alone(L)
  <2>1. P = [at |-> pacman, dir |-> dir, links |-> L, food |-> food, points |-> points]
    BY <1>3 DEF move_pacman, list_empty, Alone
  <2>2. ~Broken(L)
    BY <1>3, NodeFacts DEF Alone, Broken
  <2> HIDE DEF P
  <2>3. QED
    BY <1>1, <1>2, <1>3, <2>1, <2>2 DEF eaten, P, L
<1>4. CASE Waiting(L) \/ Broken(L)
  <2>1. entry = "moviments" /\ ~list_empty(L, "movements")
    BY <1>4, NodeFacts DEF Waiting, Broken, list_first, list_empty
  <2>2. /\ P.at = (IF step(pacman, new_dir) \in Open THEN step(pacman, new_dir) ELSE pacman)
        /\ P.dir = new_dir
        /\ P.links = (IF viable THEN list_del(L, "moviments") ELSE L)
        /\ P.food = food \ {pacman}
        /\ P.points = (IF pacman \in food THEN kept + 10 ELSE kept)
    BY <2>1 DEF move_pacman
  <2> HIDE DEF P, entry
  <2>3. P.at \in Open /\ P.dir \in Direction \cup {DT_NULL} /\ P.food \subseteq Food
    BY <1>1, <2>2
  <2>4. /\ P.links \in Links
        /\ Waiting(L) => Alone(P.links) \/ Waiting(P.links)
        /\ Broken(L) => Broken(P.links)
    BY <1>2, <1>4, <2>2, DeletedShape
  <2>5. /\ kept \in Nat /\ kept <= points
        /\ Waiting(L) => kept = points
    BY <1>1, <2>1, NodeFacts DEF Waiting
  <2> HIDE DEF kept
  <2> DEFINE was == Cardinality(Food \ food)
             now == Cardinality(Food \ P.food)
  <2>6. was \in Nat /\ now = (IF pacman \in food THEN was + 1 ELSE was)
    <3>1. IsFiniteSet(Food \ food) /\ Cardinality(Food \ food) \in Nat
      BY BoardFacts, FS_Subset, FS_CardinalityType
    <3>2. CASE pacman \in food
      <4>1. Food \ P.food = (Food \ food) \cup {pacman} /\ pacman \notin Food \ food
        BY <1>1, <2>2, <3>2
      <4>2. Cardinality((Food \ food) \cup {pacman}) = was + 1
        BY <3>1, <4>1, FS_AddElement
      <4>3. QED
        BY <3>1, <3>2, <4>1, <4>2
    <3>3. CASE pacman \notin food
      <4>1. Food \ P.food = Food \ food
        BY <2>2, <3>3
      <4>2. QED
        BY <3>1, <3>3, <4>1
    <3>4. QED
      BY <3>2, <3>3
  <2>7. eaten = 10 * was
    BY DEF eaten
  <2>8. ~(Waiting(L) /\ Broken(L)) /\ ~Alone(L)
    BY <1>4, NodeFacts DEF Alone, Waiting, Broken
  <2> HIDE DEF was, now
  <2>9. /\ P.points \in Nat
        /\ Waiting(L) => P.points = 10 * now
        /\ Broken(L) => P.points <= 10 * now
    BY <1>1, <1>2, <2>2, <2>5, <2>6, <2>7, <2>8
  <2>10. QED
    BY <1>4, <2>3, <2>4, <2>9 DEF now, P, L
<1>5. QED
  BY <1>2, <1>3, <1>4 DEF L

\* Whether a phantom is where the pacman is.
Caught(P, M) == \E i \in Phantom : M.at[i] = P.at

\* A turn: the pacman moves, the phantoms move, and then it is seen who is caught.
LEMMA TurnParts ==
  ASSUME IInv, NEW d \in Direction \cup {DT_NULL}, turn(d)
  PROVE  \E P, M :
           /\ P.links \in Links
           /\ P.at \in Open /\ P.dir \in Direction \cup {DT_NULL}
           /\ P.food \subseteq Food /\ P.points \in Nat
           /\ \/ /\ Alone(P.links) \/ Waiting(P.links)
                 /\ P.points = 10 * Cardinality(Food \ P.food)
              \/ /\ Broken(P.links)
                 /\ P.points <= 10 * Cardinality(Food \ P.food)
           /\ M.at \in [Phantom -> Open] /\ M.random \in 0 .. 19
           /\ \A i \in Phantom :
                M.at[i] \in {phantom[i], step(phantom[i], bfs(phantom[i], P.at))}
           /\ links' = P.links /\ food' = P.food /\ points' = P.points
           /\ moviments' \in Direction \cup {DT_NULL} /\ random' = M.random
           /\ pacman' = IF Caught(P, M) THEN pacman_start ELSE P.at
           /\ dir' = IF Caught(P, M) THEN DT_NULL ELSE P.dir
           /\ phantom' = IF Caught(P, M) THEN [i \in Phantom |-> phantom_start(i)]
                         ELSE M.at
           /\ lives' = IF Caught(P, M) THEN lives - 1 ELSE lives
           /\ lives # 0
<1> DEFINE e == IF d = DT_NULL THEN moviments ELSE d
           P == move_pacman(linked(d), e)
           M == move_phantoms(P.at)
<1>1. /\ phantom \in [Phantom -> Open] /\ random \in 0 .. 19
      /\ moviments \in Direction \cup {DT_NULL}
  BY DEF IInv, TypeOK
<1>2. /\ links' = P.links
      /\ moviments' = IF list_empty(P.links, "movements") THEN DT_NULL
                      ELSE IF d = DT_NULL THEN moviments ELSE d
      /\ food' = P.food /\ points' = P.points /\ random' = M.random
      /\ pacman' = IF Caught(P, M) THEN pacman_start ELSE P.at
      /\ dir' = IF Caught(P, M) THEN DT_NULL ELSE P.dir
      /\ phantom' = IF Caught(P, M) THEN [i \in Phantom |-> phantom_start(i)] ELSE M.at
      /\ lives' = IF Caught(P, M) THEN lives - 1 ELSE lives
      /\ lives # 0
  BY DEF turn, over, Caught
<1>3. e \in Direction \cup {DT_NULL}
  BY <1>1
<1> HIDE DEF e
<1>4. /\ P.links \in Links
      /\ P.at \in Open /\ P.dir \in Direction \cup {DT_NULL}
      /\ P.food \subseteq Food /\ P.points \in Nat
      /\ \/ /\ Alone(P.links) \/ Waiting(P.links)
            /\ P.points = 10 * Cardinality(Food \ P.food)
         \/ /\ Broken(P.links)
            /\ P.points <= 10 * Cardinality(Food \ P.food)
  BY <1>3, PacmanMoves
<1> HIDE DEF P
<1>5. /\ M.at \in [Phantom -> Open] /\ M.random \in 0 .. 19
      /\ \A i \in Phantom :
           M.at[i] \in {phantom[i], step(phantom[i], bfs(phantom[i], P.at))}
  BY <1>1, PhantomsMove
<1>6. moviments' \in Direction \cup {DT_NULL}
  BY <1>1, <1>2
<1> HIDE DEF M
<1>7. QED
  BY <1>2, <1>4, <1>5, <1>6

\* The first state has the invariant.
LEMMA InitSafe == Init => IInv
<1> SUFFICES ASSUME Init PROVE IInv
  OBVIOUS
<1>1. /\ food = Food /\ pacman = pacman_start /\ dir = "DT_LEFT"
      /\ phantom = [i \in Phantom |-> phantom_start(i)]
      /\ points = 0 /\ lives = LIVES /\ random = 0 /\ moviments = DT_NULL
  BY DEF Init
<1>2. TypeOK
  <2>1. LIVES \in 0 .. LIVES /\ random \in 0 .. 19
    BY <1>1, GameAssumption
  <2>2. "DT_LEFT" \in Direction
    BY DEF Direction
  <2>3. QED
    BY <1>1, <2>1, <2>2, StartFacts DEF TypeOK
<1>3. links \in Links /\ Alone(links)
  <2> DEFINE N == [n \in Node |-> NULL]
  <2>1. links = [next |-> [N EXCEPT !["movements"] = "movements"],
                 prev |-> [N EXCEPT !["movements"] = "movements"]]
    BY DEF Init, INIT_LIST_HEAD
  <2>2. N \in [Node -> Node]
    BY NodeFacts
  <2> HIDE DEF N
  <2>3. QED
    BY <2>1, <2>2, NodeFacts DEF Links, Alone
<1>4. points = eaten
  <2>1. Food \ food = {}
    BY <1>1
  <2>2. Cardinality(Food \ food) = 0
    BY <2>1, FS_EmptySet
  <2>3. QED
    BY <1>1, <2>2 DEF eaten
<1>5. QED
  BY <1>2, <1>3, <1>4 DEF IInv, PointsCounted

\* A turn keeps it.
LEMMA TurnSafe ==
  ASSUME IInv, NEW d \in Direction \cup {DT_NULL}, turn(d)
  PROVE  IInv'
<1>1. PICK P, M :
        /\ P.links \in Links
        /\ P.at \in Open /\ P.dir \in Direction \cup {DT_NULL}
        /\ P.food \subseteq Food /\ P.points \in Nat
        /\ \/ /\ Alone(P.links) \/ Waiting(P.links)
              /\ P.points = 10 * Cardinality(Food \ P.food)
           \/ /\ Broken(P.links)
              /\ P.points <= 10 * Cardinality(Food \ P.food)
        /\ M.at \in [Phantom -> Open] /\ M.random \in 0 .. 19
        /\ links' = P.links /\ food' = P.food /\ points' = P.points
        /\ moviments' \in Direction \cup {DT_NULL} /\ random' = M.random
        /\ pacman' = IF Caught(P, M) THEN pacman_start ELSE P.at
        /\ dir' = IF Caught(P, M) THEN DT_NULL ELSE P.dir
        /\ phantom' = IF Caught(P, M) THEN [i \in Phantom |-> phantom_start(i)]
                      ELSE M.at
        /\ lives' = IF Caught(P, M) THEN lives - 1 ELSE lives
        /\ lives # 0
  BY TurnParts
<1>2. lives' \in 0 .. LIVES
  <2>1. lives \in 0 .. LIVES /\ LIVES \in Nat
    BY GameAssumption DEF IInv, TypeOK
  <2>2. QED
    BY <1>1, <2>1
<1>3. [i \in Phantom |-> phantom_start(i)] \in [Phantom -> Open]
  BY StartFacts
<1>4. TypeOK'
  BY <1>1, <1>2, <1>3, StartFacts DEF TypeOK
<1>5. links' \in Links /\ PointsCounted'
  BY <1>1 DEF PointsCounted, eaten
<1>6. QED
  BY <1>4, <1>5 DEF IInv

\* Every step does.
LEMMA NextSafe == IInv /\ [Next]_vars => IInv'
<1>1. ASSUME IInv, UNCHANGED vars
      PROVE  IInv'
  BY <1>1 DEF IInv, TypeOK, PointsCounted, eaten, vars
<1>2. QED
  BY <1>1, TurnSafe DEF Next

\* The parts of the invariant always hold.
LEMMA InvariantHolds == Spec => []IInv
BY InitSafe, NextSafe, PTL DEF Spec
-----------------------------------------------------------------------------
(* What it gives.                                                          *)

\* Every variable keeps its type, and nobody is ever inside a wall, on any board
\* with walls around it.
THEOREM NobodyInAWall == Spec => []TypeOK
<1>1. IInv => TypeOK
  BY DEF IInv
<1>2. QED
  BY <1>1, InvariantHolds, PTL

\* The points are those of the food eaten, and none is lost while movements is a
\* ring (game.c:499, 515).
THEOREM PointsAreRight == Spec => []PointsAreEaten
<1>1. IInv => PointsAreEaten
  <2> SUFFICES ASSUME IInv PROVE PointsAreEaten
    OBVIOUS
  <2>1. points <= eaten
    <3>1. points \in Nat
      BY DEF IInv, TypeOK
    <3>2. QED
      BY <3>1 DEF IInv, PointsCounted
  <2>2. Broken(links) => ~Ring
    BY NodeFacts DEF Broken, Ring
  <2>3. Ring => points = eaten
    BY <2>2 DEF IInv, PointsCounted
  <2>4. QED
    BY <2>1, <2>3 DEF PointsAreEaten, eaten
<1>2. QED
  BY <1>1, InvariantHolds, PTL

\* Who is not caught in a turn was not passed in it either: a phantom whose cell
\* the pacman moved to finds itself at its target, and stays.
THEOREM NobodyIsPassed == Spec => NobodyPasses
<1> DEFINE A == \A i \in Phantom :
                  lives' = lives => /\ phantom'[i] # pacman'
                                    /\ phantom'[i] = pacman => pacman' # phantom[i]
<1>1. ASSUME IInv, NEW d \in Direction \cup {DT_NULL}, turn(d)
      PROVE  A
  <2>1. PICK P, M :
          /\ P.at \in Open
          /\ \A i \in Phantom :
               M.at[i] \in {phantom[i], step(phantom[i], bfs(phantom[i], P.at))}
          /\ pacman' = IF Caught(P, M) THEN pacman_start ELSE P.at
          /\ phantom' = IF Caught(P, M) THEN [i \in Phantom |-> phantom_start(i)]
                        ELSE M.at
          /\ lives' = IF Caught(P, M) THEN lives - 1 ELSE lives
    BY <1>1, TurnParts
  <2>2. SUFFICES ASSUME NEW i \in Phantom, lives' = lives
                 PROVE  /\ phantom'[i] # pacman'
                        /\ phantom'[i] = pacman => pacman' # phantom[i]
    OBVIOUS
  <2>3. ~Caught(P, M)
    <3>1. lives \in Int
      BY <1>1 DEF IInv, TypeOK
    <3>2. lives - 1 # lives
      BY <3>1
    <3>3. QED
      BY <2>1, <2>2, <3>2
  <2>4. pacman' = P.at /\ phantom'[i] = M.at[i] /\ M.at[i] # P.at
    BY <2>1, <2>3 DEF Caught
  <2>5. P.at = phantom[i] => M.at[i] = P.at
    <3> SUFFICES ASSUME P.at = phantom[i] PROVE M.at[i] = P.at
      OBVIOUS
    <3>1. step(P.at, bfs(P.at, P.at)) = P.at
      BY <2>1, SearchStays, StepFacts
    <3>2. QED
      BY <2>1, <3>1
  <2>6. QED
    BY <2>4, <2>5
<1>2. ASSUME IInv, [Next]_vars
      PROVE  [A]_vars
  BY <1>1, <1>2 DEF Next
<1> HIDE DEF A
<1>3. Spec => [][A]_vars
  BY <1>2, InvariantHolds, PTL DEF Spec
<1>4. QED
  BY <1>3 DEF NobodyPasses, A

-----------------------------------------------------------------------------
(* The way is a shortest one.                                              *)

\* The cells from which x is reached in n steps, and no step that leaves a wall.
LEMMA WithinComputed ==
  ASSUME NEW x \in Open
  PROVE  /\ within(x)[0] = {x}
         /\ \A n \in Nat :
              /\ within(x)[n] \subseteq Open
              /\ within(x)[n + 1] = within(x)[n] \cup
                   {b \in Open : \E d \in Direction : step(b, d) \in within(x)[n]}
<1> DEFINE S == Nat
           V == SUBSET Open
           to(F) == {b \in Open : \E d \in Direction : step(b, d) \in F}
           body(f, n) == IF n = 0 THEN {x} ELSE f[n - 1] \cup to(f[n - 1])
           m == [n \in S |-> n]
           D == [p \in S \X [S -> V] |-> body(p[2], p[1])]
           W == CHOOSE f : f = [n \in Nat |-> body(f, n)]
<1>1. V # {}
  OBVIOUS
<1>2. m \in [S -> Nat] /\ \A n \in S : m[n] = n
  OBVIOUS
<1>3. /\ D \in [S \X [S -> V] -> V]
      /\ \A n \in S, f \in [S -> V] : D[<<n, f>>] = body(f, n)
  <2>1. ASSUME NEW n \in S, NEW f \in [S -> V]
        PROVE  body(f, n) \in V
    <3>1. n # 0 => n - 1 \in Nat /\ f[n - 1] \in V
      OBVIOUS
    <3>2. QED
      BY <3>1
  <2>2. QED
    BY <2>1
<1>4. \A n \in S : \A f, g \in [S -> V] :
        (\A k \in S : m[k] < m[n] => f[k] = g[k]) => D[<<n, f>>] = D[<<n, g>>]
  <2> SUFFICES ASSUME NEW n \in S, NEW f \in [S -> V], NEW g \in [S -> V],
                      \A k \in S : m[k] < m[n] => f[k] = g[k]
               PROVE  body(f, n) = body(g, n)
    <3> HIDE DEF body, V, D, m, S
    <3>1. QED
      BY <1>3
  <2>1. n # 0 => n - 1 \in Nat /\ n - 1 < n
    OBVIOUS
  <2>2. n # 0 => f[n - 1] = g[n - 1]
    BY <1>2, <2>1
  <2>3. QED
    BY <2>2
<1> HIDE DEF body, V, D, m
<1>5. PICK f \in [S -> V] : \A n \in S : f[n] = D[<<n, f>>]
  <2> HIDE DEF S
  <2>1. LooksBelow(S, V, m, D)
    BY <1>4 DEF LooksBelow
  <2>2. Solvable(S, V, D)
    BY <1>1, <1>2, <1>3, <2>1, Recursion, Zenon
  <2>3. QED
    BY <2>2 DEF Solvable
<1>6. f = [n \in Nat |-> body(f, n)]
  BY <1>3, <1>5
<1>7. W = [n \in Nat |-> body(W, n)]
  BY <1>6
<1>8. within(x) = W
  BY DEF within, body
<1> HIDE DEF W
<1>9. \A n \in Nat : W[n] = body(W, n)
  BY <1>7
<1>10. W[0] = {x}
  BY <1>9 DEF body
<1>11. ASSUME NEW n \in Nat
       PROVE  W[n + 1] = W[n] \cup to(W[n])
  <2>1. n + 1 \in Nat /\ n + 1 # 0 /\ (n + 1) - 1 = n
    OBVIOUS
  <2> HIDE DEF to
  <2>2. QED
    BY <1>9, <2>1 DEF body
<1>12. \A n \in Nat : W[n] \subseteq Open
  <2> DEFINE T == {n \in Nat : W[n] \subseteq Open}
  <2>1. T \in SUBSET Nat /\ 0 \in T
    BY <1>10
  <2>2. \A n \in T : n + 1 \in T
    BY <1>11
  <2> HIDE DEF T
  <2>3. T = Nat
    BY <2>1, <2>2, SetInduction
  <2>4. QED
    BY <2>3 DEF T
<1>13. QED
  BY <1>8, <1>10, <1>11, <1>12

\* More steps lead no less far.
LEMMA WithinGrows ==
  ASSUME NEW x \in Open, NEW n \in Nat, NEW k \in Nat, n <= k
  PROVE  within(x)[n] \subseteq within(x)[k]
<1> DEFINE W == within(x)
           T == {i \in Nat : W[n] \subseteq W[n + i]}
<1>1. \A i \in Nat : W[i] \subseteq W[i + 1]
  BY WithinComputed
<1> HIDE DEF W
<1>2. T \in SUBSET Nat /\ 0 \in T
  OBVIOUS
<1>3. ASSUME NEW i \in T
      PROVE  i + 1 \in T
  <2>1. n + i \in Nat /\ n + (i + 1) = (n + i) + 1
    OBVIOUS
  <2>2. QED
    BY <1>1, <2>1
<1>4. T = Nat
  <2> HIDE DEF T
  <2>1. QED
    BY <1>2, <1>3, SetInduction
<1>5. k - n \in Nat /\ n + (k - n) = k
  OBVIOUS
<1>6. W[n] \subseteq W[n + (k - n)]
  BY <1>4, <1>5
<1>7. QED
  BY <1>5, <1>6 DEF W

\* A step at the beginning of a way.
LEMMA StepBefore ==
  ASSUME NEW x \in Open, NEW n \in Nat, NEW a \in Open, NEW d \in Direction,
         step(a, d) \in within(x)[n]
  PROVE  a \in within(x)[n + 1]
BY WithinComputed

\* A step at its end.
LEMMA StepAfter ==
  ASSUME NEW y \in Open, NEW x \in Open, NEW d \in Direction, step(y, d) = x
  PROVE  \A n \in Nat : within(y)[n] \subseteq within(x)[n + 1]
<1> DEFINE T == {n \in Nat : within(y)[n] \subseteq within(x)[n + 1]}
<1>1. 0 \in T
  <2>1. within(y)[0] = {y} /\ within(x)[0] = {x}
    BY WithinComputed
  <2>2. y \in within(x)[0 + 1]
    BY <2>1, StepBefore
  <2>3. QED
    BY <2>1, <2>2
<1>2. ASSUME NEW n \in T
      PROVE  n + 1 \in T
  <2> SUFFICES ASSUME NEW a \in within(y)[n + 1]
               PROVE  a \in within(x)[(n + 1) + 1]
    OBVIOUS
  <2>1. n \in Nat /\ n + 1 \in Nat /\ within(y)[n] \subseteq within(x)[n + 1]
    OBVIOUS
  <2>2. CASE a \in within(y)[n]
    <3>1. a \in within(x)[n + 1] /\ n + 1 <= (n + 1) + 1
      BY <2>1, <2>2
    <3>2. within(x)[n + 1] \subseteq within(x)[(n + 1) + 1]
      BY <2>1, WithinComputed
    <3>3. QED
      BY <3>1, <3>2
  <2>3. CASE a \in Open /\ \E e \in Direction : step(a, e) \in within(y)[n]
    <3>1. PICK e \in Direction : step(a, e) \in within(x)[n + 1]
      BY <2>1, <2>3
    <3>2. QED
      BY <2>1, <2>3, <3>1, StepBefore
  <2>4. QED
    BY <2>1, <2>2, <2>3, WithinComputed
<1>3. T = Nat
  <2>1. T \in SUBSET Nat
    OBVIOUS
  <2> HIDE DEF T
  <2>2. QED
    BY <1>1, <1>2, <2>1, SetInduction
<1>4. QED
  BY <1>3

\* A way that is not shorter has a last step.
LEMMA LastStep ==
  ASSUME NEW x \in Open
  PROVE  \A n \in Nat : \A a \in within(x)[n + 1] :
           \/ a \in within(x)[n]
           \/ \E y \in Open, d \in Direction : step(y, d) = x /\ a \in within(y)[n]
<1> DEFINE last(n, a) ==
             \E y \in Open, d \in Direction : step(y, d) = x /\ a \in within(y)[n]
           T == {n \in Nat : \A a \in within(x)[n + 1] : a \in within(x)[n] \/ last(n, a)}
<1>1. 0 \in T
  <2> SUFFICES ASSUME NEW a \in within(x)[0 + 1], a \notin within(x)[0]
               PROVE  last(0, a)
    OBVIOUS
  <2>1. within(x)[0] = {x}
    BY WithinComputed
  <2>2. PICK d \in Direction : a \in Open /\ step(a, d) = x
    <3>1. within(x)[0 + 1] = within(x)[0] \cup
            {b \in Open : \E d \in Direction : step(b, d) \in within(x)[0]}
      BY WithinComputed
    <3>2. QED
      BY <2>1, <3>1
  <2>3. a \in within(a)[0]
    BY <2>2, WithinComputed
  <2>4. QED
    BY <2>2, <2>3
<1>2. ASSUME NEW n \in T
      PROVE  n + 1 \in T
  <2> SUFFICES ASSUME NEW a \in within(x)[(n + 1) + 1], a \notin within(x)[n + 1]
               PROVE  last(n + 1, a)
    OBVIOUS
  <2>1. n \in Nat /\ n + 1 \in Nat
    OBVIOUS
  <2>2. PICK d \in Direction : a \in Open /\ step(a, d) \in within(x)[n + 1]
    BY <2>1, WithinComputed
  <2>3. step(a, d) \notin within(x)[n]
    BY <2>1, <2>2, StepBefore
  <2>4. PICK y \in Open, e \in Direction :
          step(y, e) = x /\ step(a, d) \in within(y)[n]
    BY <2>2, <2>3
  <2>5. a \in within(y)[n + 1]
    BY <2>1, <2>2, <2>4, StepBefore
  <2>6. QED
    BY <2>4, <2>5
<1>3. T = Nat
  <2>1. T \in SUBSET Nat
    OBVIOUS
  <2> HIDE DEF T
  <2>2. QED
    BY <1>1, <1>2, <2>1, SetInduction
<1>4. QED
  BY <1>3

\* a is n steps from x, and not less.
Depth(a, x, n) ==
  n \in Nat /\ a \in within(x)[n] /\ (n = 0 \/ a \notin within(x)[n - 1])

\* So it is not reached in less.
LEMMA DepthLeast ==
  ASSUME NEW x \in Open, NEW a, NEW n, Depth(a, x, n),
         NEW k \in Nat, a \in within(x)[k]
  PROVE  n <= k
<1> SUFFICES ASSUME ~(n <= k) PROVE FALSE
  OBVIOUS
<1>1. n \in Nat /\ n # 0 /\ n - 1 \in Nat /\ k <= n - 1
  BY DEF Depth
<1>2. a \in within(x)[n - 1]
  BY <1>1, WithinGrows
<1>3. QED
  BY <1>1, <1>2 DEF Depth

\* The number of steps.
far(a, x) == CHOOSE n \in Nat : Depth(a, x, n)

\* A cell has one depth, and this is it.
LEMMA FarIsDepth ==
  ASSUME NEW x \in Open, NEW a, NEW n, Depth(a, x, n)
  PROVE  far(a, x) = n
<1>1. n \in Nat
  BY DEF Depth
<1>2. far(a, x) \in Nat /\ Depth(a, x, far(a, x))
  BY <1>1 DEF far
<1>3. n <= far(a, x) /\ far(a, x) <= n
  BY <1>1, <1>2, DepthLeast DEF Depth
<1>4. QED
  BY <1>1, <1>2, <1>3

\* The node x is found with the first step of a shortest way from start.
Way(start, x) ==
  /\ FirstStep(start, x) /\ Depth(start, x.at, far(start, x.at))
  /\ x.direction = DT_NULL
       \/ /\ far(start, x.at) # 0
          /\ step(start, x.direction) \in within(x.at)[far(start, x.at) - 1]

\* The queue is in the order of the distance from start, and from its front on
\* holds nodes at two distances at most: when its front is so far away, whatever
\* is no farther was visited, and so was what is next to a node before the front.
Explored(start, q) ==
  LET s == q.nodes
      f == q.front
      depth(k) == far(start, s[k].at)
  IN  /\ Distinct(s)
      /\ \A k \in 1 .. Len(s) : Way(start, s[k]) /\ depth(k) < k
      /\ \A j, k \in 1 .. Len(s) : j <= k => depth(j) <= depth(k)
      /\ \A k \in 1 .. Len(s) : k < f =>
           \A d \in Direction : step(s[k].at, d) \in Open => step(s[k].at, d) \in Visited(s)
      /\ f <= Len(s) =>
           /\ \A k \in 1 .. Len(s) : depth(k) <= depth(f) + 1
           /\ \A x \in Open : start \in within(x)[depth(f)] => x \in Visited(s)

\* It begins so.
LEMMA BeginExplored ==
  ASSUME NEW start \in Open
  PROVE  Explored(start, Begin(start))
<1> DEFINE n == [at |-> start, direction |-> DT_NULL]
<1>1. /\ Begin(start).front = 1 /\ Begin(start).nodes = <<n>>
      /\ Len(<<n>>) = 1 /\ <<n>>[1] = n /\ Range(<<n>>) = {n}
  BY BeginFacts
<1>2. n.at = start /\ n.direction = DT_NULL /\ FirstStep(start, n)
  BY DEF FirstStep
<1> HIDE DEF n
<1>3. within(start)[0] = {start}
  BY WithinComputed
<1>4. Depth(start, start, 0) /\ far(start, start) = 0
  <2>1. Depth(start, start, 0)
    BY <1>3 DEF Depth
  <2>2. QED
    BY <2>1, FarIsDepth
<1>5. Way(start, n)
  BY <1>2, <1>4 DEF Way
<1>6. \A x \in Open : start \in within(x)[0] => x \in Visited(<<n>>)
  <2> SUFFICES ASSUME NEW x \in Open, start \in within(x)[0]
               PROVE  x \in Visited(<<n>>)
    OBVIOUS
  <2>1. x = start
    BY WithinComputed
  <2>2. QED
    BY <1>1, <1>2, <2>1, VisitedRange
<1>7. Distinct(<<n>>)
  BY <1>1 DEF Distinct
<1>8. \A k \in 1 .. 1 : k = 1
  OBVIOUS
<1>9. QED
  BY <1>1, <1>2, <1>4, <1>5, <1>6, <1>7, <1>8 DEF Explored

\* A new node next to the front is one step farther.
LEMMA NewNodeWay ==
  ASSUME NEW start \in Open, NEW q \in Search, Explored(start, q),
         q.front <= Len(q.nodes),
         NEW d \in NewFrom(q.nodes[q.front], q.nodes)
  PROVE  LET n == q.nodes[q.front]
             x == NodeTo(n, d)
         IN  /\ x.at = step(n.at, d) /\ x.at \in Open
             /\ Way(start, x) /\ far(start, x.at) = far(start, n.at) + 1
             /\ far(start, n.at) \in Nat
<1> DEFINE n == q.nodes[q.front]
           x == NodeTo(n, d)
           F == far(start, n.at)
<1>1. n \in Found /\ q.front \in 1 .. Len(q.nodes)
  BY SearchStep
<1>2. /\ Way(start, n)
      /\ \A y \in Open : start \in within(y)[F] => y \in Visited(q.nodes)
  BY <1>1 DEF Explored
<1> HIDE DEF n
<1>3. n.at \in Open /\ FirstStep(start, n) /\ Depth(start, n.at, F)
  BY <1>1, <1>2 DEF Found, Way
<1>4. /\ d \in Direction /\ step(n.at, d) \in Open
      /\ step(n.at, d) \notin Visited(q.nodes)
  BY DEF NewFrom, n
<1>5. /\ x.at = step(n.at, d)
      /\ x.direction = IF n.direction = DT_NULL THEN d ELSE n.direction
  BY DEF NodeTo
<1>6. FirstStep(start, x) /\ x.direction # DT_NULL
  <2>1. FirstStep(start, x) /\ x.direction \in Direction
    BY <1>3, NextFirstStep DEF n
  <2>2. QED
    BY <2>1, StepFacts
<1> HIDE DEF x
<1>7. F \in Nat /\ start \in within(n.at)[F]
  BY <1>3 DEF Depth
<1> HIDE DEF F
<1>8. \A i \in Nat : within(n.at)[i] \subseteq within(x.at)[i + 1]
  BY <1>3, <1>4, <1>5, StepAfter
<1>9. Depth(start, x.at, F + 1) /\ far(start, x.at) = F + 1
  <2>1. start \in within(x.at)[F + 1]
    BY <1>7, <1>8
  <2>2. start \notin within(x.at)[F]
    BY <1>2, <1>4, <1>5
  <2>3. Depth(start, x.at, F + 1)
    BY <1>7, <2>1, <2>2 DEF Depth
  <2>4. QED
    BY <1>4, <1>5, <2>3, FarIsDepth
<1>10. step(start, x.direction) \in within(x.at)[F]
  <2>1. CASE n.direction = DT_NULL
    <3>1. n.at = start
      BY <2>1, <1>3, StepFacts DEF FirstStep
    <3>2. start \in within(start)[0] /\ x.at \in within(x.at)[0]
      BY <1>4, <1>5, WithinComputed
    <3>3. Depth(start, start, 0)
      BY <3>2 DEF Depth
    <3>4. F = 0
      BY <3>1, <3>3, FarIsDepth DEF F
    <3>5. QED
      BY <1>5, <2>1, <3>1, <3>2, <3>4
  <2>2. CASE n.direction # DT_NULL
    <3>1. F # 0 /\ step(start, n.direction) \in within(n.at)[F - 1]
      BY <1>2, <2>2 DEF Way, F
    <3>2. F - 1 \in Nat /\ (F - 1) + 1 = F
      BY <1>7, <3>1
    <3>3. step(start, n.direction) \in within(x.at)[F]
      BY <1>8, <3>1, <3>2
    <3>4. QED
      BY <1>5, <2>2, <3>3
  <2>3. QED
    BY <2>1, <2>2
<1>11. Way(start, x)
  BY <1>6, <1>7, <1>9, <1>10 DEF Way
<1>12. QED
  BY <1>4, <1>5, <1>7, <1>9, <1>11 DEF F, n, x

\* And so it goes on.
LEMMA AfterExplored ==
  ASSUME NEW start \in Open, NEW q \in Search, Explored(start, q),
         q.front <= Len(q.nodes)
  PROVE  Explored(start, After(q))
<1> DEFINE s == q.nodes
           f == q.front
           n == s[f]
           r == neighbours(n, s)
           t == s \o r
           depth(x) == far(start, x.at)
           F == depth(n)
<1>1. n \in Found /\ r \in Seq(Found) /\ f \in 1 .. Len(s) /\ s \in Seq(Found)
  BY SearchStep DEF Search
<1>2. /\ After(q).nodes = t /\ After(q).front = f + 1
      /\ Range(t) = Range(s) \cup {NodeTo(n, d) : d \in NewFrom(n, s)}
  BY AfterNodes
<1>3. /\ Distinct(r) /\ Range(r) = {NodeTo(n, d) : d \in NewFrom(n, s)}
  BY <1>1, NeighboursFound
<1>4. /\ Distinct(s)
      /\ \A k \in 1 .. Len(s) : Way(start, s[k]) /\ depth(s[k]) < k
      /\ \A j, k \in 1 .. Len(s) : j <= k => depth(s[j]) <= depth(s[k])
      /\ \A k \in 1 .. Len(s) : k < f =>
           \A d \in Direction : step(s[k].at, d) \in Open => step(s[k].at, d) \in Visited(s)
      /\ \A k \in 1 .. Len(s) : depth(s[k]) <= F + 1
      /\ \A x \in Open : start \in within(x)[F] => x \in Visited(s)
  BY <1>1 DEF Explored
<1>5. \A d \in NewFrom(n, s) :
        /\ NodeTo(n, d).at = step(n.at, d)
        /\ Way(start, NodeTo(n, d)) /\ depth(NodeTo(n, d)) = F + 1
  BY NewNodeWay
<1>6. \A k \in 1 .. Len(s) : s[k] \in Found /\ s[k].at \in Open /\ depth(s[k]) \in Nat
  <2> SUFFICES ASSUME NEW k \in 1 .. Len(s)
               PROVE  s[k] \in Found /\ s[k].at \in Open /\ depth(s[k]) \in Nat
    OBVIOUS
  <2>1. s[k] \in Found
    BY <1>1, ElementOfSeq
  <2>2. Depth(start, s[k].at, depth(s[k]))
    BY <1>4 DEF Way
  <2>3. QED
    BY <2>1, <2>2 DEF Depth, Found
<1>7. F \in Nat /\ n.at \in Open
  BY <1>1, <1>6
<1> HIDE DEF depth, r
<1>8. Len(s) \in Nat /\ Len(r) \in Nat /\ Len(t) = Len(s) + Len(r)
      /\ \A i \in 1 .. Len(s) + Len(r) :
           t[i] = IF i <= Len(s) THEN s[i] ELSE r[i - Len(s)]
  BY <1>1, LenProperties, ConcatProperties
<1>9. \A k \in 1 .. Len(r) : \E d \in NewFrom(n, s) : r[k] = NodeTo(n, d)
  <2> SUFFICES ASSUME NEW k \in 1 .. Len(r)
               PROVE  \E d \in NewFrom(n, s) : r[k] = NodeTo(n, d)
    OBVIOUS
  <2>1. r[k] \in Range(r)
    BY <1>1, RangeEquality
  <2> HIDE DEF n, s
  <2>2. QED
    BY <1>3, <2>1
<1> DEFINE old(k) == k \in 1 .. Len(s) /\ t[k] = s[k]
           new(k) == /\ k > Len(s) /\ k \in Nat
                     /\ \E d \in NewFrom(n, s) : t[k] = NodeTo(n, d)
<1>10. \A k \in 1 .. Len(t) : old(k) \/ new(k)
  <2> SUFFICES ASSUME NEW k \in 1 .. Len(t) PROVE old(k) \/ new(k)
    OBVIOUS
  <2>1. CASE k <= Len(s)
    BY <1>8, <2>1
  <2>2. CASE ~(k <= Len(s))
    <3>1. k - Len(s) \in 1 .. Len(r) /\ t[k] = r[k - Len(s)] /\ k > Len(s) /\ k \in Nat
      BY <1>8, <2>2
    <3> HIDE DEF n, s, t
    <3>2. QED
      BY <1>9, <3>1
  <2>3. QED
    BY <2>1, <2>2
<1>11. \A k \in 1 .. Len(t) : new(k) => Way(start, t[k]) /\ depth(t[k]) = F + 1
  BY <1>5
<1> HIDE DEF t, F, n, s
<1>12. Distinct(t)
  <2>1. ASSUME NEW x \in Range(s), NEW y \in Range(r)
        PROVE  x.at # y.at
    <3>1. PICK d \in NewFrom(n, s) : y = NodeTo(n, d)
      BY <1>3
    <3>2. y.at \notin Visited(s)
      BY <3>1 DEF NewFrom, NodeTo
    <3>3. QED
      BY <3>2, VisitedRange
  <2>2. QED
    BY <1>1, <1>3, <1>4, <2>1, JoinDistinct DEF t
<1>13. \A k \in 1 .. Len(t) : Way(start, t[k]) /\ depth(t[k]) < k
  <2> SUFFICES ASSUME NEW k \in 1 .. Len(t)
               PROVE  Way(start, t[k]) /\ depth(t[k]) < k
    OBVIOUS
  <2>1. CASE old(k)
    BY <1>4, <2>1 DEF depth
  <2>2. CASE new(k)
    <3>1. F < f /\ f <= Len(s) /\ f \in Nat /\ Len(s) \in Nat
      BY <1>1, <1>4, <1>8 DEF F, n, depth
    <3>2. Way(start, t[k]) /\ depth(t[k]) = F + 1 /\ k > Len(s) /\ k \in Nat
      BY <1>11, <2>2
    <3>3. QED
      BY <1>7, <3>1, <3>2
  <2>3. QED
    BY <1>10, <2>1, <2>2
<1>14. \A k \in 1 .. Len(t) :
         /\ depth(t[k]) \in Nat /\ depth(t[k]) <= F + 1
         /\ k >= f => F <= depth(t[k])
  <2> SUFFICES ASSUME NEW k \in 1 .. Len(t)
               PROVE  /\ depth(t[k]) \in Nat /\ depth(t[k]) <= F + 1
                      /\ k >= f => F <= depth(t[k])
    OBVIOUS
  <2>1. CASE old(k)
    <3>1. depth(s[k]) \in Nat /\ depth(s[k]) <= F + 1
      BY <1>4, <1>6, <2>1 DEF depth
    <3>2. k >= f => F <= depth(s[k])
      BY <1>1, <1>4, <2>1 DEF depth, F, n
    <3>3. QED
      BY <2>1, <3>1, <3>2
  <2>2. CASE new(k)
    BY <1>7, <1>11, <2>2
  <2>3. QED
    BY <1>10, <2>1, <2>2
<1>15. \A j, k \in 1 .. Len(t) : j <= k => depth(t[j]) <= depth(t[k])
  <2> SUFFICES ASSUME NEW j \in 1 .. Len(t), NEW k \in 1 .. Len(t), j <= k
               PROVE  depth(t[j]) <= depth(t[k])
    OBVIOUS
  <2>1. CASE new(k)
    BY <1>11, <1>14, <2>1
  <2>2. CASE old(k)
    <3>1. old(j)
      BY <1>8, <1>10, <2>2
    <3>2. QED
      BY <1>4, <2>2, <3>1 DEF depth
  <2>3. QED
    BY <1>10, <2>1, <2>2
<1>16. Visited(t) = Visited(s) \cup {step(n.at, d) : d \in NewFrom(n, s)}
  <2>1. Visited(t) = {x.at : x \in Range(s)} \cup
          {x.at : x \in {NodeTo(n, d) : d \in NewFrom(n, s)}}
    BY <1>2, VisitedRange DEF t, n, s
  <2>2. {x.at : x \in {NodeTo(n, d) : d \in NewFrom(n, s)}}
          = {step(n.at, d) : d \in NewFrom(n, s)}
    <3>1. \A d : NodeTo(n, d).at = step(n.at, d)
      BY DEF NodeTo
    <3>2. QED
      BY <3>1
  <2>3. Visited(s) = {x.at : x \in Range(s)}
    BY VisitedRange
  <2>4. QED
    BY <2>1, <2>2, <2>3
<1>17. \A d \in Direction : step(n.at, d) \in Open => step(n.at, d) \in Visited(t)
  <2> SUFFICES ASSUME NEW d \in Direction, step(n.at, d) \in Open,
                      step(n.at, d) \notin Visited(s)
               PROVE  step(n.at, d) \in Visited(t)
    BY <1>16
  <2>1. d \in NewFrom(n, s)
    BY DEF NewFrom
  <2>2. QED
    BY <1>16, <2>1
<1>18. \A k \in 1 .. Len(t) : k < f + 1 =>
         \A d \in Direction : step(t[k].at, d) \in Open => step(t[k].at, d) \in Visited(t)
  <2> SUFFICES ASSUME NEW k \in 1 .. Len(t), k < f + 1,
                      NEW d \in Direction, step(t[k].at, d) \in Open
               PROVE  step(t[k].at, d) \in Visited(t)
    OBVIOUS
  <2>1. k \in 1 .. Len(s) /\ t[k] = s[k] /\ (k = f \/ k < f)
    BY <1>1, <1>8
  <2>2. CASE k = f
    BY <1>17, <2>1, <2>2 DEF n
  <2>3. CASE k < f
    BY <1>4, <1>16, <2>1, <2>3
  <2>4. QED
    BY <2>1, <2>2, <2>3
<1>19. ASSUME f + 1 <= Len(t)
       PROVE  /\ \A k \in 1 .. Len(t) : depth(t[k]) <= depth(t[f + 1]) + 1
              /\ \A x \in Open : start \in within(x)[depth(t[f + 1])] => x \in Visited(t)
  <2> DEFINE G == depth(t[f + 1])
  <2>1. f + 1 \in 1 .. Len(t) /\ G \in Nat /\ F <= G /\ G <= F + 1
    BY <1>1, <1>8, <1>14, <1>19
  <2> HIDE DEF G
  <2>2. \A k \in 1 .. Len(t) : depth(t[k]) <= G + 1
    BY <1>7, <1>14, <2>1
  <2>3. ASSUME NEW x \in Open, start \in within(x)[G], G = F + 1,
               start \notin within(x)[F]
        PROVE  x \in Visited(t)
    <3>1. PICK y \in Open, d \in Direction : step(y, d) = x /\ start \in within(y)[F]
      BY <1>7, <2>3, LastStep
    <3>2. y \in Visited(s)
      BY <1>4, <3>1
    <3>3. PICK k \in 1 .. Len(s) : y = s[k].at
      <4>1. DOMAIN s = 1 .. Len(s)
        BY <1>1, LenProperties
      <4>2. QED
        BY <3>2, <4>1 DEF Visited
    <3>4. Depth(start, y, depth(s[k]))
      BY <1>4, <3>3 DEF Way, depth
    <3>5. depth(s[k]) <= F
      BY <1>7, <3>1, <3>4, DepthLeast
    <3>6. k \in 1 .. Len(t) /\ t[k] = s[k] /\ k \in Nat /\ f \in Nat
      BY <1>1, <1>8
    <3>7. k < f + 1
      <4> SUFFICES ASSUME f + 1 <= k PROVE FALSE
        BY <3>6
      <4>1. G <= depth(t[k])
        BY <1>15, <2>1, <3>6 DEF G
      <4>2. QED
        BY <1>7, <1>14, <2>3, <3>5, <3>6, <4>1
    <3>8. QED
      BY <1>18, <3>1, <3>3, <3>6, <3>7
  <2>4. \A x \in Open : start \in within(x)[G] => x \in Visited(t)
    <3> SUFFICES ASSUME NEW x \in Open, start \in within(x)[G] PROVE x \in Visited(t)
      OBVIOUS
    <3>1. CASE start \in within(x)[F]
      BY <1>4, <1>16, <3>1
    <3>2. CASE start \notin within(x)[F]
      <4>1. G = F + 1
        BY <1>7, <2>1, <3>2
      <4>2. QED
        BY <2>3, <3>2, <4>1
    <3>3. QED
      BY <3>1, <3>2
  <2>5. QED
    BY <2>2, <2>4 DEF G
<1>20. QED
  BY <1>2, <1>12, <1>13, <1>15, <1>18, <1>19 DEF Explored, depth, f

\* Nodes at different cells are no more than there are cells.
LEMMA NodesBound ==
  ASSUME NEW s \in Seq(Found), Distinct(s)
  PROVE  Len(s) <= Cardinality(Open) /\ Cardinality(Open) \in Nat
<1> DEFINE g == [k \in 1 .. Len(s) |-> s[k].at]
<1>1. Len(s) \in Nat /\ \A k \in 1 .. Len(s) : s[k].at \in Open
  <2>1. \A k \in 1 .. Len(s) : s[k] \in Found
    BY ElementOfSeq
  <2>2. QED
    BY <2>1, LenProperties DEF Found
<1>2. g \in Injection(1 .. Len(s), Open)
  BY <1>1 DEF Injection, Distinct, IsInjective
<1>3. Cardinality(1 .. Len(s)) <= Cardinality(Open)
  <2>1. IsFiniteSet(Open)
    BY BoardFacts
  <2> HIDE DEF g
  <2>2. QED
    BY <1>2, <2>1, FS_Injection
<1>4. Cardinality(1 .. Len(s)) = Len(s)
  BY <1>1, FS_Interval
<1>5. QED
  BY <1>3, <1>4, BoardFacts, FS_CardinalityType

\* distance is the depth.
LEMMA DistanceIsDepth ==
  ASSUME NEW x \in Open, NEW a \in Open, NEW n, Depth(a, x, n), n <= Cardinality(Open)
  PROVE  distance[x][a] = n
<1> DEFINE C == Cardinality(Open)
           reach == [k \in 0 .. C |-> within(x)[k]]
           least(k) == a \in reach[k] /\ (k = 0 \/ a \notin reach[k - 1])
<1>1. C \in Nat /\ n \in 0 .. C
  BY BoardFacts, FS_CardinalityType DEF Depth
<1>2. distance[x][a] = CHOOSE k \in 0 .. C : least(k)
  BY DEF distance
<1>3. \A k \in 0 .. C : least(k) <=> Depth(a, x, k)
  <2> SUFFICES ASSUME NEW k \in 0 .. C PROVE least(k) <=> Depth(a, x, k)
    OBVIOUS
  <2>1. k \in Nat /\ (k = 0 \/ k - 1 \in 0 .. C)
    BY <1>1
  <2>2. QED
    BY <2>1 DEF Depth
<1> HIDE DEF least, C
<1>4. \A k \in 0 .. C : least(k) => k = n
  <2> SUFFICES ASSUME NEW k \in 0 .. C, Depth(a, x, k) PROVE k = n
    BY <1>3
  <2>1. k \in Nat /\ n \in Nat /\ a \in within(x)[k] /\ a \in within(x)[n]
    BY <1>1 DEF Depth
  <2>2. n <= k /\ k <= n
    BY <2>1, DepthLeast
  <2>3. QED
    BY <2>1, <2>2
<1>5. least(n)
  BY <1>1, <1>3
<1>6. QED
  BY <1>1, <1>2, <1>4, <1>5

\* A step the search takes is the first of a shortest way.
LEMMA SearchShortest ==
  ASSUME NEW start \in Open, NEW target \in Open
  PROVE  LET to == step(start, bfs(start, target))
         IN  to # start => distance[target][to] = distance[target][start] - 1
<1> DEFINE right(d) == step(start, d) # start =>
                         distance[target][step(start, d)] = distance[target][start] - 1
           R == {d \in Direction \cup {DT_NULL} : right(d)}
           G == {q \in Search : Explored(start, q)}
<1>1. Begin(start) \in G
  BY BeginExplored, BeginFacts
<1>2. DT_NULL \in R
  BY StepFacts
<1>3. ASSUME NEW q \in G, q.front <= Len(q.nodes)
      PROVE  After(q) \in G
  BY <1>3, AfterExplored, SearchStep
<1>4. ASSUME NEW q \in G, q.front <= Len(q.nodes), q.nodes[q.front].at = target
      PROVE  q.nodes[q.front].direction \in R
  <2> DEFINE n == q.nodes[q.front]
             d == n.direction
             F == far(start, target)
             W == within(target)
             to == step(start, d)
  <2>1. /\ n \in Found /\ q.front \in 1 .. Len(q.nodes) /\ q.nodes \in Seq(Found)
        /\ Explored(start, q)
    BY <1>4, SearchStep DEF Search
  <2>2. Way(start, n) /\ F < q.front /\ Distinct(q.nodes)
    BY <1>4, <2>1 DEF Explored
  <2>3. CASE d = DT_NULL
    BY <1>2, <2>3
  <2>4. CASE d # DT_NULL
    <3>1. /\ d \in Direction /\ to \in Open /\ Depth(start, target, F)
          /\ F # 0 /\ to \in W[F - 1]
      BY <1>4, <2>2, <2>4 DEF Way, FirstStep
    <3> HIDE DEF n, d, F, W
    <3>2. F \in Nat /\ F - 1 \in Nat /\ start \in W[F] /\ start \notin W[F - 1]
      BY <3>1 DEF Depth, W
    <3>3. F - 1 # 0 => to \notin W[(F - 1) - 1]
      <4> SUFFICES ASSUME F - 1 # 0, to \in W[(F - 1) - 1] PROVE FALSE
        OBVIOUS
      <4>1. (F - 1) - 1 \in Nat /\ ((F - 1) - 1) + 1 = F - 1
        BY <3>2
      <4>2. start \in W[F - 1]
        BY <3>1, <4>1, StepBefore DEF W
      <4>3. QED
        BY <3>2, <4>2
    <3>4. Depth(to, target, F - 1)
      BY <3>1, <3>2, <3>3 DEF Depth, W
    <3>5. F <= Cardinality(Open) /\ F - 1 <= Cardinality(Open)
      <4>1. Len(q.nodes) \in Nat /\ Len(q.nodes) <= Cardinality(Open)
            /\ Cardinality(Open) \in Nat
        BY <2>1, <2>2, NodesBound, LenProperties
      <4>2. QED
        BY <2>1, <2>2, <3>2, <4>1
    <3>6. distance[target][start] = F /\ distance[target][to] = F - 1
      BY <3>1, <3>4, <3>5, DistanceIsDepth
    <3>7. right(d)
      BY <3>6
    <3>8. QED
      BY <3>1, <3>7 DEF d, n
  <2>5. QED
    BY <2>3, <2>4
<1> HIDE DEF R, G
<1>5. G \in SUBSET Search
  BY DEF G
<1>6. bfs(start, target) \in R
  BY <1>1, <1>2, <1>3, <1>4, <1>5, SearchInduction
<1>7. QED
  BY <1>6 DEF R

\* A phantom that moves takes a shortest way to where the pacman is now, on any
\* board: the breadth-first search is right (game.c:100).
THEOREM ShortestWays == Spec => PhantomsGetCloser
<1> DEFINE A == \A i \in Phantom : lives' = lives /\ phantom'[i] # phantom[i] =>
                  distance[pacman'][phantom'[i]] = distance[pacman'][phantom[i]] - 1
<1>1. ASSUME IInv, NEW d \in Direction \cup {DT_NULL}, turn(d)
      PROVE  A
  <2>1. PICK P, M :
          /\ P.at \in Open
          /\ \A i \in Phantom :
               M.at[i] \in {phantom[i], step(phantom[i], bfs(phantom[i], P.at))}
          /\ pacman' = IF Caught(P, M) THEN pacman_start ELSE P.at
          /\ phantom' = IF Caught(P, M) THEN [i \in Phantom |-> phantom_start(i)]
                        ELSE M.at
          /\ lives' = IF Caught(P, M) THEN lives - 1 ELSE lives
    BY <1>1, TurnParts
  <2>2. SUFFICES ASSUME NEW i \in Phantom, lives' = lives, phantom'[i] # phantom[i]
                 PROVE  distance[pacman'][phantom'[i]]
                          = distance[pacman'][phantom[i]] - 1
    OBVIOUS
  <2>3. ~Caught(P, M)
    <3>1. lives \in Int
      BY <1>1 DEF IInv, TypeOK
    <3>2. lives - 1 # lives
      BY <3>1
    <3>3. QED
      BY <2>1, <2>2, <3>2
  <2>4. /\ pacman' = P.at
        /\ phantom'[i] = step(phantom[i], bfs(phantom[i], P.at))
    BY <2>1, <2>2, <2>3
  <2>5. phantom[i] \in Open
    BY <1>1 DEF IInv, TypeOK
  <2>6. QED
    BY <2>1, <2>2, <2>4, <2>5, SearchShortest
<1>2. ASSUME IInv, [Next]_vars
      PROVE  [A]_vars
  BY <1>1, <1>2 DEF Next
<1> HIDE DEF A
<1>3. Spec => [][A]_vars
  BY <1>2, InvariantHolds, PTL DEF Spec
<1>4. QED
  BY <1>3 DEF PhantomsGetCloser, A
=============================================================================
