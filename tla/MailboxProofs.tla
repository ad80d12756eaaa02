---------------------------- MODULE MailboxProofs ----------------------------
(***************************************************************************)
(* Theorems about module Mailbox, for every keyboard and every set of      *)
(* keys.                                                                   *)
(***************************************************************************)
EXTENDS Mailbox, QueueLemmas

-----------------------------------------------------------------------------
Places == {"test", "read", "store", "look", "take", "clear", "frame"}

\* The child reads keys only when the game is over, so until then the parent is
\* the only one to test the word, and the game the only one to clear it.
ParentReads == pc[parent] \in {"test", "read", "store"}

IInv == TypeOK /\ ParentReads /\ TestStaysGood

\* The parts of a read: what it returns are keys, and so are those it leaves.
LEMMA ReadTypes ==
  ASSUME keys \in Seq(Char), Len(keys) <= Capacity, Keyboard!Read(1)
  PROVE  /\ keys' \in Seq(Char) /\ Len(keys') <= Capacity
         /\ received' # <<>> => Head(received') \in Char
         /\ keys = <<>> => keys' = <<>> /\ received' = <<>>
         /\ keys # <<>> => /\ keys' = Tail(keys) /\ received' # <<>>
                           /\ Head(received') = Head(keys)
<1> DEFINE k == IF 1 > Len(keys) THEN Len(keys) ELSE 1
<1>1. received' = SubSeq(keys, 1, k) /\ keys' = SubSeq(keys, k + 1, Len(keys))
  BY DEF Keyboard!Read
<1>2. Len(keys) \in Nat /\ \A i \in 1 .. Len(keys) : keys[i] \in Char
  BY LenProperties, ElementOfSeq
<1>3. k \in Nat /\ k <= Len(keys) /\ (Len(keys) = 0 <=> k = 0) /\ k <= 1
  BY <1>2
<1> HIDE DEF k
<1>4. /\ SubSeq(keys, k + 1, Len(keys)) \in Seq(Char)
      /\ Len(SubSeq(keys, k + 1, Len(keys)))
           = IF k + 1 <= Len(keys) THEN Len(keys) - (k + 1) + 1 ELSE 0
  BY <1>2, <1>3, SubSeqProperties
<1>5. keys' \in Seq(Char) /\ Len(keys') <= Capacity
  BY <1>1, <1>2, <1>3, <1>4, MailboxAssumption
<1>6. ASSUME received' # <<>>
      PROVE  Head(received') \in Char
  <2>1. /\ received' \in Seq(Char)
        /\ Len(received') = IF 1 <= k THEN k - 1 + 1 ELSE 0
    BY <1>1, <1>2, <1>3, SubSeqProperties
  <2>2. QED
    BY <1>6, <2>1, HeadTailProperties
<1>7. ASSUME keys = <<>>
      PROVE  keys' = <<>> /\ received' = <<>>
  <2>1. Len(keys) = 0 /\ k = 0
    BY <1>3, <1>7
  <2>2. QED
    BY <1>1, <1>7, <2>1, SubSeqEmpty
<1>8. ASSUME keys # <<>>
      PROVE  keys' = Tail(keys) /\ received' # <<>> /\ Head(received') = Head(keys)
  <2>1. k = 1 /\ Len(keys) \in Nat \ {0}
    BY <1>2, <1>3, <1>8, EmptySeq
  <2>2. keys' = Tail(keys)
    BY <1>1, <1>8, <2>1, TailIsSubSeq
  <2>3. /\ received' \in Seq(Char) /\ Len(received') = 1
        /\ received'[1] = keys[1]
    BY <1>1, <1>2, <2>1, SubSeqProperties
  <2>4. received' # <<>> /\ Head(received') = received'[1]
    <3>1. ASSUME NEW r \in Seq(Char), Len(r) = 1
          PROVE  r # <<>> /\ Head(r) = r[1]
      <4>1. r # <<>>
        BY <3>1, EmptySeq
      <4>2. QED
        BY <4>1
    <3>2. QED
      BY <2>3, <3>1
  <2>5. Head(keys) = keys[1]
    BY <1>8, HeadTailProperties
  <2>6. QED
    BY <2>2, <2>3, <2>4, <2>5
<1>9. QED
  BY <1>5, <1>6, <1>7, <1>8

\* A step of either process moves only that process.
LEMMA GoMoves ==
  ASSUME TypeOK, NEW p \in Proc, NEW from, NEW to \in Places, go(p, from, to)
  PROVE  /\ pc[p] = from /\ pc' \in [Proc -> Places] /\ pc'[p] = to
         /\ \A q \in Proc \ {p} : pc'[q] = pc[q]
         /\ typed' = typed
BY DEF go, TypeOK, Places

\* The two processes are different.
LEMMA ProcFacts == parent \in Proc /\ child \in Proc /\ parent # child
BY MailboxAssumption DEF Proc

\* A step of a process reading keys keeps the invariant.
LEMMA ReaderSafe ==
  ASSUME IInv, NEW p \in Proc, read_keyboard(p)
  PROVE  IInv'
<1>1. TypeOK /\ ParentReads /\ TestStaysGood
  BY DEF IInv
<1>2. /\ keys \in Seq(Char) /\ Len(keys) <= Capacity
      /\ b \in [Proc -> Char \cup {NoKey}]
      /\ shared_mem_addr \in Direction \cup {NoKey}
  BY <1>1 DEF TypeOK
<1>3. p = parent \/ (p = child /\ over)
  BY <1>1, ProcFacts
     DEF Proc, over, read_keyboard, test, read, store, go
<1>4. CASE test(p)
  <2>1. /\ go(p, "test", "read") /\ shared_mem_addr = NoKey
        /\ UNCHANGED <<keys, received, shared_mem_addr, b, direction>>
    BY <1>4 DEF test
  <2>2. /\ pc' \in [Proc -> Places] /\ pc'[p] = "read" /\ typed' = typed
        /\ \A q \in Proc \ {p} : pc'[q] = pc[q]
    BY <1>1, <2>1, GoMoves DEF Places
  <2>3. TypeOK'
    BY <1>1, <2>1, <2>2 DEF TypeOK, Places
  <2>4. ParentReads'
    BY <1>1, <2>2, ProcFacts DEF ParentReads
  <2>5. QED
    BY <2>1, <2>3, <2>4 DEF IInv, TestStaysGood
<1>5. CASE read(p)
  <2>1. /\ go(p, "read", "store") /\ Keyboard!Read(1)
        /\ b' = [b EXCEPT ![p] = IF received' # <<>> THEN Head(received') ELSE @]
        /\ UNCHANGED <<shared_mem_addr, direction>>
    BY <1>5 DEF read
  <2>2. /\ pc[p] = "read" /\ pc' \in [Proc -> Places] /\ pc'[p] = "store"
        /\ typed' = typed /\ \A q \in Proc \ {p} : pc'[q] = pc[q]
    BY <1>1, <2>1, GoMoves DEF Places
  <2>3. /\ keys' \in Seq(Char) /\ Len(keys') <= Capacity
        /\ received' # <<>> => Head(received') \in Char
    BY <1>2, <2>1, ReadTypes
  <2>4. b' \in [Proc -> Char \cup {NoKey}]
    BY <1>2, <2>1, <2>3
  <2>5. TypeOK'
    BY <1>1, <2>1, <2>2, <2>3, <2>4 DEF TypeOK, Places
  <2>6. ParentReads'
    BY <1>1, <2>2, ProcFacts DEF ParentReads
  <2>7. TestStaysGood'
    BY <1>1, <1>3, <2>1, <2>2, ProcFacts DEF TestStaysGood, over
  <2>8. QED
    BY <2>5, <2>6, <2>7 DEF IInv
<1>6. CASE store(p)
  <2>1. /\ go(p, "store", "test")
        /\ shared_mem_addr' = IF b[p] \in Direction THEN b[p] ELSE shared_mem_addr
        /\ b' \in {[b EXCEPT ![p] = NoKey], [b EXCEPT ![p] = b[p]]}
        /\ UNCHANGED <<keys, received, direction>>
    BY <1>6 DEF store
  <2>2. /\ pc[p] = "store" /\ pc' \in [Proc -> Places] /\ pc'[p] = "test"
        /\ typed' = typed /\ \A q \in Proc \ {p} : pc'[q] = pc[q]
    BY <1>1, <2>1, GoMoves DEF Places
  <2>3. TypeOK'
    BY <1>1, <2>1, <2>2 DEF TypeOK, Places
  <2>4. ParentReads'
    BY <1>1, <2>2, ProcFacts DEF ParentReads
  <2>5. TestStaysGood'
    BY <1>3, <2>2, ProcFacts DEF TestStaysGood, over
  <2>6. QED
    BY <2>3, <2>4, <2>5 DEF IInv
<1>7. QED
  BY <1>4, <1>5, <1>6 DEF read_keyboard

\* A step of the game keeps it: the word only changes to empty.
LEMMA GameSafe ==
  ASSUME IInv, start_game
  PROVE  IInv'
<1>1. TypeOK /\ ParentReads /\ TestStaysGood
  BY DEF IInv
<1>2. PICK from \in {"look", "take", "clear", "frame"}, to \in Places :
        go(child, from, to)
  <2>1. CASE look
    BY <2>1 DEF look, Places
  <2>2. CASE take
    BY <2>2 DEF take, Places
  <2>3. CASE clear
    BY <2>3 DEF clear, Places
  <2>4. CASE frame
    BY <2>4 DEF frame, Places
  <2>5. QED
    BY <2>1, <2>2, <2>3, <2>4 DEF start_game
<1>3. /\ pc[child] = from /\ pc' \in [Proc -> Places] /\ typed' = typed
      /\ pc'[parent] = pc[parent]
  BY <1>1, <1>2, GoMoves, ProcFacts
<1>4. /\ UNCHANGED <<keys, received, b>>
      /\ shared_mem_addr' = shared_mem_addr \/ shared_mem_addr' = NoKey
      /\ direction' \in {direction, shared_mem_addr}
  BY DEF start_game, look, take, clear, frame
<1>5. TypeOK'
  BY <1>1, <1>3, <1>4 DEF TypeOK, Places
<1>6. ~over
  BY <1>2, <1>3 DEF over
<1>7. QED
  BY <1>1, <1>3, <1>4, <1>5, <1>6 DEF IInv, ParentReads, TestStaysGood

\* A key keeps it.
LEMMA KeySafe ==
  ASSUME IInv, keyboard_interrupt
  PROVE  IInv'
<1>1. PICK k \in Char : Len(keys) < Capacity /\ keys' = Append(keys, k)
  BY DEF keyboard_interrupt, Keyboard!Key
<1>2. typed' = ~typed /\ UNCHANGED <<shared_mem_addr, b, direction, pc>>
  BY DEF keyboard_interrupt
<1>3. keys' \in Seq(Char) /\ Len(keys') = Len(keys) + 1 /\ Len(keys) \in Nat
  BY <1>1, AppendProperties, LenProperties DEF IInv, TypeOK
<1>4. TypeOK'
  BY <1>1, <1>2, <1>3, MailboxAssumption DEF IInv, TypeOK
<1>5. QED
  BY <1>2, <1>4 DEF IInv, ParentReads, TestStaysGood, over

\* Nobody has read a key yet.
LEMMA InitSafe ==
  ASSUME Init
  PROVE  IInv
<1>1. keys = <<>> /\ keys \in Seq(Char) /\ Len(keys) = 0
  BY DEF Init, Keyboard!Init
<1>2. pc \in [Proc -> Places] /\ pc[parent] = "test"
  BY ProcFacts DEF Init, Places
<1>3. TypeOK
  <2>1. keys \in Seq(Char) /\ Len(keys) <= Capacity
    BY <1>1, MailboxAssumption
  <2>2. /\ shared_mem_addr \in Direction \cup {NoKey}
        /\ b \in [Proc -> Char \cup {NoKey}]
        /\ direction \in Direction \cup {NoKey} /\ typed \in BOOLEAN
    BY DEF Init
  <2>3. QED
    BY <1>2, <2>1, <2>2 DEF TypeOK, Places
<1>4. QED
  BY <1>2, <1>3 DEF IInv, ParentReads, TestStaysGood

\* Every step keeps the invariant.
LEMMA NextSafe ==
  ASSUME IInv, [Next]_vars
  PROVE  IInv'
<1>1. ASSUME UNCHANGED vars
      PROVE  IInv'
  BY <1>1 DEF vars, IInv, TypeOK, ParentReads, TestStaysGood, over
<1>2. QED
  BY <1>1, ReaderSafe, GameSafe, KeySafe DEF Next
-----------------------------------------------------------------------------
\* The invariant holds in every state of every behaviour.
THEOREM Invariance == Spec => []IInv
<1>1. Init => IInv
  BY InitSafe
<1>2. IInv /\ [Next]_vars => IInv'
  BY NextSafe
<1>3. QED
  BY <1>1, <1>2, PTL DEF Spec

\* The test of the word is still good when the key is stored: the reader never
\* overwrites a direction, for any keyboard and any interleaving.
THEOREM NothingIsOverwritten == Spec => []TestStaysGood
<1>1. IInv => TestStaysGood
  BY DEF IInv
<1>2. QED
  BY <1>1, Invariance, PTL
-----------------------------------------------------------------------------
(* The directions among the keys.                                          *)

\* What directions(s) is computed by: f[n] are the directions of the first n.
Collects(f, s) ==
  /\ f \in [0 .. Len(s) -> Seq(Direction)]
  /\ f[0] = <<>>
  /\ \A n \in 1 .. Len(s) :
        f[n] = IF s[n] \in Direction THEN Append(f[n - 1], s[n]) ELSE f[n - 1]

\* The definition of directions has a solution.
LEMMA DirectionsComputed ==
  ASSUME NEW s \in Seq(Char)
  PROVE  \E f : Collects(f, s) /\ directions(s) = f[Len(s)]
<1> DEFINE S == 0 .. Len(s)
           V == Seq(Direction)
           body(f, n) == IF n = 0 THEN <<>>
                         ELSE IF s[n] \in Direction THEN Append(f[n - 1], s[n])
                         ELSE f[n - 1]
           m == [n \in S |-> n]
           D == [p \in S \X [S -> V] |-> body(p[2], p[1])]
           of == CHOOSE f : f = [n \in S |-> body(f, n)]
<1>1. Len(s) \in Nat
  BY LenProperties
<1>2. V # {} /\ <<>> \in V
  BY EmptySeq
<1>3. ASSUME NEW f \in [S -> V], NEW n \in S
      PROVE  body(f, n) \in V
  <2>1. CASE n = 0
    BY <1>2, <2>1
  <2>2. CASE n # 0
    <3>1. n - 1 \in S
      BY <1>1, <2>2
    <3>2. f[n - 1] \in Seq(Direction)
      BY <3>1
    <3>3. s[n] \in Direction => Append(f[n - 1], s[n]) \in Seq(Direction)
      BY <3>2, AppendProperties
    <3>4. QED
      BY <2>2, <3>2, <3>3
  <2>3. QED
    BY <2>1, <2>2
<1>4. /\ D \in [S \X [S -> V] -> V]
      /\ \A n \in S, f \in [S -> V] : D[<<n, f>>] = body(f, n)
  BY <1>3
<1>5. m \in [S -> Nat] /\ \A n \in S : m[n] = n
  BY <1>1
<1>6. \A n \in S : \A f, g \in [S -> V] :
        (\A k \in S : m[k] < m[n] => f[k] = g[k]) => D[<<n, f>>] = D[<<n, g>>]
  <2> SUFFICES ASSUME NEW n \in S, NEW f \in [S -> V], NEW g \in [S -> V],
                      \A k \in S : m[k] < m[n] => f[k] = g[k]
               PROVE  body(f, n) = body(g, n)
    <3> HIDE DEF body, V, D, m, S
    <3>1. QED
      BY <1>4
  <2>1. n # 0 => n - 1 \in S /\ n - 1 < n
    BY <1>1
  <2>2. n # 0 => f[n - 1] = g[n - 1]
    BY <1>5, <2>1
  <2>3. QED
    BY <2>2
<1> HIDE DEF body, V, D, m
<1>7. PICK f \in [S -> V] : \A n \in S : f[n] = D[<<n, f>>]
  <2> HIDE DEF S
  <2>1. LooksBelow(S, V, m, D)
    BY <1>6 DEF LooksBelow
  <2>2. Solvable(S, V, D)
    BY <1>2, <1>4, <1>5, <2>1, Recursion, Zenon
  <2>3. QED
    BY <2>2 DEF Solvable
<1>8. f = [n \in S |-> body(f, n)]
  BY <1>4, <1>7
<1>9. of = [n \in S |-> body(of, n)]
  BY <1>8
<1>10. directions(s) = of[Len(s)]
  BY DEF directions, body
<1> HIDE DEF of
<1>11. of[0] = <<>>
  <2>1. 0 \in S /\ of[0] = body(of, 0)
    BY <1>1, <1>9
  <2>2. QED
    BY <2>1 DEF body
<1>12. ASSUME NEW n \in 1 .. Len(s)
       PROVE  of[n] = IF s[n] \in Direction THEN Append(of[n - 1], s[n]) ELSE of[n - 1]
  <2>1. n \in S /\ n # 0 /\ of[n] = body(of, n)
    BY <1>1, <1>9
  <2>2. QED
    BY <2>1 DEF body
<1>13. ASSUME NEW n \in S
       PROVE  of[n] \in V
  <2> DEFINE T == {k \in Nat : k \in S => of[k] \in V}
  <2>1. 0 \in T
    BY <1>2, <1>11
  <2>2. ASSUME NEW k \in T
        PROVE  k + 1 \in T
    <3> SUFFICES ASSUME k + 1 \in S PROVE of[k + 1] \in Seq(Direction)
      BY DEF V
    <3>1. k \in S /\ k + 1 \in 1 .. Len(s) /\ (k + 1) - 1 = k
      BY <1>1
    <3>2. of[k] \in Seq(Direction)
      BY <3>1 DEF V
    <3>3. s[k + 1] \in Direction => Append(of[k], s[k + 1]) \in Seq(Direction)
      BY <3>2, AppendProperties
    <3>4. QED
      BY <1>12, <3>1, <3>2, <3>3
  <2>3. T = Nat
    <3>1. T \in SUBSET Nat
      OBVIOUS
    <3> HIDE DEF T
    <3>2. QED
      BY <2>1, <2>2, <3>1, SetInduction
  <2>4. QED
    BY <1>1, <2>3
<1>14. of \in [S -> V]
  BY <1>9, <1>13
<1>15. QED
  BY <1>10, <1>11, <1>12, <1>14 DEF Collects, V

\* The directions of what is typed so far do not change when more is typed.
LEMMA CollectsPrefix ==
  ASSUME NEW s \in Seq(Char), NEW r \in Seq(Char), Len(s) <= Len(r),
         \A i \in 1 .. Len(s) : r[i] = s[i],
         NEW f, Collects(f, s), NEW g, Collects(g, r)
  PROVE  \A n \in 0 .. Len(s) : g[n] = f[n]
<1> DEFINE T == {n \in Nat : n <= Len(s) => g[n] = f[n]}
<1>1. Len(s) \in Nat /\ Len(r) \in Nat
  BY LenProperties
<1>2. 0 \in T
  BY DEF Collects
<1>3. ASSUME NEW n \in T
      PROVE  n + 1 \in T
  <2> SUFFICES ASSUME n + 1 <= Len(s) PROVE g[n + 1] = f[n + 1]
    OBVIOUS
  <2>1. /\ n + 1 \in 1 .. Len(s) /\ n + 1 \in 1 .. Len(r) /\ (n + 1) - 1 = n
        /\ g[n] = f[n]
    BY <1>1
  <2>2. QED
    BY <2>1 DEF Collects
<1>4. T = Nat
  <2>1. T \in SUBSET Nat
    OBVIOUS
  <2> HIDE DEF T
  <2>2. QED
    BY <1>2, <1>3, <2>1, SetInduction
<1>5. QED
  BY <1>1, <1>4

\* What a key adds to the directions.
LEMMA DirectionsAppend ==
  ASSUME NEW s \in Seq(Char), NEW k \in Char
  PROVE  /\ directions(s) \in Seq(Direction)
         /\ directions(Append(s, k))
              = IF k \in Direction THEN Append(directions(s), k) ELSE directions(s)
<1> DEFINE r == Append(s, k)
<1>1. /\ r \in Seq(Char) /\ Len(r) = Len(s) + 1 /\ Len(s) \in Nat
      /\ r[Len(s) + 1] = k /\ \A i \in 1 .. Len(s) : r[i] = s[i]
  BY AppendProperties, LenProperties
<1> HIDE DEF r
<1>2. PICK f : Collects(f, s) /\ directions(s) = f[Len(s)]
  BY DirectionsComputed
<1>3. PICK g : Collects(g, r) /\ directions(r) = g[Len(r)]
  BY <1>1, DirectionsComputed
<1>4. g[Len(s)] = f[Len(s)]
  <2>1. Len(s) <= Len(r) /\ Len(s) \in 0 .. Len(s)
    BY <1>1
  <2>2. QED
    BY <1>1, <1>2, <1>3, <2>1, CollectsPrefix
<1>5. Len(s) + 1 \in 1 .. Len(r) /\ (Len(s) + 1) - 1 = Len(s)
  BY <1>1
<1>6. g[Len(s) + 1] = IF k \in Direction THEN Append(g[Len(s)], k) ELSE g[Len(s)]
  BY <1>1, <1>3, <1>5 DEF Collects
<1>7. directions(s) \in Seq(Direction)
  BY <1>1, <1>2 DEF Collects
<1>8. QED
  BY <1>1, <1>2, <1>3, <1>4, <1>6, <1>7 DEF r

\* No keys, no directions.
LEMMA DirectionsEmpty == directions(<<>>) = <<>>
<1>1. <<>> \in Seq(Char) /\ Len(<<>>) = 0
  BY EmptySeq
<1>2. PICK f : Collects(f, <<>>) /\ directions(<<>>) = f[0]
  BY <1>1, DirectionsComputed
<1>3. QED
  BY <1>2 DEF Collects

\* Appending to the second of two sequences appends to both together.
LEMMA AppendAfter ==
  ASSUME NEW a \in Seq(Direction), NEW c \in Seq(Direction), NEW e \in Direction
  PROVE  Append(a \o c, e) = a \o Append(c, e)
<1>1. a \o c \in Seq(Direction) /\ <<e>> \in Seq(Direction)
  BY ConcatProperties
<1>2. Append(a \o c, e) = (a \o c) \o <<e>> /\ Append(c, e) = c \o <<e>>
  BY <1>1, AppendIsConcat
<1>3. (a \o c) \o <<e>> = a \o (c \o <<e>>)
  BY <1>1, ConcatAssociative
<1>4. QED
  BY <1>2, <1>3

\* What the first key gives comes before what the others give.
LEMMA DirectionsTail ==
  ASSUME NEW s \in Seq(Char), s # <<>>
  PROVE  directions(s) = (IF Head(s) \in Direction THEN <<Head(s)>> ELSE <<>>)
                           \o directions(Tail(s))
<1> DEFINE hd == IF s[1] \in Direction THEN <<s[1]>> ELSE <<>>
           r == Tail(s)
<1>1. /\ r \in Seq(Char) /\ Len(r) = Len(s) - 1 /\ Len(s) \in Nat \ {0}
      /\ \A i \in 1 .. Len(r) : r[i] = s[i + 1]
      /\ Head(s) = s[1]
  BY HeadTailProperties, LenProperties, EmptySeq
<1> HIDE DEF r
<1>2. PICK f : Collects(f, s) /\ directions(s) = f[Len(s)]
  BY DirectionsComputed
<1>3. PICK g : Collects(g, r) /\ directions(r) = g[Len(r)]
  BY <1>1, DirectionsComputed
<1>4. hd \in Seq(Direction)
  OBVIOUS
<1>5. f[1] = hd
  <2>1. 1 \in 1 .. Len(s) /\ 1 - 1 = 0
    BY <1>1
  <2>2. f[1] = IF s[1] \in Direction THEN Append(<<>>, s[1]) ELSE <<>>
    BY <1>2, <2>1 DEF Collects
  <2>3. QED
    BY <2>2
<1> HIDE DEF hd
<1> DEFINE T == {n \in Nat : n <= Len(r) => f[n + 1] = hd \o g[n]}
<1>6. 0 \in T
  BY <1>3, <1>4, <1>5, ConcatEmptySeq DEF Collects
<1>7. ASSUME NEW n \in T
      PROVE  n + 1 \in T
  <2> SUFFICES ASSUME n + 1 <= Len(r)
               PROVE  f[(n + 1) + 1] = hd \o g[n + 1]
    OBVIOUS
  <2>1. /\ n + 1 \in 1 .. Len(r) /\ (n + 1) + 1 \in 1 .. Len(s)
        /\ (n + 1) - 1 = n /\ ((n + 1) + 1) - 1 = n + 1
        /\ s[(n + 1) + 1] = r[n + 1]
        /\ f[n + 1] = hd \o g[n] /\ n \in 0 .. Len(r)
    BY <1>1
  <2>2. g[n + 1] = IF r[n + 1] \in Direction THEN Append(g[n], r[n + 1]) ELSE g[n]
    BY <1>3, <2>1 DEF Collects
  <2>3. f[(n + 1) + 1] = IF r[n + 1] \in Direction THEN Append(f[n + 1], r[n + 1])
                         ELSE f[n + 1]
    BY <1>2, <2>1 DEF Collects
  <2>4. g[n] \in Seq(Direction)
    BY <1>3, <2>1 DEF Collects
  <2>5. ASSUME r[n + 1] \in Direction
        PROVE  Append(hd \o g[n], r[n + 1]) = hd \o Append(g[n], r[n + 1])
    BY <1>4, <2>4, <2>5, AppendAfter
  <2>6. QED
    BY <2>1, <2>2, <2>3, <2>5
<1>8. T = Nat
  <2>1. T \in SUBSET Nat
    OBVIOUS
  <2> HIDE DEF T
  <2>2. QED
    BY <1>6, <1>7, <2>1, SetInduction
<1>9. f[Len(s)] = hd \o g[Len(r)]
  <2>1. Len(r) \in Nat /\ Len(r) + 1 = Len(s)
    BY <1>1
  <2>2. QED
    BY <1>8, <2>1
<1>10. QED
  BY <1>1, <1>2, <1>3, <1>9 DEF hd, r
-----------------------------------------------------------------------------
(* The refinement.                                                         *)

\* The game takes a direction only when there is one.
WordIsThere == pc[child] \in {"take", "clear"} => shared_mem_addr # NoKey

\* A direction left in the reader's variable is the last one that got to the word,
\* or there has been none.
LeftIsLast ==
  ~over /\ pc[parent] \in {"test", "read"} /\ b[parent] \in Direction =>
     \/ in_word = <<b[parent]>>
     \/ in_word = <<>> /\ direction \in {NoKey, b[parent]}

RInv == IInv /\ WordIsThere /\ LeftIsLast

\* 0 is no direction.
LEMMA KeyFacts == NoKey \notin Direction /\ Direction \subseteq Char
BY MailboxAssumption

\* The directions among some keys are directions.
LEMMA DirectionsType ==
  ASSUME NEW s \in Seq(Char)
  PROVE  directions(s) \in Seq(Direction)
<1>1. PICK f : Collects(f, s) /\ directions(s) = f[Len(s)]
  BY DirectionsComputed
<1>2. Len(s) \in 0 .. Len(s)
  BY LenProperties
<1>3. QED
  BY <1>1, <1>2 DEF Collects

\* The parts of pending are sequences of directions.
LEMMA PendingTypes ==
  ASSUME TypeOK
  PROVE  /\ in_word \in Seq(Direction) /\ in_hand \in Seq(Direction)
         /\ directions(keys) \in Seq(Direction)
         /\ in_word \o in_hand \in Seq(Direction)
         /\ pending \in Seq(Direction)
<1>1. in_word \in Seq(Direction)
  BY DEF TypeOK, in_word
<1>2. in_hand \in Seq(Direction)
  BY DEF TypeOK, in_hand
<1>3. directions(keys) \in Seq(Direction)
  BY DirectionsType DEF TypeOK
<1>4. in_word \o in_hand \in Seq(Direction)
  BY <1>1, <1>2, ConcatProperties
<1>5. (in_word \o in_hand) \o directions(keys) \in Seq(Direction)
  BY <1>3, <1>4, ConcatProperties
<1>6. QED
  BY <1>1, <1>2, <1>3, <1>4, <1>5, EmptySeq DEF pending

\* Once the game is over it stays so, and until then only the parent reads keys.
LEMMA OverIsFinal ==
  ASSUME IInv, [Next]_vars, over
  PROVE  over' /\ direction' = direction
<1>1. TypeOK
  BY DEF IInv
<1>2. CASE start_game
  BY <1>2 DEF start_game, look, take, clear, frame, go, over
<1>3. CASE keyboard_interrupt \/ UNCHANGED vars
  BY <1>3 DEF keyboard_interrupt, vars, over
<1>4. ASSUME NEW p \in Proc, read_keyboard(p)
      PROVE  over' /\ direction' = direction
  <2>1. PICK from \in {"test", "read", "store"}, to \in {"test", "read", "store"} :
          go(p, from, to)
    BY <1>4 DEF read_keyboard, test, read, store
  <2>2. /\ pc'[p] = to /\ \A q \in Proc \ {p} : pc'[q] = pc[q]
    BY <1>1, <2>1, GoMoves DEF Places
  <2>3. direction' = direction
    BY <1>4 DEF read_keyboard, test, read, store
  <2>4. QED
    BY <2>2, <2>3, ProcFacts DEF over
<1>5. QED
  BY <1>2, <1>3, <1>4 DEF Next

\* A parent that reads while the game goes on.
LEMMA ParentStep ==
  ASSUME IInv, ~over, NEW p \in Proc, read_keyboard(p)
  PROVE  p = parent /\ ~over' /\ pc'[child] = pc[child]
<1>1. TypeOK
  BY DEF IInv
<1>2. PICK from \in {"test", "read", "store"}, to \in {"test", "read", "store"} :
        go(p, from, to)
  BY DEF read_keyboard, test, read, store
<1>3. pc[p] = from /\ pc'[p] = to /\ \A q \in Proc \ {p} : pc'[q] = pc[q]
  BY <1>1, <1>2, GoMoves DEF Places
<1>4. QED
  BY <1>3, ProcFacts DEF over, Proc

\* Whether the game is over is the same before and after.
LEMMA SameOver ==
  ASSUME over' <=> over
  PROVE  over' = over
BY DEF over

\* A step that changes nothing the channel knows of.
LEMMA NothingMoves ==
  ASSUME UNCHANGED <<typed, pending, direction>>, over' <=> over
  PROVE  [Channel!Next]_(Channel!vars)
BY SameOver DEF Channel!vars

\* The reader: a key goes from the keyboard to its hand, and from there to the
\* word, and stays in its place among those on their way.
LEMMA ReaderMoves ==
  ASSUME RInv, ~over, read_keyboard(parent)
  PROVE  /\ WordIsThere' /\ LeftIsLast'
         /\ [Channel!Next]_(Channel!vars)
<1>1. /\ TypeOK /\ TestStaysGood /\ WordIsThere /\ LeftIsLast
      /\ keys \in Seq(Char) /\ Len(keys) <= Capacity
      /\ b \in [Proc -> Char \cup {NoKey}]
  BY DEF RInv, IInv, TypeOK
<1>2. ~over' /\ pc'[child] = pc[child]
  BY ParentStep, ProcFacts DEF RInv
<1>3. typed' = typed /\ direction' = direction
  BY DEF read_keyboard, test, read, store, go
<1>4. CASE test(parent)
  <2>1. /\ go(parent, "test", "read") /\ shared_mem_addr = NoKey
        /\ UNCHANGED <<keys, shared_mem_addr, b>>
    BY <1>4 DEF test
  <2>2. pc[parent] = "test" /\ pc'[parent] = "read"
    BY <1>1, <2>1, GoMoves, ProcFacts DEF Places
  <2>3. in_word' = in_word /\ in_hand' = in_hand
    BY <1>2, <2>1, <2>2 DEF in_word, in_hand
  <2>4. pending' = pending
    BY <1>2, <2>1, <2>3 DEF pending
  <2>5. WordIsThere' /\ LeftIsLast'
    BY <1>1, <1>2, <1>3, <2>1, <2>2, <2>3 DEF WordIsThere, LeftIsLast
  <2>6. QED
    BY <1>2, <1>3, <2>4, <2>5, NothingMoves
<1>5. CASE read(parent)
  <2>1. /\ go(parent, "read", "store") /\ Keyboard!Read(1)
        /\ b' = [b EXCEPT ![parent] = IF received' # <<>> THEN Head(received') ELSE @]
        /\ shared_mem_addr' = shared_mem_addr
    BY <1>5 DEF read
  <2>2. pc[parent] = "read" /\ pc'[parent] = "store"
    BY <1>1, <2>1, GoMoves, ProcFacts DEF Places
  <2>3. shared_mem_addr = NoKey
    BY <1>1, <2>2 DEF TestStaysGood
  <2>4. WordIsThere' /\ LeftIsLast'
    BY <1>1, <1>2, <2>1, <2>2 DEF WordIsThere, LeftIsLast
  <2>5. in_word = <<>> /\ in_hand = <<>> /\ in_word' = <<>>
    BY <1>2, <2>1, <2>2, <2>3 DEF in_word, in_hand
  <2>6. /\ pending = directions(keys)
        /\ pending' = in_hand' \o directions(keys')
    <3>1. <<>> \o <<>> = <<>>
      OBVIOUS
    <3>2. TypeOK'
      BY ReaderSafe, ProcFacts DEF RInv, IInv
    <3>3. in_hand' \in Seq(Direction)
      BY <3>2 DEF TypeOK, in_hand
    <3>4. directions(keys) \in Seq(Direction)
      BY <1>1, DirectionsType
    <3>5. <<>> \o directions(keys) = directions(keys) /\ <<>> \o in_hand' = in_hand'
      BY <3>3, <3>4, ConcatEmptySeq
    <3>6. QED
      BY <1>2, <2>5, <3>1, <3>5 DEF pending
  <2>7. CASE keys # <<>>
    <3>1. keys' = Tail(keys) /\ b'[parent] = Head(keys)
      BY <1>1, <2>1, <2>7, ReadTypes, ProcFacts
    <3>2. in_hand' = IF Head(keys) \in Direction THEN <<Head(keys)>> ELSE <<>>
      BY <2>2, <3>1 DEF in_hand
    <3>3. pending' = pending
      BY <1>1, <2>6, <2>7, <3>1, <3>2, DirectionsTail
    <3>4. QED
      BY <1>2, <1>3, <2>4, <3>3, NothingMoves
  <2>8. CASE keys = <<>>
    <3>1. keys' = <<>> /\ b'[parent] = b[parent]
      BY <1>1, <2>1, <2>8, ReadTypes, ProcFacts
    <3>2. in_hand' = IF b[parent] \in Direction THEN <<b[parent]>> ELSE <<>>
      BY <2>2, <3>1 DEF in_hand
    <3>3. pending = <<>> /\ pending' = in_hand'
      BY <2>6, <2>8, <3>1, <3>2, DirectionsEmpty
    <3>4. CASE b[parent] \in Direction
      <4>1. direction \in {NoKey, b[parent]}
        BY <1>1, <1>2, <2>2, <2>5, <3>4 DEF LeftIsLast
      <4>2. Channel!Again
        BY <1>2, <1>3, <3>2, <3>3, <3>4, <4>1, SameOver DEF Channel!Again
      <4>3. QED
        BY <2>4, <4>2 DEF Channel!Next
    <3>5. CASE b[parent] \notin Direction
      BY <1>2, <1>3, <2>4, <3>2, <3>3, <3>5, NothingMoves
    <3>6. QED
      BY <3>4, <3>5
  <2>9. QED
    BY <2>7, <2>8
<1>6. CASE store(parent)
  <2>1. /\ go(parent, "store", "test")
        /\ shared_mem_addr' = IF b[parent] \in Direction THEN b[parent]
                              ELSE shared_mem_addr
        /\ b' \in {[b EXCEPT ![parent] = NoKey], [b EXCEPT ![parent] = b[parent]]}
        /\ keys' = keys
    BY <1>6 DEF store
  <2>2. pc[parent] = "store" /\ pc'[parent] = "test"
    BY <1>1, <2>1, GoMoves, ProcFacts DEF Places
  <2>3. shared_mem_addr = NoKey /\ pc[child] \notin {"take", "clear"}
    BY <1>1, <2>2 DEF TestStaysGood, WordIsThere
  <2>4. b'[parent] \in {NoKey, b[parent]}
    BY <1>1, <2>1, ProcFacts
  <2>5. WordIsThere' /\ LeftIsLast'
    <3>1. WordIsThere'
      BY <1>2, <2>3 DEF WordIsThere
    <3>2. b'[parent] \in Direction => in_word' = <<b'[parent]>>
      BY <1>2, <2>1, <2>3, <2>4, KeyFacts DEF in_word
    <3>3. QED
      BY <3>1, <3>2 DEF LeftIsLast
  <2>6. in_word = <<>> /\ in_hand' = <<>> /\ in_word' = in_hand
    BY <1>2, <2>1, <2>2, <2>3, KeyFacts DEF in_word, in_hand
  <2>7. in_word' \o in_hand' = in_word \o in_hand
    <3>1. in_hand \in Seq(Direction)
      BY <1>1, PendingTypes
    <3>2. QED
      BY <2>6, <3>1, ConcatEmptySeq
  <2>8. pending' = pending
    BY <1>2, <2>1, <2>7 DEF pending
  <2>9. QED
    BY <1>2, <1>3, <2>5, <2>8, NothingMoves
<1>7. QED
  BY <1>4, <1>5, <1>6 DEF read_keyboard

\* The game: it takes the direction that is first on its way, and when it is over
\* the others are nothing to it.
LEMMA GameMoves ==
  ASSUME RInv, start_game
  PROVE  /\ WordIsThere' /\ LeftIsLast'
         /\ [Channel!Next]_(Channel!vars)
<1>1. TypeOK /\ WordIsThere /\ LeftIsLast
  BY DEF RInv, IInv
<1>2. UNCHANGED <<keys, b, typed>> /\ ~over
  BY DEF start_game, look, take, clear, frame, go, over
<1>3. CASE look
  <2>1. PICK to \in {"take", "frame"} :
          /\ go(child, "look", to) /\ UNCHANGED <<shared_mem_addr, direction>>
          /\ to = "take" => shared_mem_addr # NoKey
    BY <1>3 DEF look
  <2>2. pc[child] = "look" /\ pc'[child] = to /\ pc'[parent] = pc[parent]
    BY <1>1, <2>1, GoMoves, ProcFacts DEF Places
  <2>3. in_word' = in_word /\ in_hand' = in_hand /\ ~over'
    BY <1>2, <2>1, <2>2 DEF in_word, in_hand, over
  <2>4. WordIsThere' /\ LeftIsLast'
    BY <1>1, <1>2, <2>1, <2>2, <2>3 DEF WordIsThere, LeftIsLast
  <2>5. pending' = pending
    BY <1>2, <2>3 DEF pending
  <2>6. QED
    BY <1>2, <2>1, <2>3, <2>4, <2>5, NothingMoves
<1>4. CASE take
  <2>1. /\ go(child, "take", "clear") /\ direction' = shared_mem_addr
        /\ shared_mem_addr' = shared_mem_addr
    BY <1>4 DEF take
  <2>2. pc[child] = "take" /\ pc'[child] = "clear" /\ pc'[parent] = pc[parent]
    BY <1>1, <2>1, GoMoves, ProcFacts DEF Places
  <2>3. shared_mem_addr # NoKey /\ shared_mem_addr \in Direction
    BY <1>1, <2>2 DEF WordIsThere, TypeOK
  <2>4. /\ in_word = <<shared_mem_addr>> /\ in_word' = <<>>
        /\ in_hand' = in_hand /\ ~over'
    BY <1>2, <2>1, <2>2, <2>3 DEF in_word, in_hand, over
  <2>5. WordIsThere' /\ LeftIsLast'
    <3>1. WordIsThere'
      BY <2>1, <2>3 DEF WordIsThere
    <3>2. <<shared_mem_addr>> = <<b[parent]>> => direction' = b[parent]
      BY <2>1
    <3>3. <<shared_mem_addr>> # <<>>
      OBVIOUS
    <3>4. QED
      BY <1>1, <1>2, <2>2, <2>4, <3>1, <3>2, <3>3 DEF LeftIsLast
  <2> DEFINE d == shared_mem_addr
             rest == in_hand \o directions(keys)
  <2>6. rest \in Seq(Direction) /\ in_hand \in Seq(Direction)
        /\ directions(keys) \in Seq(Direction)
    BY <1>1, PendingTypes, ConcatProperties
  <2>7. pending = <<d>> \o rest
    BY <1>2, <2>3, <2>4, <2>6, ConcatAssociative DEF pending
  <2>8. pending' = rest
    BY <1>2, <2>4, <2>6, ConcatEmptySeq DEF pending
  <2> HIDE DEF rest
  <2>9. pending # <<>> /\ Head(pending) = d /\ Tail(pending) = rest
    BY <2>3, <2>6, <2>7
  <2>10. Channel!Handle
    BY <1>2, <2>1, <2>4, <2>8, <2>9, SameOver DEF Channel!Handle
  <2>11. QED
    BY <2>5, <2>10 DEF Channel!Next
<1>5. CASE clear
  <2>1. /\ go(child, "clear", "frame") /\ shared_mem_addr' = NoKey
        /\ direction' = direction
    BY <1>5 DEF clear
  <2>2. pc[child] = "clear" /\ pc'[child] = "frame" /\ pc'[parent] = pc[parent]
    BY <1>1, <2>1, GoMoves, ProcFacts DEF Places
  <2>3. in_word' = in_word /\ in_hand' = in_hand /\ ~over'
    BY <1>2, <2>1, <2>2 DEF in_word, in_hand, over
  <2>4. WordIsThere' /\ LeftIsLast'
    BY <1>1, <1>2, <2>1, <2>2, <2>3 DEF WordIsThere, LeftIsLast
  <2>5. pending' = pending
    BY <1>2, <2>3 DEF pending
  <2>6. QED
    BY <1>2, <2>1, <2>3, <2>4, <2>5, NothingMoves
<1>6. CASE frame
  <2>1. PICK to \in {"look", "test"} :
          go(child, "frame", to) /\ UNCHANGED <<shared_mem_addr, direction>>
    BY <1>6 DEF frame
  <2>2. pc[child] = "frame" /\ pc'[child] = to /\ pc'[parent] = pc[parent]
    BY <1>1, <2>1, GoMoves, ProcFacts DEF Places
  <2>3. WordIsThere' /\ LeftIsLast'
    <3>1. in_word' = in_word
      BY <2>1, <2>2 DEF in_word
    <3>2. QED
      BY <1>1, <1>2, <2>1, <2>2, <3>1 DEF WordIsThere, LeftIsLast
  <2>4. CASE to = "look"
    <3>1. in_word' = in_word /\ in_hand' = in_hand /\ ~over'
      BY <1>2, <2>1, <2>2, <2>4 DEF in_word, in_hand, over
    <3>2. pending' = pending
      BY <1>2, <3>1 DEF pending
    <3>3. QED
      BY <1>2, <2>1, <2>3, <3>1, <3>2, NothingMoves
  <2>5. CASE to = "test"
    <3>1. over' /\ pending' = <<>>
      BY <2>2, <2>5 DEF over, pending
    <3>2. Channel!End
      BY <1>2, <2>1, <3>1 DEF Channel!End
    <3>3. QED
      BY <2>3, <3>2 DEF Channel!Next
  <2>6. QED
    BY <2>4, <2>5
<1>7. QED
  BY <1>3, <1>4, <1>5, <1>6 DEF start_game

\* A key that is a direction comes last of those on their way.
LEMMA KeyMoves ==
  ASSUME RInv, ~over, keyboard_interrupt
  PROVE  /\ WordIsThere' /\ LeftIsLast'
         /\ [Channel!Next]_(Channel!vars)
<1>1. PICK k \in Char : keys' = Append(keys, k)
  BY DEF keyboard_interrupt, Keyboard!Key
<1>2. typed' = ~typed /\ UNCHANGED <<shared_mem_addr, b, direction, pc>> /\ ~over'
  BY DEF keyboard_interrupt, over
<1>3. TypeOK /\ WordIsThere /\ LeftIsLast /\ keys \in Seq(Char)
  BY DEF RInv, IInv, TypeOK
<1>4. WordIsThere' /\ LeftIsLast'
  BY <1>2, <1>3 DEF WordIsThere, LeftIsLast, in_word
<1> DEFINE front == in_word \o in_hand
           old == directions(keys)
<1>5. front \in Seq(Direction) /\ old \in Seq(Direction)
  BY <1>3, PendingTypes
<1>6. directions(keys') = IF k \in Direction THEN Append(old, k) ELSE old
  BY <1>1, <1>3, DirectionsAppend
<1>7. pending = front \o old /\ pending' = front \o directions(keys')
  BY <1>2 DEF pending, in_word, in_hand
<1>8. k \in Direction => pending' = Append(pending, k)
  <2> SUFFICES ASSUME k \in Direction
               PROVE  front \o Append(old, k) = Append(front \o old, k)
    BY <1>6, <1>7
  <2> HIDE DEF front, old
  <2>1. <<k>> \in Seq(Direction) /\ front \o old \in Seq(Direction)
    BY <1>5, ConcatProperties
  <2>2. Append(old, k) = old \o <<k>> /\ Append(front \o old, k) = (front \o old) \o <<k>>
    BY <1>5, <2>1, AppendIsConcat
  <2>3. (front \o old) \o <<k>> = front \o (old \o <<k>>)
    BY <1>5, <2>1, ConcatAssociative
  <2>4. QED
    BY <2>2, <2>3
<1>9. k \notin Direction => pending' = pending
  BY <1>6, <1>7
<1>10. Channel!Type
  BY <1>2, <1>8, <1>9, SameOver DEF Channel!Type
<1>11. QED
  BY <1>4, <1>10 DEF Channel!Next

\* Every step keeps the invariant, and is one of the channel or none to it.
LEMMA StepMoves ==
  ASSUME RInv, [Next]_vars
  PROVE  RInv' /\ [Channel!Next]_(Channel!vars)
<1>1. IInv /\ IInv'
  BY NextSafe DEF RInv
<1>2. CASE UNCHANGED vars
  BY <1>1, <1>2 DEF RInv, WordIsThere, LeftIsLast, vars, over, pending, in_word,
                    in_hand, Channel!vars
<1>3. CASE over /\ ~UNCHANGED vars
  <2>1. over' /\ direction' = direction /\ pending = <<>> /\ pending' = <<>>
    BY <1>1, <1>3, OverIsFinal DEF pending
  <2>2. WordIsThere' /\ LeftIsLast'
    BY <2>1 DEF WordIsThere, LeftIsLast, over
  <2>3. typed' = typed \/ typed' = ~typed
    BY <1>3 DEF Next, keyboard_interrupt, start_game, look, take, clear, frame,
                read_keyboard, test, read, store, go
  <2>4. typed' = ~typed => Channel!Type
    BY <1>3, <2>1 DEF Channel!Type
  <2>5. QED
    BY <1>1, <1>3, <2>1, <2>2, <2>3, <2>4 DEF RInv, Channel!vars, Channel!Next
<1>4. CASE ~over /\ ~UNCHANGED vars
  <2>1. ASSUME NEW p \in Proc, read_keyboard(p)
        PROVE  p = parent
    BY <1>1, <1>4, <2>1, ParentStep
  <2>2. QED
    BY <1>1, <1>4, <2>1, ReaderMoves, GameMoves, KeyMoves DEF Next, RInv
<1>5. QED
  BY <1>2, <1>3, <1>4

\* The game handles the directions typed, in order and none left out: keyboard,
\* reader, word and game, without a lock, are a channel, in which nothing but the
\* last direction comes a second time, and that only when no other waits.
THEOREM KeysArriveInOrder == Spec => KeyChannelSpec
<1>1. Init => RInv /\ Channel!Init
  <2> SUFFICES ASSUME Init PROVE RInv /\ Channel!Init
    OBVIOUS
  <2>1. /\ keys = <<>> /\ shared_mem_addr = NoKey /\ direction = NoKey
        /\ typed = FALSE /\ pc[parent] = "test" /\ pc[child] = "look"
    BY ProcFacts DEF Init, Keyboard!Init
  <2>2. IInv
    BY InitSafe
  <2>3. ~over /\ pending = <<>>
    BY <2>1, DirectionsEmpty DEF over, pending, in_word, in_hand
  <2>4. QED
    BY <2>1, <2>2, <2>3 DEF RInv, WordIsThere, LeftIsLast, in_word, Channel!Init
<1>2. RInv /\ [Next]_vars => RInv' /\ [Channel!Next]_(Channel!vars)
  BY StepMoves
<1>3. QED
  BY <1>1, <1>2, PTL DEF Spec, KeyChannelSpec, Channel!Spec
=============================================================================
