----------------------------- MODULE DeviceProofs -----------------------------
(***************************************************************************)
(* Theorems about the two devices of the machine: the keyboard's circular  *)
(* buffer, for every capacity (module KeyBuffer), and the screen, for      *)
(* every size of screen and board and every text (modules Console and      *)
(* GameScreen).                                                            *)
(***************************************************************************)
EXTENDS KeyBuffer, GameScreen, QueueLemmas

-----------------------------------------------------------------------------
(* The keyboard's buffer: indices.                                         *)

\* An index that goes at most once round the buffer, without division.
LEMMA NextIndex ==
  ASSUME NEW i \in Index, NEW k \in 0 .. BUFFER_SIZE
  PROVE  /\ next_index(i, k) = IF i + k < BUFFER_SIZE THEN i + k
                                                      ELSE i + k - BUFFER_SIZE
         /\ next_index(i, k) \in Index
<1>1. BUFFER_SIZE \in Nat /\ BUFFER_SIZE > 0 /\ i \in Nat /\ k \in Nat
      /\ i < BUFFER_SIZE /\ k <= BUFFER_SIZE
  BY KeyBufferAssumption DEF Index
<1>2. ASSUME NEW a \in Nat, a < BUFFER_SIZE
      PROVE  a % BUFFER_SIZE = a
  BY <1>1, <1>2, Z3
<1>3. ASSUME NEW a \in Nat, BUFFER_SIZE <= a, a < 2 * BUFFER_SIZE
      PROVE  a % BUFFER_SIZE = a - BUFFER_SIZE
  BY <1>1, <1>3, Z3
<1>4. CASE i + k < BUFFER_SIZE
  BY <1>1, <1>2, <1>4 DEF next_index, Index
<1>5. CASE i + k >= BUFFER_SIZE
  BY <1>1, <1>3, <1>5 DEF next_index, Index
<1>6. QED
  BY <1>1, <1>4, <1>5

\* Going on from where k elements lead is going k elements further.
LEMMA NextIndexAdds ==
  ASSUME NEW i \in Index, NEW k \in Nat, NEW m \in Nat, k + m <= BUFFER_SIZE
  PROVE  next_index(next_index(i, k), m) = next_index(i, k + m)
<1>1. BUFFER_SIZE \in Nat /\ i \in Nat /\ i < BUFFER_SIZE
  BY KeyBufferAssumption DEF Index
<1>2. k \in 0 .. BUFFER_SIZE /\ m \in 0 .. BUFFER_SIZE
      /\ k + m \in 0 .. BUFFER_SIZE
  BY <1>1
<1>3. /\ next_index(i, k) \in Index
      /\ next_index(i, k) = IF i + k < BUFFER_SIZE THEN i + k
                                                   ELSE i + k - BUFFER_SIZE
      /\ next_index(i, k + m) = IF i + (k + m) < BUFFER_SIZE THEN i + (k + m)
                                  ELSE i + (k + m) - BUFFER_SIZE
  BY <1>2, NextIndex
<1>4. next_index(next_index(i, k), m) =
        IF next_index(i, k) + m < BUFFER_SIZE THEN next_index(i, k) + m
        ELSE next_index(i, k) + m - BUFFER_SIZE
  BY <1>2, <1>3, NextIndex
<1>5. QED
  BY <1>1, <1>2, <1>3, <1>4

\* Less than a turn away from an index there are no two equal ones.
LEMMA NextIndexInjective ==
  ASSUME NEW i \in Index, NEW k \in Index, NEW m \in Index,
         next_index(i, k) = next_index(i, m)
  PROVE  k = m
<1>1. /\ BUFFER_SIZE \in Nat /\ i \in Nat /\ i < BUFFER_SIZE
      /\ k \in Nat /\ k < BUFFER_SIZE /\ m \in Nat /\ m < BUFFER_SIZE
      /\ k \in 0 .. BUFFER_SIZE /\ m \in 0 .. BUFFER_SIZE
  BY KeyBufferAssumption DEF Index
<1>2. /\ next_index(i, k) = IF i + k < BUFFER_SIZE THEN i + k
                                                   ELSE i + k - BUFFER_SIZE
      /\ next_index(i, m) = IF i + m < BUFFER_SIZE THEN i + m
                                                   ELSE i + m - BUFFER_SIZE
  BY <1>1, NextIndex
<1>3. (IF i + k < BUFFER_SIZE THEN i + k ELSE i + k - BUFFER_SIZE) =
        (IF i + m < BUFFER_SIZE THEN i + m ELSE i + m - BUFFER_SIZE)
  BY <1>2
<1>4. QED
  BY <1>1, <1>3
-----------------------------------------------------------------------------
(* The keyboard's buffer: the invariant.                                   *)

\* TypeOK with the indices in step, and nothing stored before isDefined is set:
\* the first interrupt resets what is zero already.
KInv ==
  /\ TypeOK
  /\ IndicesAgree
  /\ isDefined = 0 => read_index = 0 /\ write_index = 0 /\ count = 0

\* Zero and the capacity are numbers of elements, and zero is an index.
LEMMA SizeFacts ==
  /\ BUFFER_SIZE \in Nat /\ BUFFER_SIZE > 0
  /\ 0 \in Index
  /\ next_index(0, 0) = 0
<1>1. BUFFER_SIZE \in Nat /\ BUFFER_SIZE > 0 /\ 0 \in Index
      /\ 0 \in 0 .. BUFFER_SIZE
  BY KeyBufferAssumption DEF Index
<1>2. next_index(0, 0) = IF 0 + 0 < BUFFER_SIZE THEN 0 + 0
                                               ELSE 0 + 0 - BUFFER_SIZE
  BY <1>1, NextIndex
<1>3. QED
  BY <1>1, <1>2

\* The boot has the invariant.
LEMMA InitKeeps == Init => KInv
<1>1. SUFFICES ASSUME Init PROVE KInv
  OBVIOUS
<1>2. buffer \in [Index -> Char]
  BY <1>1, KeyBufferAssumption DEF Init
<1>3. received \in Seq(Char)
  BY <1>1 DEF Init
<1>4. QED
  BY <1>1, <1>2, <1>3, SizeFacts DEF Init, KInv, TypeOK, IndicesAgree

\* What the interrupt does under the invariant: its reset changes nothing.
LEMMA KeyboardStep ==
  ASSUME KInv, NEW released \in BOOLEAN, NEW c \in Char,
         keyboard_routine(released, c)
  PROVE  /\ isDefined' = 1 /\ read_index' = read_index
         /\ received' = received /\ interrupts' = 1 - interrupts
         /\ \/ /\ released /\ count < BUFFER_SIZE
               /\ buffer' = [buffer EXCEPT ![write_index] = c]
               /\ write_index' = next_index(write_index, 1)
               /\ count' = count + 1
            \/ /\ ~released \/ count = BUFFER_SIZE
               /\ UNCHANGED <<buffer, write_index, count>>
<1> DEFINE reset(v) == IF isDefined = 0 THEN 0 ELSE v
<1>1. /\ reset(read_index) = read_index
      /\ reset(write_index) = write_index
      /\ reset(count) = count
  BY DEF KInv
<1>2. /\ isDefined' = 1 /\ read_index' = reset(read_index)
      /\ received' = received /\ interrupts' = 1 - interrupts
      /\ IF released
         THEN enqueue(reset(write_index), reset(count), c)
         ELSE /\ UNCHANGED buffer
              /\ write_index' = reset(write_index)
              /\ count' = reset(count)
  BY DEF keyboard_routine
<1>3. count \in Nat /\ count <= BUFFER_SIZE /\ BUFFER_SIZE \in Nat
  BY SizeFacts DEF KInv, TypeOK
<1> HIDE DEF reset
<1>4. CASE released
  <2>1. enqueue(write_index, count, c)
    BY <1>1, <1>2, <1>4
  <2>2. QED
    BY <1>1, <1>2, <1>3, <1>4, <2>1 DEF enqueue
<1>5. CASE ~released
  BY <1>1, <1>2, <1>5
<1>6. QED
  BY <1>4, <1>5

\* The interrupt preserves the invariant.
LEMMA KeyboardKeeps ==
  ASSUME KInv, NEW released \in BOOLEAN, NEW c \in Char,
         keyboard_routine(released, c)
  PROVE  KInv'
<1>1. /\ isDefined' = 1 /\ read_index' = read_index /\ received' = received
      /\ interrupts' \in {0, 1}
  BY KeyboardStep DEF KInv, TypeOK
<1>2. /\ buffer \in [Index -> Char] /\ read_index \in Index
      /\ write_index \in Index /\ count \in 0 .. BUFFER_SIZE
      /\ received \in Seq(Char)
      /\ write_index = next_index(read_index, count)
  BY DEF KInv, TypeOK, IndicesAgree
<1>3. CASE /\ count < BUFFER_SIZE
           /\ buffer' = [buffer EXCEPT ![write_index] = c]
           /\ write_index' = next_index(write_index, 1)
           /\ count' = count + 1
  <2>1. count \in Nat /\ count + 1 <= BUFFER_SIZE /\ 1 \in 0 .. BUFFER_SIZE
        /\ count + 1 \in 0 .. BUFFER_SIZE
    BY <1>2, <1>3, SizeFacts
  <2>2. write_index' = next_index(read_index, count + 1)
    BY <1>2, <1>3, <2>1, NextIndexAdds
  <2>3. write_index' \in Index
    BY <1>2, <1>3, <2>1, NextIndex
  <2>4. buffer' \in [Index -> Char]
    BY <1>2, <1>3
  <2>5. QED
    BY <1>1, <1>2, <1>3, <2>1, <2>2, <2>3, <2>4
       DEF KInv, TypeOK, IndicesAgree, next_index
<1>4. CASE UNCHANGED <<buffer, write_index, count>>
  BY <1>1, <1>2, <1>4 DEF KInv, TypeOK, IndicesAgree, next_index
<1>5. QED
  BY <1>3, <1>4, KeyboardStep
-----------------------------------------------------------------------------
(* The keyboard's buffer: its elements from an index on.                   *)

\* The n elements of b from index r on, oldest first.
Window(b, r, n) == [i \in 1 .. n |-> b[next_index(r, i - 1)]]

\* A window is a sequence of its length.
LEMMA WindowIsSeq ==
  ASSUME NEW b \in [Index -> Char], NEW r \in Index, NEW n \in 0 .. BUFFER_SIZE
  PROVE  /\ Window(b, r, n) \in Seq(Char)
         /\ Len(Window(b, r, n)) = n
         /\ \A i \in 1 .. n : Window(b, r, n)[i] = b[next_index(r, i - 1)]
<1>1. n \in Nat /\ n <= BUFFER_SIZE /\ BUFFER_SIZE \in Nat
  BY SizeFacts
<1>2. ASSUME NEW i \in 1 .. n PROVE b[next_index(r, i - 1)] \in Char
  <2>1. i - 1 \in 0 .. BUFFER_SIZE
    BY <1>1
  <2>2. QED
    BY <2>1, NextIndex
<1>3. Window(b, r, n) \in [1 .. n -> Char]
  BY <1>2 DEF Window
<1>4. Window(b, r, n) \in Seq(Char)
  BY <1>1, <1>3, SeqDef
<1>5. DOMAIN Window(b, r, n) = 1 .. n
  BY DEF Window
<1>6. Len(Window(b, r, n)) = n
  <2>1. /\ Len(Window(b, r, n)) \in Nat
        /\ DOMAIN Window(b, r, n) = 1 .. Len(Window(b, r, n))
    BY <1>4, LenProperties
  <2>2. QED
    BY <1>1, <1>5, <2>1
<1>7. QED
  BY <1>4, <1>6 DEF Window

\* A read preserves the invariant and hands over a sequence of characters.
LEMMA ReadKeeps ==
  ASSUME KInv, NEW maxchars \in 0 .. MaxRead, sys_read(maxchars)
  PROVE  KInv'
<1> DEFINE k == IF maxchars > count THEN count ELSE maxchars
<1>1. /\ buffer \in [Index -> Char] /\ read_index \in Index
      /\ write_index \in Index /\ count \in 0 .. BUFFER_SIZE
      /\ isDefined \in {0, 1} /\ interrupts \in {0, 1}
      /\ write_index = next_index(read_index, count)
  BY DEF KInv, TypeOK, IndicesAgree
<1>2. /\ received' = Window(buffer, read_index, k)
      /\ read_index' = next_index(read_index, k)
      /\ count' = count - k
      /\ UNCHANGED <<buffer, write_index, isDefined, interrupts>>
  BY DEF sys_read, dequeue, Window
<1>3. /\ k \in Nat /\ count \in Nat /\ k <= count /\ k \in 0 .. BUFFER_SIZE
      /\ count - k \in 0 .. BUFFER_SIZE /\ count - k \in Nat
      /\ k + (count - k) = count /\ count <= BUFFER_SIZE
  BY <1>1, SizeFacts, KeyBufferAssumption
<1>4. count = 0 => k = 0
  BY <1>3
<1> HIDE DEF k
<1>5. received' \in Seq(Char)
  BY <1>1, <1>2, <1>3, WindowIsSeq
<1>6. read_index' \in Index
  BY <1>1, <1>2, <1>3, NextIndex
<1>7. write_index' = next_index(read_index', count')
  BY <1>1, <1>2, <1>3, NextIndexAdds
<1>8. isDefined = 0 => read_index' = 0 /\ write_index' = 0 /\ count' = 0
  <2>1. SUFFICES ASSUME isDefined = 0
                 PROVE  read_index' = 0 /\ write_index' = 0 /\ count' = 0
    OBVIOUS
  <2>2. read_index = 0 /\ write_index = 0 /\ count = 0
    BY <2>1 DEF KInv
  <2>3. QED
    BY <1>2, <1>4, <2>2, SizeFacts
<1>9. QED
  BY <1>1, <1>2, <1>3, <1>5, <1>6, <1>7, <1>8
     DEF KInv, TypeOK, IndicesAgree, next_index

\* Every step preserves the invariant.
LEMMA NextKeeps == KInv /\ [Next]_vars => KInv'
<1>1. SUFFICES ASSUME KInv, [Next]_vars PROVE KInv'
  OBVIOUS
<1>2. CASE Next
  BY <1>1, <1>2, KeyboardKeeps, ReadKeeps DEF Next
<1>3. CASE UNCHANGED vars
  BY <1>1, <1>3 DEF vars, KInv, TypeOK, IndicesAgree, next_index
<1>4. QED
  BY <1>1, <1>2, <1>3
-----------------------------------------------------------------------------
(* Theorems about the keyboard's buffer.                                   *)

\* No index ever leaves the buffer, for any capacity.
THEOREM KeyBufferTypeCorrect == Spec => []TypeOK
<1>1. KInv => TypeOK
  BY DEF KInv
<1>2. QED
  BY <1>1, InitKeeps, NextKeeps, PTL DEF Spec

\* The indices and the count never disagree, however often they went round.
THEOREM IndicesAlwaysAgree == Spec => []IndicesAgree
<1>1. KInv => IndicesAgree
  BY DEF KInv
<1>2. QED
  BY <1>1, InitKeeps, NextKeeps, PTL DEF Spec

\* The waiting keys are the window of count elements from the read index on.
LEMMA KeysAre ==
  ASSUME KInv
  PROVE  /\ keys = Window(buffer, read_index, count)
         /\ keys \in Seq(Char)
         /\ Len(keys) = count
         /\ \A i \in 1 .. count : keys[i] = buffer[next_index(read_index, i - 1)]
<1>1. /\ buffer \in [Index -> Char] /\ read_index \in Index
      /\ count \in 0 .. BUFFER_SIZE
  BY DEF KInv, TypeOK
<1>2. keys = Window(buffer, read_index, count)
  BY DEF keys, Window
<1>3. QED
  BY <1>1, <1>2, WindowIsSeq

\* Writing behind a window that is not full makes it one element longer.
LEMMA WindowGrows ==
  ASSUME NEW b \in [Index -> Char], NEW r \in Index, NEW n \in Nat,
         n < BUFFER_SIZE, NEW c \in Char
  PROVE  Window([b EXCEPT ![next_index(r, n)] = c], r, n + 1)
           = Append(Window(b, r, n), c)
<1> DEFINE w == next_index(r, n)
           new == [b EXCEPT ![w] = c]
           old == Window(b, r, n)
           long == Window(new, r, n + 1)
<1>1. /\ n \in Nat /\ n < BUFFER_SIZE /\ BUFFER_SIZE \in Nat
      /\ n \in Index /\ n \in 0 .. BUFFER_SIZE /\ n + 1 \in 0 .. BUFFER_SIZE
  BY SizeFacts DEF Index
<1>2. w \in Index
  BY <1>1, NextIndex
<1>3. new \in [Index -> Char]
  BY <1>2
<1>4. /\ old \in Seq(Char) /\ Len(old) = n
      /\ \A i \in 1 .. n : old[i] = b[next_index(r, i - 1)]
  BY <1>1, WindowIsSeq
<1>5. /\ long \in Seq(Char) /\ Len(long) = n + 1
      /\ \A i \in 1 .. n + 1 : long[i] = new[next_index(r, i - 1)]
  <2> HIDE DEF new
  <2>1. QED
    BY <1>1, <1>3, WindowIsSeq
<1>6. /\ Append(old, c) \in Seq(Char) /\ Len(Append(old, c)) = n + 1
      /\ \A i \in 1 .. n : Append(old, c)[i] = old[i]
      /\ Append(old, c)[n + 1] = c
  <2> HIDE DEF old
  <2>1. QED
    BY <1>4, AppendProperties
<1>7. ASSUME NEW i \in 1 .. n + 1 PROVE long[i] = Append(old, c)[i]
  <2>1. CASE i = n + 1
    <3>1. i - 1 = n
      BY <1>1, <2>1
    <3>2. new[next_index(r, n)] = c
      BY <1>2
    <3>3. QED
      BY <1>5, <1>6, <2>1, <3>1, <3>2
  <2>2. CASE i \in 1 .. n
    <3>1. i - 1 \in Index /\ i - 1 # n /\ i - 1 \in 0 .. BUFFER_SIZE
      BY <1>1, <2>2 DEF Index
    <3>2. next_index(r, i - 1) # w /\ next_index(r, i - 1) \in Index
      BY <1>1, <3>1, NextIndex, NextIndexInjective
    <3>3. new[next_index(r, i - 1)] = b[next_index(r, i - 1)]
      BY <3>2
    <3>4. QED
      BY <1>4, <1>5, <1>6, <2>2, <3>3
  <2>3. i = n + 1 \/ i \in 1 .. n
    BY <1>1
  <2>4. QED
    BY <2>1, <2>2, <2>3
<1>8. QED
  <2> HIDE DEF old, long
  <2>1. long = Append(old, c)
    BY <1>5, <1>6, <1>7, SeqEqual
  <2>2. QED
    BY <2>1 DEF long, old

\* A part of a window is a window.
LEMMA WindowPart ==
  ASSUME NEW b \in [Index -> Char], NEW r \in Index, NEW n \in 0 .. BUFFER_SIZE,
         NEW k \in 0 .. n
  PROVE  /\ Window(b, r, k) = SubSeq(Window(b, r, n), 1, k)
         /\ Window(b, next_index(r, k), n - k) = SubSeq(Window(b, r, n), k + 1, n)
<1> DEFINE whole == Window(b, r, n)
           first == Window(b, r, k)
           rest == Window(b, next_index(r, k), n - k)
<1>1. /\ n \in Nat /\ k \in Nat /\ k <= n /\ n <= BUFFER_SIZE
      /\ BUFFER_SIZE \in Nat /\ k \in 0 .. BUFFER_SIZE
      /\ n - k \in 0 .. BUFFER_SIZE /\ n - k \in Nat
  BY SizeFacts
<1>2. /\ whole \in Seq(Char) /\ Len(whole) = n
      /\ \A i \in 1 .. n : whole[i] = b[next_index(r, i - 1)]
  BY WindowIsSeq
<1>3. /\ first \in Seq(Char) /\ Len(first) = k
      /\ \A i \in 1 .. k : first[i] = b[next_index(r, i - 1)]
  BY <1>1, WindowIsSeq
<1>4. next_index(r, k) \in Index
  BY <1>1, NextIndex
<1>5. /\ rest \in Seq(Char) /\ Len(rest) = n - k
      /\ \A i \in 1 .. n - k :
            rest[i] = b[next_index(next_index(r, k), i - 1)]
  BY <1>1, <1>4, WindowIsSeq
<1> HIDE DEF whole, first, rest
<1>6. first = SubSeq(whole, 1, k)
  <2>1. \A i \in 1 .. k : whole[i] \in Char
    BY <1>1, <1>2, ElementOfSeq
  <2>2. /\ SubSeq(whole, 1, k) \in Seq(Char)
        /\ Len(SubSeq(whole, 1, k)) = IF 1 <= k THEN k - 1 + 1 ELSE 0
        /\ \A i \in 1 .. k - 1 + 1 : SubSeq(whole, 1, k)[i] = whole[1 + i - 1]
    BY <1>1, <2>1, SubSeqProperties
  <2>3. Len(SubSeq(whole, 1, k)) = k
    BY <1>1, <2>2
  <2>4. ASSUME NEW i \in 1 .. k PROVE first[i] = SubSeq(whole, 1, k)[i]
    <3>1. i \in 1 .. n /\ i \in 1 .. k - 1 + 1 /\ 1 + i - 1 = i
      BY <1>1
    <3>2. QED
      BY <1>2, <1>3, <2>2, <3>1
  <2>5. QED
    BY <1>3, <2>2, <2>3, <2>4, SeqEqual
<1>7. rest = SubSeq(whole, k + 1, n)
  <2>1. \A i \in k + 1 .. n : whole[i] \in Char
    BY <1>1, <1>2, ElementOfSeq
  <2>2. /\ SubSeq(whole, k + 1, n) \in Seq(Char)
        /\ Len(SubSeq(whole, k + 1, n)) =
             IF k + 1 <= n THEN n - (k + 1) + 1 ELSE 0
        /\ \A i \in 1 .. n - (k + 1) + 1 :
              SubSeq(whole, k + 1, n)[i] = whole[k + 1 + i - 1]
    BY <1>1, <2>1, SubSeqProperties
  <2>3. Len(SubSeq(whole, k + 1, n)) = n - k
    BY <1>1, <2>2
  <2>4. ASSUME NEW i \in 1 .. n - k
        PROVE  rest[i] = SubSeq(whole, k + 1, n)[i]
    <3>1. /\ k + i \in 1 .. n /\ i \in 1 .. n - (k + 1) + 1
          /\ k + 1 + i - 1 = k + i /\ i - 1 \in Nat
          /\ k + (i - 1) <= BUFFER_SIZE /\ k + (i - 1) = k + i - 1
      BY <1>1
    <3>2. next_index(next_index(r, k), i - 1) = next_index(r, k + i - 1)
      BY <1>1, <3>1, NextIndexAdds
    <3>3. whole[k + i] = b[next_index(r, k + i - 1)]
      BY <1>2, <3>1
    <3>4. rest[i] = b[next_index(next_index(r, k), i - 1)]
      BY <1>5
    <3>5. SubSeq(whole, k + 1, n)[i] = whole[k + i]
      BY <2>2, <3>1
    <3>6. QED
      BY <3>2, <3>3, <3>4, <3>5
  <2>5. QED
    BY <1>5, <2>2, <2>3, <2>4, SeqEqual
<1>8. QED
  BY <1>6, <1>7 DEF whole, first, rest

\* An interrupt is a key of the queue, or nothing when the code is not a
\* release or the buffer is full.
LEMMA KeyboardRefines ==
  ASSUME KInv, NEW released \in BOOLEAN, NEW c \in Char,
         keyboard_routine(released, c)
  PROVE  /\ Queue!Key(c) \/ UNCHANGED <<keys, received>>
         /\ released => keys' = IF Len(keys) < BUFFER_SIZE
                                THEN Append(keys, c) ELSE keys
<1>1. /\ keys = Window(buffer, read_index, count) /\ Len(keys) = count
      /\ keys' = Window(buffer', read_index', count')
  BY KeysAre DEF keys, Window, next_index
<1>2. /\ buffer \in [Index -> Char] /\ read_index \in Index /\ count \in Nat
      /\ count <= BUFFER_SIZE /\ BUFFER_SIZE \in Nat
      /\ write_index = next_index(read_index, count)
  BY SizeFacts DEF KInv, TypeOK, IndicesAgree
<1>3. /\ read_index' = read_index /\ received' = received
      /\ \/ /\ released /\ count < BUFFER_SIZE
            /\ buffer' = [buffer EXCEPT ![write_index] = c]
            /\ write_index' = next_index(write_index, 1)
            /\ count' = count + 1
         \/ /\ ~released \/ count = BUFFER_SIZE
            /\ UNCHANGED <<buffer, write_index, count>>
  BY KeyboardStep
<1>4. CASE /\ released /\ count < BUFFER_SIZE
           /\ buffer' = [buffer EXCEPT ![write_index] = c]
           /\ count' = count + 1
  <2>1. keys' = Append(keys, c)
    BY <1>1, <1>2, <1>3, <1>4, WindowGrows
  <2>2. QED
    BY <1>1, <1>3, <1>4, <2>1 DEF Queue!Key
<1>5. CASE /\ ~released \/ count = BUFFER_SIZE
           /\ UNCHANGED <<buffer, write_index, count>>
  <2>1. keys' = keys
    BY <1>1, <1>3, <1>5
  <2>2. ~(count < BUFFER_SIZE) \/ ~released
    BY <1>2, <1>5
  <2>3. QED
    BY <1>1, <1>3, <2>1, <2>2
<1>6. QED
  BY <1>3, <1>4, <1>5

\* A read of the buffer is a read of the queue.
LEMMA ReadRefines ==
  ASSUME KInv, NEW maxchars \in 0 .. MaxRead, sys_read(maxchars)
  PROVE  Queue!Read(maxchars)
<1> DEFINE k == IF maxchars > count THEN count ELSE maxchars
<1>1. /\ keys = Window(buffer, read_index, count) /\ Len(keys) = count
      /\ keys' = Window(buffer', read_index', count')
  BY KeysAre DEF keys, Window, next_index
<1>2. /\ buffer \in [Index -> Char] /\ read_index \in Index
      /\ count \in 0 .. BUFFER_SIZE
  BY DEF KInv, TypeOK
<1>3. /\ received' = Window(buffer, read_index, k)
      /\ read_index' = next_index(read_index, k)
      /\ count' = count - k /\ buffer' = buffer
  BY DEF sys_read, dequeue, Window
<1>4. k \in 0 .. count
  BY <1>2, SizeFacts, KeyBufferAssumption
<1>5. k = IF maxchars > Len(keys) THEN Len(keys) ELSE maxchars
  BY <1>1
<1> HIDE DEF k
<1>6. /\ received' = SubSeq(keys, 1, k)
      /\ keys' = SubSeq(keys, k + 1, count)
  BY <1>1, <1>2, <1>3, <1>4, WindowPart
<1>7. QED
  BY <1>1, <1>5, <1>6 DEF Queue!Read

\* The circular buffer implements the queue: keys are read in order, each once,
\* for any capacity and any order of interrupts and reads.
THEOREM BufferIsQueue == Spec => KeyQueueSpec
<1>1. Init => Queue!Init
  <2>1. SUFFICES ASSUME Init PROVE Queue!Init
    OBVIOUS
  <2>2. KInv /\ count = 0 /\ received = <<>>
    BY <2>1, InitKeeps DEF Init
  <2>3. keys \in Seq(Char) /\ Len(keys) = 0
    BY <2>2, KeysAre
  <2>4. keys = <<>>
    BY <2>3, EmptySeq
  <2>5. QED
    BY <2>2, <2>4 DEF Queue!Init
<1>2. KInv /\ [Next]_vars => [Queue!Next]_<<keys, received>>
  <2>1. SUFFICES ASSUME KInv, [Next]_vars
                 PROVE  Queue!Next \/ UNCHANGED <<keys, received>>
    OBVIOUS
  <2>2. CASE Next
    <3>1. ASSUME NEW released \in BOOLEAN, NEW c \in Char,
                 keyboard_routine(released, c)
          PROVE  Queue!Next \/ UNCHANGED <<keys, received>>
      BY <2>1, <3>1, KeyboardRefines DEF Queue!Next
    <3>2. ASSUME NEW maxchars \in 0 .. MaxRead, sys_read(maxchars)
          PROVE  Queue!Next
      BY <2>1, <3>2, ReadRefines DEF Queue!Next
    <3>3. QED
      BY <2>2, <3>1, <3>2 DEF Next
  <2>3. CASE UNCHANGED vars
    BY <2>3 DEF vars, keys, next_index
  <2>4. QED
    BY <2>1, <2>2, <2>3
<1>3. KInv /\ [Next]_vars => KInv'
  BY NextKeeps
<1>4. QED
  BY <1>1, <1>2, <1>3, InitKeeps, PTL
     DEF Spec, KeyQueueSpec, Queue!Spec, Queue!vars

\* A key is dropped only when the buffer is full.
THEOREM NoKeyDroppedEarly == Spec => KeyDroppedOnlyWhenFull
<1>1. ASSUME KInv, [Next]_vars
      PROVE  [\A c \in Char : keyboard_routine(TRUE, c) =>
                keys' = IF Len(keys) < BUFFER_SIZE THEN Append(keys, c)
                                                   ELSE keys]_vars
  BY <1>1, KeyboardRefines
<1>2. KInv /\ [Next]_vars => KInv'
  BY NextKeeps
<1>3. QED
  BY <1>1, <1>2, InitKeeps, PTL DEF Spec, KeyDroppedOnlyWhenFull

-----------------------------------------------------------------------------
(* The screen: places.                                                     *)

Size == NUM_ROWS * NUM_COLUMNS
Place == 0 .. Size - 1

\* What lies less than one turn ahead, without division.
LEMMA OnceRound ==
  ASSUME NEW m \in Nat, m > 0, NEW a \in Nat, a < 2 * m
  PROVE  a % m = IF a < m THEN a ELSE a - m
<1>1. CASE a < m
  BY <1>1, Z3
<1>2. CASE a >= m
  BY <1>2, Z3
<1>3. QED
  BY <1>1, <1>2

\* The screen is not empty.
LEMMA ScreenSize ==
  /\ NUM_COLUMNS \in Nat /\ NUM_COLUMNS > 0 /\ NUM_ROWS \in Nat /\ NUM_ROWS > 0
  /\ Size \in Nat /\ Size > 0
<1>1. /\ NUM_COLUMNS \in Nat /\ NUM_COLUMNS > 0
      /\ NUM_ROWS \in Nat /\ NUM_ROWS > 0
  BY ConsoleAssumption
<1>2. QED
  BY <1>1, Z3 DEF Size

\* A row starts where the one above ends; the last ends with the screen.
LEMMA RowStarts ==
  ASSUME NEW r \in Nat
  PROVE  /\ r * NUM_COLUMNS \in Nat
         /\ (r + 1) * NUM_COLUMNS = r * NUM_COLUMNS + NUM_COLUMNS
         /\ r + 1 < NUM_ROWS => (r + 1) * NUM_COLUMNS < Size
         /\ r + 1 = NUM_ROWS => (r + 1) * NUM_COLUMNS = Size
         /\ 0 * NUM_COLUMNS = 0
<1>1. /\ NUM_COLUMNS \in Nat /\ NUM_COLUMNS > 0 /\ NUM_ROWS \in Nat
      /\ Size = NUM_ROWS * NUM_COLUMNS
  BY ScreenSize DEF Size
<1>2. /\ r * NUM_COLUMNS \in Nat /\ 0 * NUM_COLUMNS = 0
      /\ (r + 1) * NUM_COLUMNS = r * NUM_COLUMNS + NUM_COLUMNS
  BY <1>1, Z3
<1>3. r + 1 = NUM_ROWS => (r + 1) * NUM_COLUMNS = Size
  BY <1>1
<1>4. ASSUME r + 1 < NUM_ROWS
      PROVE  (r + 1) * NUM_COLUMNS < Size
  <2>1. r + 1 \in Nat
    OBVIOUS
  <2>2. ASSUME NEW a \in Nat, NEW b \in Nat, a < b
        PROVE  a * NUM_COLUMNS < b * NUM_COLUMNS
    BY <1>1, <2>2, Z3
  <2>3. QED
    BY <1>1, <1>4, <2>1, <2>2
<1>5. QED
  BY <1>2, <1>3, <1>4

\* A cell of the screen has a place, and only one cell has it.
LEMMA PlaceFacts ==
  ASSUME NEW i \in Column, NEW r \in Row
  PROVE  /\ at(i, r) \in Place
         /\ \A j \in Column, s \in Row : at(i, r) = at(j, s) => i = j /\ r = s
<1>1. /\ NUM_COLUMNS \in Nat /\ NUM_COLUMNS > 0 /\ NUM_ROWS \in Nat
      /\ i \in Nat /\ i < NUM_COLUMNS /\ r \in Nat /\ r + 1 <= NUM_ROWS
  BY ScreenSize DEF Column, Row
<1>2. /\ r * NUM_COLUMNS \in Nat /\ (r + 1) * NUM_COLUMNS = r * NUM_COLUMNS + NUM_COLUMNS
      /\ (r + 1) * NUM_COLUMNS <= Size /\ Size \in Nat
  BY <1>1, Z3 DEF Size
<1>3. at(i, r) \in Place
  BY <1>1, <1>2 DEF at, Place
<1>4. ASSUME NEW j \in Column, NEW s \in Row, at(i, r) = at(j, s)
      PROVE  i = j /\ r = s
  <2>1. j \in Nat /\ j < NUM_COLUMNS /\ s \in Nat
    BY <1>1 DEF Column, Row
  <2>2. r * NUM_COLUMNS + i = s * NUM_COLUMNS + j
    BY <1>4 DEF at
  <2>3. r = s
    <3>1. ASSUME NEW a \in Nat, NEW b \in Nat, a < b
          PROVE  a * NUM_COLUMNS + NUM_COLUMNS <= b * NUM_COLUMNS
      BY <1>1, <3>1, Z3
    <3>2. s * NUM_COLUMNS \in Nat
      BY <1>1, <2>1, Z3
    <3>3. ~(r < s)
      BY <1>1, <1>2, <2>1, <2>2, <3>1, <3>2
    <3>4. ~(s < r)
      BY <1>1, <1>2, <2>1, <2>2, <3>1, <3>2
    <3>5. QED
      BY <1>1, <2>1, <3>3, <3>4
  <2>4. QED
    BY <1>1, <1>2, <2>1, <2>2, <2>3
<1>5. QED
  BY <1>3, <1>4

-----------------------------------------------------------------------------
(* The screen: writing.                                                    *)

\* What printc is given and gives.
Cursor == [x : Column, y : Row,
           screen : [Place -> {blank} \cup [char : Glyph, color : Color]]]

\* The text is on the screen up to its n-th character, from place start on, and
\* the rest is as in old.
Upto(start, old, text, n) ==
  {S \in Cursor :
     /\ at(S.x, S.y) = (start + n) % Size
     /\ \A k \in 1 .. n :
          S.screen[(start + k - 1) % Size] = [char |-> text[k], color |-> color]
     /\ \A m \in Place : (\A k \in 1 .. n : m # (start + k - 1) % Size)
                          => S.screen[m] = old[m]}

\* A character goes where the cursor is, which goes on to the next place, from the
\* last one of the screen to the first.
LEMMA PutOne ==
  ASSUME color \in Color, NEW S \in Cursor, NEW c \in Glyph
  PROVE  /\ printc(S, c) \in Cursor
         /\ at(printc(S, c).x, printc(S, c).y) = (at(S.x, S.y) + 1) % Size
         /\ printc(S, c).screen =
              [S.screen EXCEPT ![at(S.x, S.y)] = [char |-> c, color |-> color]]
<1>1. /\ S.x \in Nat /\ S.x < NUM_COLUMNS /\ S.y \in Nat /\ S.y < NUM_ROWS
      /\ NUM_COLUMNS \in Nat /\ NUM_COLUMNS > 0 /\ NUM_ROWS \in Nat /\ NUM_ROWS > 0
      /\ Size \in Nat /\ Size > 0
      /\ S.x \in Column /\ S.y \in Row
      /\ S.screen \in [Place -> {blank} \cup [char : Glyph, color : Color]]
  BY ScreenSize DEF Cursor, Column, Row
<1>2. c # Newline
  BY ConsoleAssumption
<1> DEFINE last == S.x + 1 >= NUM_COLUMNS
           T == printc(S, c)
<1>3. /\ T = [x |-> IF last THEN 0 ELSE S.x + 1,
              y |-> IF last THEN (S.y + 1) % NUM_ROWS ELSE S.y,
              screen |-> [S.screen EXCEPT ![at(S.x, S.y)] =
                            [char |-> c, color |-> color]]]
  BY <1>2 DEF printc
<1>4. (S.y + 1) % NUM_ROWS = IF S.y + 1 < NUM_ROWS THEN S.y + 1 ELSE 0
  BY <1>1, OnceRound
<1>5. T.x \in Column /\ T.y \in Row
  BY <1>1, <1>3, <1>4 DEF Column, Row
<1>6. T.screen \in [Place -> {blank} \cup [char : Glyph, color : Color]]
  <2> DEFINE V == {blank} \cup [char : Glyph, color : Color]
             new == [char |-> c, color |-> color]
  <2>1. new \in V /\ S.screen \in [Place -> V]
    BY <1>1
  <2>2. T.screen = [S.screen EXCEPT ![at(S.x, S.y)] = new]
    BY <1>3
  <2> HIDE DEF V, new, T
  <2>3. T.screen \in [Place -> V]
    BY <2>1, <2>2
  <2>4. QED
    BY <2>3 DEF V
<1>7. T \in Cursor
  BY <1>3, <1>5, <1>6 DEF Cursor
<1>8. at(T.x, T.y) = (at(S.x, S.y) + 1) % Size
  <2>1. at(S.x, S.y) \in Nat /\ at(S.x, S.y) < Size
    BY <1>1, PlaceFacts DEF Place
  <2>2. (at(S.x, S.y) + 1) % Size =
          IF at(S.x, S.y) + 1 < Size THEN at(S.x, S.y) + 1 ELSE 0
    BY <1>1, <2>1, OnceRound
  <2>3. CASE ~last
    <3>1. T.x = S.x + 1 /\ T.y = S.y
      BY <1>3, <2>3
    <3>2. at(T.x, T.y) = at(S.x, S.y) + 1
      <4>1. S.y * NUM_COLUMNS \in Nat
        BY <1>1, Z3
      <4>2. QED
        BY <1>1, <3>1, <4>1 DEF at
    <3>3. at(T.x, T.y) < Size
      BY <1>1, <1>5, PlaceFacts DEF Place
    <3>4. QED
      BY <2>2, <3>2, <3>3
  <2>4. CASE last
    <3>1. S.x = NUM_COLUMNS - 1 /\ T.x = 0
      BY <1>1, <1>3, <2>4
    <3>2. /\ S.y * NUM_COLUMNS \in Nat
          /\ (S.y + 1) * NUM_COLUMNS = S.y * NUM_COLUMNS + NUM_COLUMNS
          /\ S.y + 1 < NUM_ROWS => (S.y + 1) * NUM_COLUMNS < Size
          /\ S.y + 1 = NUM_ROWS => (S.y + 1) * NUM_COLUMNS = Size
          /\ 0 * NUM_COLUMNS = 0
      <4>1. /\ NUM_COLUMNS \in Nat /\ NUM_COLUMNS > 0 /\ NUM_ROWS \in Nat /\ S.y \in Nat
        BY <1>1, ScreenSize DEF Row
      <4>2. QED
        BY <4>1, RowStarts
    <3>3. at(S.x, S.y) + 1 = (S.y + 1) * NUM_COLUMNS
      BY <1>1, <3>1, <3>2 DEF at
    <3>4. at(T.x, T.y) = T.y * NUM_COLUMNS
      <4>1. T.y * NUM_COLUMNS \in Nat
        BY <1>1, <1>5, Z3 DEF Row
      <4>2. QED
        BY <3>1, <4>1 DEF at
    <3>5. CASE S.y + 1 < NUM_ROWS
      BY <1>3, <1>4, <2>2, <2>4, <3>2, <3>3, <3>4, <3>5
    <3>6. CASE S.y + 1 = NUM_ROWS
      BY <1>1, <1>3, <1>4, <2>2, <2>4, <3>2, <3>3, <3>4, <3>6
    <3>7. QED
      BY <1>1, <3>5, <3>6
  <2>5. QED
    BY <2>3, <2>4
<1>9. QED
  BY <1>3, <1>7, <1>8

\* One character more: it goes to the next place, where none of the others is.
LEMMA UptoNext ==
  ASSUME color \in Color, NEW start \in Place, NEW old,
         NEW text \in Seq(Glyph), Len(text) <= Size,
         NEW n \in Nat, n < Len(text), NEW S \in Upto(start, old, text, n)
  PROVE  printc(S, text[n + 1]) \in Upto(start, old, text, n + 1)
<1> DEFINE c == text[n + 1]
           T == printc(S, c)
           next == (start + n) % Size
           new == [char |-> c, color |-> color]
<1>1. /\ Size \in Nat /\ Size > 0 /\ start \in Nat /\ start < Size /\ n < Size
  BY ScreenSize, LenProperties DEF Place
<1>2. /\ S \in Cursor /\ at(S.x, S.y) = next
      /\ \A k \in 1 .. n : S.screen[(start + k - 1) % Size]
                             = [char |-> text[k], color |-> color]
      /\ \A m \in Place : (\A k \in 1 .. n : m # (start + k - 1) % Size)
                            => S.screen[m] = old[m]
  BY DEF Upto
<1>3. c \in Glyph
  BY LenProperties, ElementOfSeq
<1>4. /\ T \in Cursor /\ at(T.x, T.y) = (next + 1) % Size
      /\ T.screen = [S.screen EXCEPT ![next] = new]
  BY <1>2, <1>3, PutOne
<1>5. ASSUME NEW k \in 0 .. n + 1
      PROVE  (start + k) % Size = IF start + k < Size THEN start + k
                                                      ELSE start + k - Size
  <2>1. start + k \in Nat /\ start + k < 2 * Size
    BY <1>1
  <2>2. QED
    BY <1>1, <2>1, OnceRound
<1>6. next \in Place /\ (next + 1) % Size = (start + (n + 1)) % Size
  <2>1. next = IF start + n < Size THEN start + n ELSE start + n - Size
    BY <1>5
  <2>2. next \in Nat /\ next < Size
    BY <1>1, <2>1
  <2>3. (next + 1) % Size = IF next + 1 < Size THEN next + 1 ELSE next + 1 - Size
    BY <1>1, <2>2, OnceRound
  <2>4. (start + (n + 1)) % Size = IF start + (n + 1) < Size THEN start + (n + 1)
                                   ELSE start + (n + 1) - Size
    BY <1>5
  <2> HIDE DEF next
  <2>5. next \in Place
    BY <1>1, <2>2 DEF Place
  <2>6. QED
    BY <1>1, <2>1, <2>2, <2>3, <2>4, <2>5
<1>7. \A k \in 1 .. n : /\ (start + k - 1) % Size # next
                        /\ (start + k - 1) % Size \in Place
  <2> SUFFICES ASSUME NEW k \in 1 .. n
               PROVE  /\ (start + k - 1) % Size # next
                      /\ (start + k - 1) % Size \in Place
    OBVIOUS
  <2>1. start + k - 1 = start + (k - 1) /\ k - 1 \in 0 .. n + 1 /\ n \in 0 .. n + 1
    BY <1>1
  <2>2. /\ (start + (k - 1)) % Size = IF start + (k - 1) < Size THEN start + (k - 1)
                                      ELSE start + (k - 1) - Size
        /\ next = IF start + n < Size THEN start + n ELSE start + n - Size
    BY <1>5, <2>1
  <2> HIDE DEF next
  <2>3. QED
    BY <1>1, <2>1, <2>2 DEF Place
<1>8. DOMAIN S.screen = Place
  BY <1>2 DEF Cursor
<1> HIDE DEF c, T, next, new
<1>9. ASSUME NEW k \in 1 .. n + 1
      PROVE  T.screen[(start + k - 1) % Size] = [char |-> text[k], color |-> color]
  <2>1. CASE k = n + 1
    <3>1. (start + k - 1) % Size = next
      BY <1>1, <2>1 DEF next
    <3>2. T.screen[next] = new
      BY <1>4, <1>6, <1>8
    <3>3. QED
      BY <2>1, <3>1, <3>2 DEF new, c
  <2>2. CASE k # n + 1
    <3>1. k \in 1 .. n
      BY <2>2
    <3>2. QED
      BY <1>2, <1>4, <1>7, <1>8, <3>1
  <2>3. QED
    BY <2>1, <2>2
<1>10. ASSUME NEW m \in Place, \A k \in 1 .. n + 1 : m # (start + k - 1) % Size
       PROVE  T.screen[m] = old[m]
  <2>1. m # next
    <3>1. n + 1 \in 1 .. n + 1 /\ start + (n + 1) - 1 = start + n
      BY <1>1
    <3>2. QED
      BY <1>10, <3>1 DEF next
  <2>2. \A k \in 1 .. n : k \in 1 .. n + 1
    OBVIOUS
  <2>3. QED
    BY <1>2, <1>4, <1>8, <1>10, <2>1, <2>2
<1>11. T \in Upto(start, old, text, n + 1)
  BY <1>4, <1>6, <1>9, <1>10 DEF Upto
<1>12. QED
  BY <1>11 DEF T, c

-----------------------------------------------------------------------------
(* The screen: folds.                                                      *)

\* The largest of some numbers up to n.
LEMMA Largest ==
  ASSUME NEW n \in Nat, NEW s \in SUBSET (1 .. n), s # {}
  PROVE  Max(s) \in s /\ \A k \in s : k <= Max(s)
<1> DEFINE T == {n - k : k \in s}
<1>1. T \in SUBSET Nat /\ T # {}
  <2>1. \A k \in s : k \in Int /\ k <= n
    OBVIOUS
  <2>2. \A k \in s : n - k \in Nat
    BY <2>1
  <2>3. QED
    BY <2>2
<1>2. PICK d \in T : \A e \in T : d <= e
  <2> HIDE DEF T
  <2>1. QED
    BY <1>1, Least
<1>3. PICK m \in s : d = n - m
  BY <1>2
<1>4. \A k \in s : k <= m
  <2>1. \A k \in s : d <= n - k
    BY <1>2
  <2>2. QED
    BY <1>3, <2>1
<1>5. \A k \in s : m >= k
  BY <1>4
<1>6. Max(s) \in s /\ \A k \in s : Max(s) >= k
  BY <1>5 DEF Max
<1>7. QED
  BY <1>6

\* f is what folding G over q from base goes through, by the sets of elements
\* that are folded.
FoldOf(f, V, base, G, q) ==
  /\ f \in [SUBSET DOMAIN q -> V]
  /\ \A s \in SUBSET DOMAIN q :
       f[s] = IF s = {} THEN base ELSE G[<<f[s \ {Max(s)}], q[Max(s)]>>]

\* A step function can be folded over any sequence.
LEMMA FoldExists ==
  ASSUME NEW V, NEW I, NEW base \in V, NEW G \in [V \X I -> V], NEW q \in Seq(I)
  PROVE  \E f : FoldOf(f, V, base, G, q)
<1> DEFINE S == SUBSET DOMAIN q
           m == [s \in S |-> Cardinality(s)]
           body(f, s) == IF s = {} THEN base
                         ELSE G[<<f[s \ {Max(s)}], q[Max(s)]>>]
           D == [p \in S \X [S -> V] |-> body(p[2], p[1])]
<1>1. Len(q) \in Nat /\ DOMAIN q = 1 .. Len(q)
  BY LenProperties
<1>2. ASSUME NEW s \in S, s # {}
      PROVE  Max(s) \in s /\ q[Max(s)] \in I /\ s \ {Max(s)} \in S
  <2>1. Max(s) \in s
    BY <1>1, <1>2, Largest
  <2>2. Max(s) \in 1 .. Len(q)
    BY <1>1, <2>1
  <2>3. QED
    BY <2>1, <2>2, ElementOfSeq
<1>3. ASSUME NEW s \in S
      PROVE  IsFiniteSet(s) /\ Cardinality(s) \in Nat
  <2>1. IsFiniteSet(1 .. Len(q))
    BY <1>1, FS_Interval
  <2>2. IsFiniteSet(s)
    BY <1>1, <2>1, FS_Subset
  <2>3. QED
    BY <2>2, FS_CardinalityType
<1>4. m \in [S -> Nat]
  BY <1>3
<1>5. ASSUME NEW s \in S, NEW f \in [S -> V]
      PROVE  body(f, s) \in V
  BY <1>2
<1>6. D \in [S \X [S -> V] -> V] /\ \A s \in S, f \in [S -> V] : D[<<s, f>>] = body(f, s)
  BY <1>5
<1>7. ASSUME NEW s \in S, NEW f \in [S -> V], NEW g \in [S -> V],
             \A r \in S : m[r] < m[s] => f[r] = g[r]
      PROVE  body(f, s) = body(g, s)
  <2>1. CASE s = {}
    BY <2>1
  <2>2. CASE s # {}
    <3>1. Max(s) \in s /\ s \ {Max(s)} \in S
      BY <1>2, <2>2
    <3>2. Cardinality(s \ {Max(s)}) = Cardinality(s) - 1
      <4>1. IsFiniteSet(s)
        BY <1>3
      <4>2. ASSUME NEW e \in s
            PROVE  Cardinality(s \ {e}) = Cardinality(s) - 1
        <5> HIDE DEF S
        <5>1. QED
          BY <4>1, FS_RemoveElement
      <4>3. QED
        BY <3>1, <4>2
    <3>3. m[s \ {Max(s)}] < m[s]
      <4>1. Cardinality(s) - 1 < Cardinality(s)
        BY <1>3
      <4>2. m[s \ {Max(s)}] = Cardinality(s \ {Max(s)})
        BY <3>1
      <4>3. m[s] = Cardinality(s)
        OBVIOUS
      <4> HIDE DEF m, S
      <4>4. QED
        BY <3>2, <4>1, <4>2, <4>3
    <3>4. f[s \ {Max(s)}] = g[s \ {Max(s)}]
      BY <1>7, <3>1, <3>3
    <3>5. QED
      BY <2>2, <3>4
  <2>3. QED
    BY <2>1, <2>2
<1> HIDE DEF body, D, m, S
<1>8. LooksBelow(S, V, m, D)
  <2> SUFFICES ASSUME NEW s \in S, NEW f \in [S -> V], NEW g \in [S -> V],
                      \A r \in S : m[r] < m[s] => f[r] = g[r]
               PROVE  D[<<s, f>>] = D[<<s, g>>]
    BY Zenon DEF LooksBelow
  <2>1. body(f, s) = body(g, s)
    BY <1>7
  <2>2. D[<<s, f>>] = body(f, s) /\ D[<<s, g>>] = body(g, s)
    BY <1>6
  <2>3. QED
    BY <2>1, <2>2
<1>9. Solvable(S, V, D)
  <2>1. V # {} /\ D \in [S \X [S -> V] -> V]
    BY <1>6
  <2>2. QED
    BY <1>4, <1>8, <2>1, Recursion, ZenonT(60)
<1>10. PICK f \in [S -> V] : \A s \in S : f[s] = D[<<s, f>>]
  BY <1>9 DEF Solvable
<1>11. \A s \in S : f[s] = body(f, s)
  BY <1>6, <1>10
<1>12. QED
  BY <1>11 DEF S, body, FoldOf

\* The sets that such a fold comes by are the first elements.
LEMMA FirstOnes ==
  ASSUME NEW n \in Nat, NEW k \in 1 .. n
  PROVE  /\ 1 .. k \in SUBSET (1 .. n) /\ 1 .. k # {}
         /\ Max(1 .. k) = k /\ (1 .. k) \ {Max(1 .. k)} = 1 .. k - 1
<1>1. 1 .. k \in SUBSET (1 .. n) /\ 1 .. k # {} /\ k \in 1 .. k /\ k \in Nat
  OBVIOUS
<1>2. Max(1 .. k) = k
  <2>1. 1 .. k \in SUBSET (1 .. k)
    OBVIOUS
  <2>2. Max(1 .. k) \in 1 .. k /\ \A j \in 1 .. k : j <= Max(1 .. k)
    BY <1>1, <2>1, Largest
  <2>3. QED
    BY <1>1, <2>2
<1>3. (1 .. k) \ {k} = 1 .. k - 1
  OBVIOUS
<1>4. QED
  BY <1>1, <1>2, <1>3

\* The characters of a text go out one after the other.
LEMMA TextSteps ==
  ASSUME color \in Color, NEW S \in Cursor, NEW text \in Seq(Glyph)
  PROVE  \E w : /\ w[0] = S
                /\ \A k \in 1 .. Len(text) : w[k] = printc(w[k - 1], text[k])
                /\ sys_write_console(S, text) = w[Len(text)]
<1> DEFINE G == [p \in Cursor \X Glyph |-> printc(p[1], p[2])]
           step(f, s) == IF s = {} THEN S ELSE printc(f[s \ {Max(s)}], text[Max(s)])
           f == CHOOSE g : g = [s \in SUBSET DOMAIN text |-> step(g, s)]
           w == [k \in 0 .. Len(text) |-> f[1 .. k]]
<1>1. G \in [Cursor \X Glyph -> Cursor]
      /\ \A T \in Cursor, c \in Glyph : G[<<T, c>>] = printc(T, c)
  BY PutOne
<1>2. Len(text) \in Nat /\ DOMAIN text = 1 .. Len(text)
  BY LenProperties
<1>3. \E g : g = [s \in SUBSET DOMAIN text |-> step(g, s)]
  <2> HIDE DEF G
  <2>1. PICK g : FoldOf(g, Cursor, S, G, text)
    BY <1>1, FoldExists
  <2>2. ASSUME NEW s \in SUBSET DOMAIN text
        PROVE  g[s] = step(g, s)
    <3>1. CASE s = {}
      BY <2>1, <3>1 DEF FoldOf
    <3>2. CASE s # {}
      <4>1. Max(s) \in 1 .. Len(text) /\ s \ {Max(s)} \in SUBSET DOMAIN text
        BY <1>2, <3>2, Largest
      <4>2. text[Max(s)] \in Glyph /\ g[s \ {Max(s)}] \in Cursor
        BY <2>1, <4>1, ElementOfSeq DEF FoldOf
      <4>3. QED
        BY <1>1, <2>1, <3>2, <4>2 DEF FoldOf
    <3>3. QED
      BY <3>1, <3>2
  <2> HIDE DEF step
  <2>3. g = [s \in SUBSET DOMAIN text |-> step(g, s)]
    BY <2>1, <2>2 DEF FoldOf
  <2>4. QED
    BY <2>3
<1>4. f = [s \in SUBSET DOMAIN text |-> step(f, s)]
  <2> HIDE DEF step
  <2>1. QED
    BY <1>3
<1>5. sys_write_console(S, text) = f[DOMAIN text]
  BY Zenon DEF sys_write_console, FoldLeft, MapThenFoldSet
<1> HIDE DEF f
<1>6. w[0] = S
  <2>1. 1 .. 0 = {} /\ {} \in SUBSET DOMAIN text
    OBVIOUS
  <2>2. f[{}] = S
    BY <1>4, <2>1
  <2>3. QED
    BY <1>2, <2>1, <2>2
<1>7. ASSUME NEW k \in 1 .. Len(text)
      PROVE  w[k] = printc(w[k - 1], text[k])
  <2>1. /\ 1 .. k \in SUBSET DOMAIN text /\ 1 .. k # {}
        /\ Max(1 .. k) = k /\ (1 .. k) \ {Max(1 .. k)} = 1 .. k - 1
    BY <1>2, FirstOnes
  <2>2. f[1 .. k] = step(f, 1 .. k)
    <3> HIDE DEF step
    <3>1. QED
      BY <1>4, <2>1
  <2>3. w[k] = f[1 .. k] /\ w[k - 1] = f[1 .. k - 1]
    BY <1>2
  <2>4. QED
    BY <2>1, <2>2, <2>3
<1>8. sys_write_console(S, text) = w[Len(text)]
  BY <1>2, <1>5
<1> HIDE DEF w
<1>9. QED
  BY <1>6, <1>7, <1>8

\* A text leaves the cursor on the screen, and the screen a screen.
LEMMA TextTyped ==
  ASSUME color \in Color, NEW S \in Cursor, NEW text \in Seq(Glyph)
  PROVE  sys_write_console(S, text) \in Cursor
<1>1. PICK w : /\ w[0] = S
               /\ \A k \in 1 .. Len(text) : w[k] = printc(w[k - 1], text[k])
               /\ sys_write_console(S, text) = w[Len(text)]
  BY TextSteps
<1>2. Len(text) \in Nat
  BY LenProperties
<1> DEFINE T == {k \in Nat : k <= Len(text) => w[k] \in Cursor}
<1>3. 0 \in T
  BY <1>1
<1>4. ASSUME NEW k \in T
      PROVE  k + 1 \in T
  <2>1. SUFFICES ASSUME k + 1 <= Len(text) PROVE w[k + 1] \in Cursor
    OBVIOUS
  <2>2. k + 1 \in 1 .. Len(text) /\ (k + 1) - 1 = k /\ k <= Len(text)
    BY <1>2, <2>1
  <2>3. text[k + 1] \in Glyph /\ w[k] \in Cursor
    BY <2>2, ElementOfSeq
  <2>4. w[k + 1] = printc(w[k], text[k + 1])
    BY <1>1, <2>2
  <2>5. QED
    BY <2>3, <2>4, PutOne
<1>5. T = Nat
  <2>1. T \in SUBSET Nat
    OBVIOUS
  <2> HIDE DEF T
  <2>2. QED
    BY <1>3, <1>4, <2>1, SetInduction
<1>6. QED
  BY <1>1, <1>2, <1>5

\* The piece of a text behind what is on the screen, written, is on it, too.
LEMMA PieceOfText ==
  ASSUME color \in Color, NEW start \in Place, NEW old,
         NEW text \in Seq(Glyph), Len(text) <= Size,
         NEW a \in Nat, NEW e \in Nat, a <= e, e <= Len(text),
         NEW S \in Upto(start, old, text, a)
  PROVE  /\ SubSeq(text, a + 1, e) \in Seq(Glyph)
         /\ sys_write_console(S, SubSeq(text, a + 1, e)) \in Upto(start, old, text, e)
<1> DEFINE piece == SubSeq(text, a + 1, e)
<1>1. /\ piece \in Seq(Glyph) /\ Len(piece) = e - a
      /\ \A k \in 1 .. e - a : piece[k] = text[a + k]
  <2>1. /\ Len(text) \in Nat /\ a + 1 \in 1 .. Len(text) + 1 /\ e \in a .. Len(text)
    BY LenProperties
  <2>2. \A k \in a + 1 .. e : text[k] \in Glyph
    BY <2>1, ElementOfSeq
  <2>3. QED
    BY <2>1, <2>2, SubSeqProperties
<1>2. S \in Cursor
  BY DEF Upto
<1> HIDE DEF piece
<1>3. PICK w : /\ w[0] = S
               /\ \A k \in 1 .. Len(piece) : w[k] = printc(w[k - 1], piece[k])
               /\ sys_write_console(S, piece) = w[Len(piece)]
  BY <1>1, <1>2, TextSteps
<1> DEFINE T == {k \in Nat : k <= e - a => w[k] \in Upto(start, old, text, a + k)}
<1>4. 0 \in T
  BY <1>3
<1>5. ASSUME NEW k \in T
      PROVE  k + 1 \in T
  <2>1. SUFFICES ASSUME k + 1 <= e - a PROVE w[k + 1] \in Upto(start, old, text, a + (k + 1))
    OBVIOUS
  <2>2. /\ k + 1 \in 1 .. e - a /\ (k + 1) - 1 = k /\ k <= e - a
        /\ a + k \in Nat /\ a + k < Len(text) /\ (a + k) + 1 = a + (k + 1)
    BY <2>1, LenProperties
  <2>3. w[k] \in Upto(start, old, text, a + k)
    BY <2>2
  <2>4. w[k + 1] = printc(w[k], text[(a + k) + 1])
    BY <1>1, <1>3, <2>2
  <2>5. QED
    BY <2>2, <2>3, <2>4, UptoNext
<1>6. T = Nat
  <2>1. T \in SUBSET Nat
    OBVIOUS
  <2> HIDE DEF T
  <2>2. QED
    BY <1>4, <1>5, <2>1, SetInduction
<1>7. e - a \in Nat /\ a + (e - a) = e
  OBVIOUS
<1>8. w[e - a] \in Upto(start, old, text, e)
  <2>1. e - a <= e - a
    BY <1>7
  <2>2. w[e - a] \in Upto(start, old, text, a + (e - a))
    BY <1>6, <1>7, <2>1
  <2>3. QED
    BY <1>7, <2>2
<1>9. QED
  BY <1>1, <1>3, <1>8 DEF piece

\* A chunks goes out in pieces (sys_write), each after the last.
Pieces(S, chunks) ==
  LET f == CHOOSE g : g = [s \in SUBSET DOMAIN chunks |->
             IF s = {} THEN S
             ELSE sys_write_console(g[s \ {Max(s)}], chunks[Max(s)])]
  IN  f[DOMAIN chunks]

\* The pieces go out one after the other.
LEMMA PieceSteps ==
  ASSUME color \in Color, NEW S \in Cursor, NEW chunks \in Seq(Seq(Glyph))
  PROVE  \E w : /\ w[0] = S
                /\ \A k \in 1 .. Len(chunks) : w[k] = sys_write_console(w[k - 1], chunks[k])
                /\ Pieces(S, chunks) = w[Len(chunks)]
<1> DEFINE G == [p \in Cursor \X Seq(Glyph) |-> sys_write_console(p[1], p[2])]
           step(f, s) == IF s = {} THEN S ELSE sys_write_console(f[s \ {Max(s)}], chunks[Max(s)])
           f == CHOOSE g : g = [s \in SUBSET DOMAIN chunks |-> step(g, s)]
           w == [k \in 0 .. Len(chunks) |-> f[1 .. k]]
<1>1. G \in [Cursor \X Seq(Glyph) -> Cursor]
      /\ \A T \in Cursor, c \in Seq(Glyph) : G[<<T, c>>] = sys_write_console(T, c)
  BY TextTyped
<1>2. Len(chunks) \in Nat /\ DOMAIN chunks = 1 .. Len(chunks)
  BY LenProperties
<1>3. \E g : g = [s \in SUBSET DOMAIN chunks |-> step(g, s)]
  <2> HIDE DEF G
  <2>1. PICK g : FoldOf(g, Cursor, S, G, chunks)
    BY <1>1, FoldExists
  <2>2. ASSUME NEW s \in SUBSET DOMAIN chunks
        PROVE  g[s] = step(g, s)
    <3>1. CASE s = {}
      BY <2>1, <3>1 DEF FoldOf
    <3>2. CASE s # {}
      <4>1. Max(s) \in 1 .. Len(chunks) /\ s \ {Max(s)} \in SUBSET DOMAIN chunks
        BY <1>2, <3>2, Largest
      <4>2. chunks[Max(s)] \in Seq(Glyph) /\ g[s \ {Max(s)}] \in Cursor
        BY <2>1, <4>1, ElementOfSeq DEF FoldOf
      <4>3. QED
        BY <1>1, <2>1, <3>2, <4>2 DEF FoldOf
    <3>3. QED
      BY <3>1, <3>2
  <2> HIDE DEF step
  <2>3. g = [s \in SUBSET DOMAIN chunks |-> step(g, s)]
    BY <2>1, <2>2 DEF FoldOf
  <2>4. QED
    BY <2>3
<1>4. f = [s \in SUBSET DOMAIN chunks |-> step(f, s)]
  <2> HIDE DEF step
  <2>1. QED
    BY <1>3
<1>5. Pieces(S, chunks) = f[DOMAIN chunks]
  BY Zenon DEF Pieces
<1> HIDE DEF f
<1>6. w[0] = S
  <2>1. 1 .. 0 = {} /\ {} \in SUBSET DOMAIN chunks
    OBVIOUS
  <2>2. f[{}] = S
    BY <1>4, <2>1
  <2>3. QED
    BY <1>2, <2>1, <2>2
<1>7. ASSUME NEW k \in 1 .. Len(chunks)
      PROVE  w[k] = sys_write_console(w[k - 1], chunks[k])
  <2>1. /\ 1 .. k \in SUBSET DOMAIN chunks /\ 1 .. k # {}
        /\ Max(1 .. k) = k /\ (1 .. k) \ {Max(1 .. k)} = 1 .. k - 1
    BY <1>2, FirstOnes
  <2>2. f[1 .. k] = step(f, 1 .. k)
    <3> HIDE DEF step
    <3>1. QED
      BY <1>4, <2>1
  <2>3. w[k] = f[1 .. k] /\ w[k - 1] = f[1 .. k - 1]
    BY <1>2
  <2>4. QED
    BY <2>1, <2>2, <2>3
<1>8. Pieces(S, chunks) = w[Len(chunks)]
  BY <1>2, <1>5
<1> HIDE DEF w
<1>9. QED
  BY <1>6, <1>7, <1>8

\* A text that fits the screen is written whole, from the cursor on and nowhere
\* else, although it goes out in pieces: the last one ends where the text does.
LEMMA WriteWhole ==
  ASSUME ConsoleTypeOK, NEW text \in Seq(Glyph), Len(text) <= Size, sys_write(text)
  PROVE  /\ [x |-> x', y |-> y', screen |-> screen']
              \in Upto(at(x, y), screen, text, Len(text))
         /\ color' = color
<1> DEFINE S == [x |-> x, y |-> y, screen |-> screen]
           start == at(x, y)
           n == Len(text)
           K == (n + TAM_BUFFER - 1) \div TAM_BUFFER
           chunks == [k \in 1 .. K |-> chunk(text, k)]
           end(k) == IF k * TAM_BUFFER < n THEN k * TAM_BUFFER ELSE n
<1>1. /\ S \in Cursor /\ start \in Place /\ color \in Color
      /\ S \in Upto(start, screen, text, 0)
  <2>1. x \in Column /\ y \in Row /\ color \in Color
        /\ screen \in [Place -> {blank} \cup [char : Glyph, color : Color]]
    BY DEF ConsoleTypeOK, Place, Size
  <2>2. start \in Place
    BY <2>1, PlaceFacts
  <2>3. (start + 0) % Size = start
    BY <2>2, ScreenSize, OnceRound DEF Place
  <2> HIDE DEF start
  <2>4. at(S.x, S.y) = (start + 0) % Size
    BY <2>3 DEF start
  <2>5. QED
    BY <2>1, <2>2, <2>4 DEF Cursor, Upto
<1>2. /\ n \in Nat /\ TAM_BUFFER \in Nat /\ TAM_BUFFER > 0
  BY ConsoleAssumption, LenProperties
<1>3. /\ K \in Nat
      /\ K > 0 => (K - 1) * TAM_BUFFER < n
      /\ n <= K * TAM_BUFFER
  BY <1>2, Z3
<1>4. \A k \in 0 .. K : /\ k * TAM_BUFFER \in Nat
                        /\ k > 0 => /\ (k - 1) * TAM_BUFFER \in Nat
                                    /\ k * TAM_BUFFER = (k - 1) * TAM_BUFFER + TAM_BUFFER
                                    /\ (k - 1) * TAM_BUFFER < n
  <2> SUFFICES ASSUME NEW k \in 0 .. K
               PROVE  /\ k * TAM_BUFFER \in Nat
                      /\ k > 0 => /\ (k - 1) * TAM_BUFFER \in Nat
                                  /\ k * TAM_BUFFER = (k - 1) * TAM_BUFFER + TAM_BUFFER
                                  /\ (k - 1) * TAM_BUFFER < n
    OBVIOUS
  <2> HIDE DEF K, n
  <2>1. k \in Nat /\ k <= K
    BY <1>3
  <2>2. k * TAM_BUFFER \in Nat
    BY <1>2, <2>1, Z3
  <2>3. CASE k > 0
    <3>1. k - 1 \in Nat /\ k - 1 <= K - 1 /\ K > 0
      BY <1>3, <2>1, <2>3
    <3>2. /\ (k - 1) * TAM_BUFFER \in Nat
          /\ k * TAM_BUFFER = (k - 1) * TAM_BUFFER + TAM_BUFFER
          /\ (k - 1) * TAM_BUFFER <= (K - 1) * TAM_BUFFER
      BY <1>2, <1>3, <2>1, <3>1, Z3
    <3>3. (K - 1) * TAM_BUFFER \in Nat
      BY <1>2, <1>3, <3>1, Z3
    <3>4. QED
      BY <1>2, <1>3, <2>2, <3>1, <3>2, <3>3
  <2>4. QED
    BY <2>1, <2>2, <2>3
<1> HIDE DEF K
<1>5. /\ end(0) = 0 /\ end(K) = n
      /\ \A k \in 1 .. K : /\ end(k - 1) = (k - 1) * TAM_BUFFER
                           /\ end(k - 1) \in Nat /\ end(k) \in Nat
                           /\ end(k - 1) <= end(k) /\ end(k) <= n
                           /\ chunk(text, k) = SubSeq(text, end(k - 1) + 1, end(k))
  <2>1. 0 * TAM_BUFFER = 0
    BY <1>2
  <2>2. end(0) = 0
    BY <1>2, <2>1
  <2>3. end(K) = n
    BY <1>2, <1>3, <1>4
  <2>4. ASSUME NEW k \in 1 .. K
        PROVE  /\ end(k - 1) = (k - 1) * TAM_BUFFER
               /\ end(k - 1) \in Nat /\ end(k) \in Nat
               /\ end(k - 1) <= end(k) /\ end(k) <= n
               /\ chunk(text, k) = SubSeq(text, end(k - 1) + 1, end(k))
    <3>1. k \in 0 .. K /\ k > 0
      BY <1>3
    <3> DEFINE b == (k - 1) * TAM_BUFFER
               e == k * TAM_BUFFER
    <3>2. b \in Nat /\ e \in Nat /\ e = b + TAM_BUFFER /\ b < n
      BY <1>4, <3>1
    <3>3. end(k - 1) = b
      BY <3>2
    <3>4. chunk(text, k) = SubSeq(text, b + 1, IF n - b > TAM_BUFFER THEN e ELSE n)
      BY DEF chunk
    <3>5. end(k) = IF e < n THEN e ELSE n
      OBVIOUS
    <3> HIDE DEF b, e, n, end
    <3>6. (n - b > TAM_BUFFER) <=> e < n
      BY <1>2, <3>2
    <3>7. chunk(text, k) = SubSeq(text, end(k - 1) + 1, end(k))
      BY <3>3, <3>4, <3>5, <3>6
    <3>8. end(k) \in Nat /\ end(k - 1) <= end(k) /\ end(k) <= n
      BY <1>2, <3>2, <3>3, <3>5
    <3>9. QED
      BY <3>2, <3>3, <3>7, <3>8 DEF b
  <2>5. QED
    BY <2>2, <2>3, <2>4
<1> HIDE DEF end, n
<1>6. chunks \in Seq(Seq(Glyph)) /\ Len(chunks) = K
  <2>1. ASSUME NEW k \in 1 .. K
        PROVE  chunk(text, k) \in Seq(Glyph)
    <3>1. /\ chunk(text, k) = SubSeq(text, end(k - 1) + 1, end(k))
          /\ end(k - 1) \in Nat /\ end(k) \in Nat
          /\ end(k - 1) <= end(k) /\ end(k) <= Len(text)
      BY <1>5 DEF n
    <3>2. \A i \in end(k - 1) + 1 .. end(k) : text[i] \in Glyph
      <4>1. \A i \in end(k - 1) + 1 .. end(k) : i \in 1 .. Len(text)
        BY <3>1, LenProperties
      <4>2. QED
        BY <4>1, ElementOfSeq
    <3>3. end(k - 1) + 1 \in 1 .. Len(text) + 1 /\ end(k) \in end(k - 1) .. Len(text)
      BY <3>1, LenProperties
    <3>4. QED
      BY <3>1, <3>2, <3>3, SubSeqProperties
  <2>2. chunks \in [1 .. K -> Seq(Glyph)]
    BY <2>1
  <2> HIDE DEF chunks
  <2>3. QED
    BY <1>3, <2>2, SeqDef, LenProperties
<1> HIDE DEF S, start
<1>7. PICK w : /\ w[0] = S
               /\ \A k \in 1 .. Len(chunks) :
                    w[k] = sys_write_console(w[k - 1], chunks[k])
               /\ Pieces(S, chunks) = w[Len(chunks)]
  <2> HIDE DEF chunks
  <2>1. QED
    BY <1>1, <1>6, PieceSteps
<1>8. ASSUME NEW k \in 1 .. K
      PROVE  w[k] = sys_write_console(w[k - 1], chunk(text, k))
  <2>1. chunks[k] = chunk(text, k)
    OBVIOUS
  <2> HIDE DEF chunks
  <2>2. QED
    BY <1>6, <1>7, <2>1
<1> DEFINE T == {k \in Nat : k <= K => w[k] \in Upto(start, screen, text, end(k))}
<1>9. 0 \in T
  BY <1>1, <1>5, <1>7
<1>10. ASSUME NEW k \in T
       PROVE  k + 1 \in T
  <2>1. SUFFICES ASSUME k + 1 <= K PROVE w[k + 1] \in Upto(start, screen, text, end(k + 1))
    OBVIOUS
  <2>2. k + 1 \in 1 .. K /\ (k + 1) - 1 = k /\ k <= K
    BY <1>3, <2>1
  <2>3. /\ w[k] \in Upto(start, screen, text, end(k))
        /\ w[k + 1] = sys_write_console(w[k], SubSeq(text, end(k) + 1, end(k + 1)))
        /\ end(k) \in Nat /\ end(k + 1) \in Nat
        /\ end(k) <= end(k + 1) /\ end(k + 1) <= n
    BY <1>5, <1>8, <2>2
  <2>4. QED
    BY <1>1, <2>3, PieceOfText DEF n
<1>11. T = Nat
  <2>1. T \in SUBSET Nat
    OBVIOUS
  <2> HIDE DEF T
  <2>2. QED
    BY <1>9, <1>10, <2>1, SetInduction
<1>12. Pieces(S, chunks) \in Upto(start, screen, text, Len(text))
  <2>1. K \in T /\ K <= K
    BY <1>3, <1>11
  <2>2. w[K] \in Upto(start, screen, text, end(K))
    BY <2>1
  <2>3. QED
    BY <1>5, <1>6, <1>7, <2>2 DEF n
<1>13. /\ x' = Pieces(S, chunks).x /\ y' = Pieces(S, chunks).y
       /\ screen' = Pieces(S, chunks).screen /\ color' = color
  BY Zenon DEF sys_write, Pieces, FoldLeft, MapThenFoldSet, S, K, n
<1> HIDE DEF chunks
<1>14. Pieces(S, chunks) = [x |-> x', y |-> y', screen |-> screen']
  <2> DEFINE P == Pieces(S, chunks)
  <2>1. P \in Cursor /\ x' = P.x /\ y' = P.y /\ screen' = P.screen
    BY <1>12, <1>13 DEF Upto
  <2> HIDE DEF P
  <2>2. P = [x |-> x', y |-> y', screen |-> screen']
    BY <2>1 DEF Cursor
  <2>3. QED
    BY <2>2 DEF P
<1>15. QED
  BY <1>12, <1>13, <1>14 DEF start

-----------------------------------------------------------------------------
(* The screen: calls.                                                      *)

\* What the screen with its cursor and its color can be, and is.
Display == [x : Column, y : Row, color : Color,
            screen : [Place -> {blank} \cup [char : Glyph, color : Color]]]
now == [x |-> x, y |-> y, color |-> color, screen |-> screen]

Call == [op : {"gotoxy"}, x : Column, y : Row]
          \cup [op : {"set_color"}, color : Color]
          \cup [op : {"write"}, buffer : {b \in Seq(Glyph) : Len(b) <= Size}]

\* From S, writing b gives T.
Wrote(S, b, T) ==
  LET start == at(S.x, S.y) IN
  /\ T.color = S.color
  /\ at(T.x, T.y) = (start + Len(b)) % Size
  /\ \A k \in 1 .. Len(b) :
       T.screen[(start + k - 1) % Size] = [char |-> b[k], color |-> S.color]
  /\ \A m \in Place : (\A k \in 1 .. Len(b) : m # (start + k - 1) % Size)
                        => T.screen[m] = S.screen[m]

\* From S, call c gives T.
Did(S, c, T) ==
  /\ c.op = "gotoxy" =>
       T = [x |-> c.x, y |-> c.y, color |-> S.color, screen |-> S.screen]
  /\ c.op = "set_color" =>
       T = [x |-> S.x, y |-> S.y, color |-> c.color, screen |-> S.screen]
  /\ c.op = "write" => Wrote(S, c.buffer, T)

\* The system calls do what Did says, and leave the cursor on the screen.
LEMMA CallDoes ==
  ASSUME ConsoleTypeOK, NEW c \in Call, call(c)
  PROVE  ConsoleTypeOK' /\ now' \in Display /\ Did(now, c, now')
<1>1. /\ x \in Column /\ y \in Row /\ color \in Color
      /\ screen \in [Place -> {blank} \cup [char : Glyph, color : Color]]
  BY DEF ConsoleTypeOK, Place, Size
<1>2. SUFFICES /\ x' \in Column /\ y' \in Row /\ color' \in Color
               /\ screen' \in [Place -> {blank} \cup [char : Glyph, color : Color]]
               /\ Did(now, c, now')
  BY DEF ConsoleTypeOK, now, Display, Place, Size, Column, Row, blank
<1>3. CASE c \in [op : {"gotoxy"}, x : Column, y : Row]
  <2>1. c.op = "gotoxy" /\ sys_gotoxy(c.x, c.y) /\ c.x \in Column /\ c.y \in Row
    BY <1>3 DEF call
  <2>2. x' = c.x /\ y' = c.y /\ color' = color /\ screen' = screen
    BY <2>1 DEF sys_gotoxy
  <2>3. now' = [x |-> c.x, y |-> c.y, color |-> now.color, screen |-> now.screen]
    BY <2>2 DEF now
  <2>4. Did(now, c, now')
    BY <2>1, <2>3 DEF Did
  <2>5. QED
    BY <1>1, <2>1, <2>2, <2>4
<1>4. CASE c \in [op : {"set_color"}, color : Color]
  <2>1. c.op = "set_color" /\ sys_set_color(c.color) /\ c.color \in Color
    BY <1>4 DEF call
  <2>2. x' = x /\ y' = y /\ color' = c.color /\ screen' = screen
    BY <2>1 DEF sys_set_color
  <2>3. Did(now, c, now')
    BY <2>1, <2>2 DEF Did, now
  <2>4. QED
    BY <1>1, <2>1, <2>2, <2>3
<1>5. CASE c \in [op : {"write"}, buffer : {b \in Seq(Glyph) : Len(b) <= Size}]
  <2> DEFINE b == c.buffer
             S == [x |-> x', y |-> y', screen |-> screen']
  <2>1. c.op = "write" /\ sys_write(b) /\ b \in Seq(Glyph) /\ Len(b) <= Size
    BY <1>5 DEF call
  <2> HIDE DEF b
  <2>2. S \in Upto(at(x, y), screen, b, Len(b)) /\ color' = color
    BY <2>1, WriteWhole
  <2>3. /\ S \in Cursor
        /\ at(x', y') = (at(x, y) + Len(b)) % Size
        /\ \A k \in 1 .. Len(b) :
             screen'[(at(x, y) + k - 1) % Size] = [char |-> b[k], color |-> color]
        /\ \A m \in Place : (\A k \in 1 .. Len(b) : m # (at(x, y) + k - 1) % Size)
                              => screen'[m] = screen[m]
    BY <2>2 DEF Upto
  <2>4. /\ x' \in Column /\ y' \in Row
        /\ screen' \in [Place -> {blank} \cup [char : Glyph, color : Color]]
    BY <2>3 DEF Cursor
  <2>5. Wrote(now, b, now')
    BY <2>2, <2>3 DEF Wrote, now
  <2>6. Did(now, c, now')
    BY <2>1, <2>5 DEF Did, b
  <2>7. QED
    BY <1>1, <2>2, <2>4, <2>6
<1>6. QED
  BY <1>3, <1>4, <1>5 DEF Call

-----------------------------------------------------------------------------
(* The screen: outlines, what holds between the calls of a sequence.       *)

Leads(P, c, Q) == \A S \in P, T \in Display : Did(S, c, T) => T \in Q

Outline(A, cs) ==
  /\ A \in [0 .. Len(cs) -> SUBSET Display]
  /\ \A k \in 1 .. Len(cs) : Leads(A[k - 1], cs[k], A[k])

\* The calls cs lead from P to Q.
Draws(P, cs, Q) ==
  /\ cs \in Seq(Call)
  /\ \E A : Outline(A, cs) /\ P \subseteq A[0] /\ A[Len(cs)] \subseteq Q

\* No call leaves the displays.
LEMMA AnyCalls ==
  ASSUME NEW cs \in Seq(Call)
  PROVE  Draws(Display, cs, Display)
<1> DEFINE A == [k \in 0 .. Len(cs) |-> Display]
<1>1. Len(cs) \in Nat
  BY LenProperties
<1>2. Outline(A, cs)
  BY <1>1 DEF Outline, Leads
<1>3. A[0] = Display /\ A[Len(cs)] = Display
  BY <1>1
<1> HIDE DEF A
<1>4. QED
  BY <1>2, <1>3 DEF Draws

\* One call.
LEMMA OneCall ==
  ASSUME NEW c \in Call, NEW P \in SUBSET Display, NEW Q \in SUBSET Display,
         Leads(P, c, Q)
  PROVE  Draws(P, <<c>>, Q)
<1> DEFINE A == [k \in 0 .. 1 |-> IF k = 0 THEN P ELSE Q]
<1>1. <<c>> \in Seq(Call) /\ Len(<<c>>) = 1 /\ <<c>>[1] = c
  OBVIOUS
<1>2. A \in [0 .. 1 -> SUBSET Display] /\ A[0] = P /\ A[1] = Q
  OBVIOUS
<1> HIDE DEF A
<1>3. Outline(A, <<c>>)
  <2>1. ASSUME NEW k \in 1 .. 1
        PROVE  Leads(A[k - 1], <<c>>[k], A[k])
    <3>1. k = 1 /\ k - 1 = 0
      OBVIOUS
    <3>2. QED
      BY <1>1, <1>2, <3>1
  <2>2. QED
    BY <1>1, <1>2, <2>1 DEF Outline
<1>4. QED
  BY <1>1, <1>2, <1>3 DEF Draws

\* One sequence of calls after another.
LEMMA CallsThenCalls ==
  ASSUME NEW P, NEW Q, NEW R, NEW cs, NEW ds, Draws(P, cs, Q), Draws(Q, ds, R)
  PROVE  Draws(P, cs \o ds, R)
<1>1. PICK A : Outline(A, cs) /\ P \subseteq A[0] /\ A[Len(cs)] \subseteq Q
  BY DEF Draws
<1>2. PICK B : Outline(B, ds) /\ Q \subseteq B[0] /\ B[Len(ds)] \subseteq R
  BY DEF Draws
<1> DEFINE m == Len(cs)
           n == Len(ds)
           C == [k \in 0 .. m + n |-> IF k <= m THEN A[k] ELSE B[k - m]]
<1>3. /\ cs \o ds \in Seq(Call) /\ Len(cs \o ds) = m + n
      /\ m \in Nat /\ n \in Nat
      /\ \A k \in 1 .. m + n : (cs \o ds)[k] = IF k <= m THEN cs[k] ELSE ds[k - m]
  BY ConcatProperties, LenProperties DEF Draws
<1>4. /\ A \in [0 .. m -> SUBSET Display] /\ B \in [0 .. n -> SUBSET Display]
      /\ \A k \in 1 .. m : Leads(A[k - 1], cs[k], A[k])
      /\ \A k \in 1 .. n : Leads(B[k - 1], ds[k], B[k])
  BY <1>1, <1>2 DEF Outline
<1> HIDE DEF m, n
<1>5. C \in [0 .. m + n -> SUBSET Display]
  BY <1>3, <1>4
<1>6. ASSUME NEW k \in 1 .. m + n
      PROVE  Leads(C[k - 1], (cs \o ds)[k], C[k])
  <2>1. CASE k <= m
    <3>1. C[k] = A[k] /\ C[k - 1] = A[k - 1] /\ k \in 1 .. m
      BY <1>3, <2>1
    <3>2. QED
      BY <1>3, <1>4, <2>1, <3>1
  <2>2. CASE k = m + 1
    <3>1. C[k] = B[1] /\ C[k - 1] = A[m] /\ 1 \in 1 .. n /\ (cs \o ds)[k] = ds[1]
      BY <1>3, <2>2
    <3>2. A[m] \subseteq B[0] /\ Leads(B[0], ds[1], B[1])
      <4>1. 1 - 1 = 0
        OBVIOUS
      <4>2. QED
        BY <1>1, <1>2, <1>4, <3>1, <4>1 DEF m
    <3>3. QED
      BY <3>1, <3>2 DEF Leads
  <2>3. CASE k > m + 1
    <3>1. /\ k \in 0 .. m + n /\ k - 1 \in 0 .. m + n /\ k - m \in 1 .. n
          /\ ~(k <= m) /\ ~(k - 1 <= m) /\ (k - 1) - m = (k - m) - 1
      BY <1>3, <2>3
    <3>2. (cs \o ds)[k] = ds[k - m]
      BY <1>3, <3>1
    <3>3. C[k] = B[k - m] /\ C[k - 1] = B[(k - m) - 1]
      BY <3>1
    <3>4. Leads(B[(k - m) - 1], ds[k - m], B[k - m])
      BY <1>4, <3>1
    <3>5. QED
      BY <3>2, <3>3, <3>4
  <2>4. QED
    BY <1>3, <2>1, <2>2, <2>3
<1>7. C[0] = A[0] /\ C[m + n] \subseteq R
  <2>1. C[0] = A[0]
    BY <1>3
  <2>2. CASE n = 0
    <3>1. C[m + n] = A[m] /\ A[m] \subseteq Q /\ Q \subseteq B[0] /\ B[0] \subseteq R
      BY <1>1, <1>2, <1>3, <2>2 DEF m, n
    <3> HIDE DEF C
    <3>2. QED
      BY <2>1, <3>1
  <2>3. CASE n > 0
    <3>1. C[m + n] = B[n]
      BY <1>3, <2>3
    <3> HIDE DEF C
    <3>2. QED
      BY <1>2, <2>1, <3>1 DEF n
  <2> HIDE DEF C
  <2>4. QED
    BY <1>3, <2>1, <2>2, <2>3
<1> HIDE DEF C
<1>8. Outline(C, cs \o ds)
  BY <1>3, <1>5, <1>6 DEF Outline
<1>9. QED
  BY <1>1, <1>3, <1>7, <1>8 DEF Draws

\* Many sequences of calls, one after another.
LEMMA CallsInTurn ==
  ASSUME NEW ss \in Seq(Seq(Call)), NEW I \in [0 .. Len(ss) -> SUBSET Display],
         \A k \in 1 .. Len(ss) : Draws(I[k - 1], ss[k], I[k])
  PROVE  Draws(I[0], FlattenSeq(ss), I[Len(ss)])
<1>1. Len(ss) \in Nat
  BY LenProperties
<1>2. CASE Len(ss) = 0
  <2>1. FlattenSeq(ss) = ss /\ ss = <<>>
    BY <1>2, EmptySeq DEF FlattenSeq
  <2>2. Outline(I, ss) /\ ss \in Seq(Call)
    BY <1>2, <2>1 DEF Outline
  <2>3. QED
    BY <1>2, <2>1, <2>2 DEF Draws
<1>3. CASE Len(ss) # 0
  <2> DEFINE n == Len(ss)
             V == Seq(Call)
             body(f, i) == IF i = 1 THEN ss[i] ELSE f[i - 1] \o ss[i]
             m == [i \in 1 .. n |-> i]
             D == [p \in (1 .. n) \X [1 .. n -> V] |-> body(p[2], p[1])]
             f == CHOOSE g : g = [i \in 1 .. n |-> body(g, i)]
  <2>1. V # {} /\ m \in [1 .. n -> Nat]
    <3>1. <<>> \in V
      OBVIOUS
    <3>2. QED
      BY <3>1
  <2>2. ASSUME NEW i \in 1 .. n, NEW g \in [1 .. n -> V]
        PROVE  body(g, i) \in V
    <3>1. ss[i] \in Seq(Call)
      BY ElementOfSeq
    <3>2. CASE i = 1
      BY <3>1, <3>2
    <3>3. CASE i # 1
      <4>1. i - 1 \in 1 .. n
        BY <1>1, <3>3
      <4>2. g[i - 1] \in Seq(Call)
        BY <4>1
      <4>3. QED
        BY <3>1, <3>3, <4>2, ConcatProperties
    <3>4. QED
      BY <3>2, <3>3
  <2>3. /\ D \in [(1 .. n) \X [1 .. n -> V] -> V]
        /\ \A i \in 1 .. n, g \in [1 .. n -> V] : D[<<i, g>>] = body(g, i)
    BY <2>2
  <2>4. ASSUME NEW i \in 1 .. n, NEW g \in [1 .. n -> V], NEW h \in [1 .. n -> V],
               \A j \in 1 .. n : m[j] < m[i] => g[j] = h[j]
        PROVE  body(g, i) = body(h, i)
    <3>1. CASE i = 1
      BY <3>1
    <3>2. CASE i # 1
      <4>1. i - 1 \in 1 .. n /\ m[i - 1] < m[i]
        BY <1>1, <3>2
      <4>2. QED
        BY <2>4, <4>1
    <3>3. QED
      BY <3>1, <3>2
  <2> HIDE DEF V, body, m, D
  <2>5. PICK g \in [1 .. n -> V] : \A i \in 1 .. n : g[i] = D[<<i, g>>]
    <3>1. LooksBelow(1 .. n, V, m, D)
      <4> SUFFICES ASSUME NEW i \in 1 .. n, NEW g \in [1 .. n -> V],
                          NEW h \in [1 .. n -> V],
                          \A j \in 1 .. n : m[j] < m[i] => g[j] = h[j]
                   PROVE  D[<<i, g>>] = D[<<i, h>>]
        BY DEF LooksBelow
      <4>1. body(g, i) = body(h, i)
        BY <2>4
      <4>2. D[<<i, g>>] = body(g, i) /\ D[<<i, h>>] = body(h, i)
        BY <2>3
      <4>3. QED
        BY <4>1, <4>2
    <3>2. Solvable(1 .. n, V, D)
      BY <2>1, <2>3, <3>1, Recursion, Zenon
    <3>3. QED
      BY <3>2 DEF Solvable
  <2>6. g = [i \in 1 .. n |-> body(g, i)]
    BY <2>3, <2>5
  <2>7. f = [i \in 1 .. n |-> body(f, i)]
    BY <2>6
  <2>8. FlattenSeq(ss) = f[n]
    BY <1>3 DEF FlattenSeq, body
  <2> HIDE DEF f
  <2> DEFINE T == {k \in Nat : k + 1 <= n => Draws(I[0], f[k + 1], I[k + 1])}
  <2>9. 0 \in T
    <3>1. 1 \in 1 .. n /\ 0 + 1 = 1 /\ 1 - 1 = 0
      BY <1>1, <1>3
    <3>2. f[1] = ss[1]
      BY <2>7, <3>1 DEF body
    <3>3. Draws(I[0], ss[1], I[1])
      BY <3>1
    <3>4. QED
      BY <3>1, <3>2, <3>3
  <2>10. ASSUME NEW k \in T
         PROVE  k + 1 \in T
    <3>1. SUFFICES ASSUME (k + 1) + 1 <= n
                   PROVE  Draws(I[0], f[(k + 1) + 1], I[(k + 1) + 1])
      OBVIOUS
    <3> DEFINE i == (k + 1) + 1
    <3>2. i \in 1 .. n /\ i # 1 /\ i - 1 = k + 1 /\ k + 1 <= n
      BY <1>1, <3>1
    <3> HIDE DEF i
    <3>3. f[i] = f[i - 1] \o ss[i]
      BY <2>7, <3>2 DEF body
    <3>4. Draws(I[0], f[i - 1], I[i - 1])
      BY <3>2
    <3>5. Draws(I[i - 1], ss[i], I[i])
      BY <3>2
    <3>6. Draws(I[0], f[i], I[i])
      BY <3>3, <3>4, <3>5, CallsThenCalls
    <3>7. QED
      BY <3>6 DEF i
  <2>11. T = Nat
    <3>1. T \in SUBSET Nat
      OBVIOUS
    <3> HIDE DEF T
    <3>2. QED
      BY <2>9, <2>10, <3>1, SetInduction
  <2>12. n - 1 \in T /\ (n - 1) + 1 = n
    <3> HIDE DEF T
    <3>1. QED
      BY <1>1, <1>3, <2>11
  <2>13. Draws(I[0], f[n], I[n])
    <3>1. (n - 1) + 1 <= n => Draws(I[0], f[(n - 1) + 1], I[(n - 1) + 1])
      BY <2>12
    <3>2. QED
      BY <1>1, <2>12, <3>1
  <2>14. QED
    BY <2>8, <2>13
<1>4. QED
  BY <1>2, <1>3

-----------------------------------------------------------------------------
(* The screen: the board.                                                  *)

\* Where cell c is on the screen.
spot(c) == at(LEFT + c[2], TOP + c[1])

\* Displays that show f, a glyph in its color for every cell.
Shows(f) ==
  {S \in Display :
     \A c \in Square : S.screen[spot(c)] = [char |-> f[c], color |-> f[c]]}

\* A cursor that is on no cell of the board.
Beside(i, r) == i \in Column /\ r \in Row /\ \A c \in Square : at(i, r) # spot(c)

\* What the layout of the screen says: margins, board and labels have a place.
LEMMA LayoutFacts ==
  /\ ROWS \in Nat /\ ROWS > 0 /\ COLUMNS \in Nat /\ COLUMNS > 0
  /\ LEFT \in Nat /\ LEFT > 0 /\ TOP \in Nat /\ TOP > 0 /\ LABEL \in Nat
  /\ LEFT + COLUMNS < LABEL /\ LABEL < NUM_COLUMNS /\ TOP + ROWS <= NUM_ROWS
  /\ NUM_COLUMNS \in Nat /\ NUM_ROWS \in Nat
BY ScreenSize, ScreenAssumption

\* Every cell of the board has a place of its own on the screen.
LEMMA SpotFacts ==
  ASSUME NEW c \in Square
  PROVE  /\ c = <<c[1], c[2]>> /\ c[1] \in 0 .. ROWS - 1 /\ c[2] \in 0 .. COLUMNS - 1
         /\ LEFT + c[2] \in Column /\ TOP + c[1] \in Row
         /\ spot(c) \in Place
         /\ \A b \in Square : spot(b) = spot(c) => b = c
<1>1. \A b \in Square :
         /\ b = <<b[1], b[2]>> /\ b[1] \in 0 .. ROWS - 1 /\ b[2] \in 0 .. COLUMNS - 1
  BY DEF Square
<1>2. \A b \in Square : LEFT + b[2] \in Column /\ TOP + b[1] \in Row
  BY <1>1, LayoutFacts DEF Column, Row
<1>3. spot(c) \in Place
  BY <1>2, PlaceFacts DEF spot
<1>4. ASSUME NEW b \in Square, spot(b) = spot(c)
      PROVE  b = c
  <2>1. LEFT + b[2] = LEFT + c[2] /\ TOP + b[1] = TOP + c[1]
    BY <1>2, <1>4, PlaceFacts DEF spot
  <2>2. b[2] = c[2] /\ b[1] = c[1]
    BY <1>1, <2>1, LayoutFacts
  <2>3. QED
    BY <1>1, <2>2
<1>5. QED
  BY <1>1, <1>2, <1>3, <1>4

\* What is left or right of the board or above it is beside it.
LEMMA BesideFacts ==
  ASSUME NEW i \in Column, NEW r \in Row,
         i < LEFT \/ i >= LEFT + COLUMNS \/ r < TOP
  PROVE  Beside(i, r)
<1>1. ASSUME NEW c \in Square, at(i, r) = spot(c)
      PROVE  FALSE
  <2>1. /\ c[1] \in 0 .. ROWS - 1 /\ c[2] \in 0 .. COLUMNS - 1
        /\ LEFT + c[2] \in Column /\ TOP + c[1] \in Row
    BY SpotFacts
  <2>2. i = LEFT + c[2] /\ r = TOP + c[1]
    BY <1>1, <2>1, PlaceFacts DEF spot
  <2>3. QED
    BY <2>1, <2>2, LayoutFacts
<1>2. QED
  BY <1>1 DEF Beside

\* From one display to another no place changes but one.
SameBut(S, T, p) == \A m \in Place : m # p => T.screen[m] = S.screen[m]

\* A text of one character.
LEMMA WroteOne ==
  ASSUME NEW S \in Display, NEW T \in Display, NEW g \in Glyph, Wrote(S, <<g>>, T)
  PROVE  /\ at(S.x, S.y) \in Place
         /\ T.color = S.color
         /\ T.screen[at(S.x, S.y)] = [char |-> g, color |-> S.color]
         /\ SameBut(S, T, at(S.x, S.y))
         /\ S.x + 1 < NUM_COLUMNS => T.x = S.x + 1 /\ T.y = S.y
<1> DEFINE start == at(S.x, S.y)
<1>1. /\ S.x \in Column /\ S.y \in Row /\ T.x \in Column /\ T.y \in Row
      /\ start \in Place
  BY PlaceFacts DEF Display
<1>2. Size \in Nat /\ Size > 0 /\ start \in Nat /\ start < Size
  BY <1>1, ScreenSize DEF Place
<1>3. Len(<<g>>) = 1 /\ <<g>>[1] = g
  OBVIOUS
<1> HIDE DEF start
<1>4. start + 1 - 1 = start /\ start % Size = start
      /\ (start + 1) % Size = IF start + 1 < Size THEN start + 1 ELSE 0
  BY <1>2, OnceRound
<1>5. /\ T.color = S.color /\ at(T.x, T.y) = (start + 1) % Size
      /\ \A k \in 1 .. 1 : T.screen[(start + k - 1) % Size]
                             = [char |-> <<g>>[k], color |-> S.color]
      /\ \A m \in Place : (\A k \in 1 .. 1 : m # (start + k - 1) % Size)
                            => T.screen[m] = S.screen[m]
  BY <1>3 DEF Wrote, start
<1>6. T.screen[start] = [char |-> g, color |-> S.color]
  <2>1. 1 \in 1 .. 1
    OBVIOUS
  <2>2. T.screen[(start + 1 - 1) % Size] = [char |-> <<g>>[1], color |-> S.color]
    BY <1>5, <2>1
  <2>3. QED
    BY <1>3, <1>4, <2>2
<1>7. SameBut(S, T, start)
  <2>1. \A k \in 1 .. 1 : (start + k - 1) % Size = start
    <3>1. \A k \in 1 .. 1 : k = 1
      OBVIOUS
    <3>2. QED
      BY <1>4, <3>1
  <2>2. QED
    BY <1>5, <2>1 DEF SameBut
<1>8. ASSUME S.x + 1 < NUM_COLUMNS
      PROVE  T.x = S.x + 1 /\ T.y = S.y
  <2>1. S.x + 1 \in Column
    BY <1>1, <1>8, ScreenSize DEF Column
  <2>2. at(S.x + 1, S.y) \in Place
    BY <1>1, <2>1, PlaceFacts
  <2>3. at(S.x + 1, S.y) = start + 1
    <3>1. S.x \in Nat /\ S.y \in Nat /\ NUM_COLUMNS \in Nat
      BY <1>1, ScreenSize DEF Column, Row
    <3>2. S.y * NUM_COLUMNS \in Nat
      BY <3>1, Z3
    <3>3. QED
      BY <3>1, <3>2 DEF at, start
  <2>4. start + 1 < Size
    BY <1>2, <2>2, <2>3 DEF Place
  <2>5. at(T.x, T.y) = at(S.x + 1, S.y)
    BY <1>4, <1>5, <2>3, <2>4
  <2>6. QED
    BY <1>1, <2>1, <2>5, PlaceFacts
<1>9. QED
  BY <1>1, <1>5, <1>6, <1>7, <1>8 DEF start

\* The calls of a frame are calls.
LEMMA CallTypes ==
  /\ \A i \in Column, r \in Row : gotoxy(i, r) \in Call
  /\ \A g \in Color : set_color(g) \in Call
  /\ \A g \in Glyph : write(<<g>>) \in Call
<1>1. \A g \in Glyph : <<g>> \in Seq(Glyph) /\ Len(<<g>>) <= Size
  BY ScreenSize
<1>2. QED
  BY <1>1 DEF Call, gotoxy, set_color, write

\* Calls that write one character each, and each after they put the cursor beside
\* the board, leave the board alone.
LEMMA CallsBeside ==
  ASSUME NEW f, NEW cs \in Seq(Call),
         \A k \in 1 .. Len(cs) : cs[k].op = "write" =>
            /\ \E g \in Glyph : cs[k] = write(<<g>>)
            /\ k > 1 /\ cs[k - 1].op = "gotoxy" /\ Beside(cs[k - 1].x, cs[k - 1].y)
  PROVE  Draws(Shows(f), cs, Shows(f))
<1> DEFINE A == [k \in 0 .. Len(cs) |->
                   IF k > 0 /\ cs[k].op = "gotoxy"
                   THEN {S \in Shows(f) : S.x = cs[k].x /\ S.y = cs[k].y}
                   ELSE Shows(f)]
<1>1. Len(cs) \in Nat
  BY LenProperties
<1>2. /\ A \in [0 .. Len(cs) -> SUBSET Display]
      /\ A[0] = Shows(f) /\ A[Len(cs)] \subseteq Shows(f)
      /\ \A k \in 0 .. Len(cs) : A[k] \subseteq Shows(f)
      /\ \A k \in 1 .. Len(cs) :
           A[k] = IF cs[k].op = "gotoxy"
                  THEN {S \in Shows(f) : S.x = cs[k].x /\ S.y = cs[k].y}
                  ELSE Shows(f)
  BY <1>1 DEF Shows
<1> HIDE DEF A
<1>3. ASSUME NEW k \in 1 .. Len(cs)
      PROVE  Leads(A[k - 1], cs[k], A[k])
  <2> SUFFICES ASSUME NEW S \in A[k - 1], NEW T \in Display, Did(S, cs[k], T)
               PROVE  T \in A[k]
    BY DEF Leads
  <2>1. S \in Shows(f) /\ cs[k] \in Call
    <3>1. k - 1 \in 0 .. Len(cs)
      BY <1>1
    <3>2. QED
      BY <1>2, <3>1, ElementOfSeq
  <2>2. CASE cs[k].op = "gotoxy"
    <3>1. T = [x |-> cs[k].x, y |-> cs[k].y, color |-> S.color, screen |-> S.screen]
      BY <2>2 DEF Did
    <3>2. T \in Shows(f) /\ T.x = cs[k].x /\ T.y = cs[k].y
      BY <2>1, <3>1 DEF Shows
    <3>3. QED
      BY <1>2, <2>2, <3>2
  <2>3. CASE cs[k].op = "set_color"
    <3>1. T.screen = S.screen
      BY <2>3 DEF Did
    <3>2. T \in Shows(f)
      BY <2>1, <3>1 DEF Shows
    <3>3. QED
      BY <1>2, <2>3, <3>2
  <2>4. CASE cs[k].op = "write"
    <3>1. PICK g \in Glyph : cs[k] = write(<<g>>)
      BY <2>4
    <3>2. k > 1 /\ cs[k - 1].op = "gotoxy" /\ Beside(cs[k - 1].x, cs[k - 1].y)
      BY <2>4
    <3>3. k - 1 \in 1 .. Len(cs)
      BY <1>1, <3>2
    <3>4. S.x = cs[k - 1].x /\ S.y = cs[k - 1].y
      BY <1>2, <3>2, <3>3
    <3>5. Wrote(S, <<g>>, T) /\ S \in Display
      <4>1. cs[k].op = "write" /\ cs[k].buffer = <<g>>
        BY <3>1 DEF write
      <4>2. Wrote(S, <<g>>, T)
        BY <4>1 DEF Did
      <4>3. S \in Display
        BY <2>1 DEF Shows
      <4>4. QED
        BY <4>2, <4>3
    <3>6. ASSUME NEW c \in Square
          PROVE  T.screen[spot(c)] = S.screen[spot(c)]
      <4>1. spot(c) \in Place /\ spot(c) # at(S.x, S.y)
        BY <3>2, <3>4, SpotFacts DEF Beside
      <4>2. SameBut(S, T, at(S.x, S.y))
        BY <3>5, WroteOne, Zenon
      <4>3. QED
        BY <4>1, <4>2 DEF SameBut
    <3>7. T \in Shows(f)
      BY <2>1, <3>6 DEF Shows
    <3>8. QED
      BY <1>2, <2>4, <3>7
  <2>5. QED
    BY <2>1, <2>2, <2>3, <2>4 DEF Call
<1>4. QED
  BY <1>1, <1>2, <1>3 DEF Draws, Outline

\* Fewer displays to start from, more to end in.
LEMMA DrawsWeaker ==
  ASSUME NEW P, NEW Q, NEW cs, NEW P1, NEW Q1, Draws(P, cs, Q),
         P1 \subseteq P, Q \subseteq Q1
  PROVE  Draws(P1, cs, Q1)
<1>1. PICK A : Outline(A, cs) /\ P \subseteq A[0] /\ A[Len(cs)] \subseteq Q
  BY DEF Draws
<1>2. P1 \subseteq A[0] /\ A[Len(cs)] \subseteq Q1
  BY <1>1
<1>3. QED
  BY <1>1, <1>2 DEF Draws

\* Two calls, and three.
LEMMA TwoCalls ==
  ASSUME NEW c \in Call, NEW d \in Call, NEW P \in SUBSET Display,
         NEW Q \in SUBSET Display, NEW R \in SUBSET Display,
         Leads(P, c, Q), Leads(Q, d, R)
  PROVE  Draws(P, <<c, d>>, R)
<1>1. Draws(P, <<c>>, Q) /\ Draws(Q, <<d>>, R)
  BY OneCall
<1>2. <<c, d>> = <<c>> \o <<d>>
  <2>1. /\ <<c>> \in Seq(Call) /\ Len(<<c>>) = 1 /\ <<c>>[1] = c
        /\ <<d>> \in Seq(Call) /\ Len(<<d>>) = 1 /\ <<d>>[1] = d
        /\ <<c, d>> \in Seq(Call) /\ Len(<<c, d>>) = 2
        /\ <<c, d>>[1] = c /\ <<c, d>>[2] = d
    OBVIOUS
  <2>2. /\ <<c>> \o <<d>> \in Seq(Call) /\ Len(<<c>> \o <<d>>) = 2
        /\ (<<c>> \o <<d>>)[1] = c /\ (<<c>> \o <<d>>)[2] = d
    BY <2>1, ConcatProperties
  <2>3. \A i \in 1 .. 2 : i = 1 \/ i = 2
    OBVIOUS
  <2>4. \A i \in 1 .. 2 : <<c, d>>[i] = (<<c>> \o <<d>>)[i]
    BY <2>1, <2>2, <2>3
  <2>5. QED
    BY <2>1, <2>2, <2>4, SeqEqual
<1>3. QED
  BY <1>1, <1>2, CallsThenCalls

\* An outline of a function that makes three calls, from what holds between them.
LEMMA ThreeCalls ==
  ASSUME NEW c \in Call, NEW d \in Call, NEW e \in Call, NEW P \in SUBSET Display,
         NEW Q \in SUBSET Display, NEW R \in SUBSET Display, NEW U \in SUBSET Display,
         Leads(P, c, Q), Leads(Q, d, R), Leads(R, e, U)
  PROVE  Draws(P, <<c, d, e>>, U)
<1>1. Draws(P, <<c, d>>, R) /\ Draws(R, <<e>>, U)
  BY OneCall, TwoCalls
<1>2. <<c, d, e>> = <<c, d>> \o <<e>>
  OBVIOUS
<1>3. QED
  BY <1>1, <1>2, CallsThenCalls

\* A unit is drawn over what its cell showed.
LEMMA UnitDrawn ==
  ASSUME NEW f \in [Square -> Glyph], NEW cell \in Square, NEW unit \in Glyph \cap Color
  PROVE  Draws(Shows(f), print_unit(cell, unit), Shows([f EXCEPT ![cell] = unit]))
<1> DEFINE i == LEFT + cell[2]
           r == TOP + cell[1]
           new == [f EXCEPT ![cell] = unit]
           Q == {S \in Shows(f) : S.x = i /\ S.y = r}
           R == {S \in Q : S.color = unit}
<1>1. i \in Column /\ r \in Row /\ spot(cell) = at(i, r)
  BY SpotFacts DEF spot
<1>2. gotoxy(i, r) \in Call /\ set_color(unit) \in Call /\ write(<<unit>>) \in Call
  BY <1>1, CallTypes
<1>3. Shows(f) \in SUBSET Display /\ Shows(new) \in SUBSET Display
      /\ Q \in SUBSET Display /\ R \in SUBSET Display
  BY DEF Shows
<1> HIDE DEF i, r
<1>4. Leads(Shows(f), gotoxy(i, r), Q)
  BY DEF Leads, Did, gotoxy, Shows
<1>5. Leads(Q, set_color(unit), R)
  BY DEF Leads, Did, set_color, Shows
<1>6. Leads(R, write(<<unit>>), Shows(new))
  <2> SUFFICES ASSUME NEW S \in R, NEW T \in Display, Wrote(S, <<unit>>, T)
               PROVE  T \in Shows(new)
    BY DEF Leads, Did, write
  <2>1. S \in Display /\ at(S.x, S.y) = spot(cell) /\ S.color = unit
        /\ \A c \in Square : S.screen[spot(c)] = [char |-> f[c], color |-> f[c]]
    BY <1>1 DEF Shows
  <2>2. /\ T.screen[spot(cell)] = [char |-> unit, color |-> unit]
        /\ SameBut(S, T, spot(cell))
    BY <2>1, WroteOne
  <2>3. ASSUME NEW c \in Square
        PROVE  T.screen[spot(c)] = [char |-> new[c], color |-> new[c]]
    <3>1. CASE c = cell
      BY <2>2, <3>1
    <3>2. CASE c # cell
      <4>1. spot(c) \in Place /\ spot(c) # spot(cell) /\ new[c] = f[c]
        BY <3>2, SpotFacts
      <4>2. QED
        BY <2>1, <2>2, <4>1 DEF SameBut
    <3>3. QED
      BY <3>1, <3>2
  <2>4. QED
    BY <2>3 DEF Shows
<1> HIDE DEF Q, R, new
<1>7. Draws(Shows(f), <<gotoxy(i, r), set_color(unit), write(<<unit>>)>>, Shows(new))
  BY <1>2, <1>3, <1>4, <1>5, <1>6, ThreeCalls
<1>8. QED
  BY <1>7 DEF print_unit, i, r, new

-----------------------------------------------------------------------------
(* The screen: the map.                                                    *)

\* The cells of picture p, by where they are on the board.
CellsOf(p) == [c \in Square |-> p.cells[c[1] + 1][c[2] + 1]]

\* Displays that show the first i rows of p,
Rows(p, i) ==
  {S \in Display : \A c \in Square : c[1] < i =>
     S.screen[spot(c)] = [char |-> CellsOf(p)[c], color |-> CellsOf(p)[c]]}

\* and those that show the first j cells of row i, too, with the cursor behind them.
RowTo(p, i, j) ==
  {S \in Rows(p, i - 1) :
     /\ S.x = LEFT + j /\ S.y = TOP + i - 1
     /\ \A c \in Square : c[1] = i - 1 /\ c[2] < j =>
          S.screen[spot(c)] = [char |-> CellsOf(p)[c], color |-> CellsOf(p)[c]]}

\* The glyph of a cell is one, and the cells of the board are numbered from 0.
LEMMA PictureFacts ==
  ASSUME NEW p \in Picture
  PROVE  /\ CellsOf(p) \in [Square -> Glyph \cap Color]
         /\ \A i \in 1 .. ROWS, j \in 1 .. COLUMNS :
              /\ <<i - 1, j - 1>> \in Square
              /\ CellsOf(p)[<<i - 1, j - 1>>] = p.cells[i][j]
              /\ p.cells[i][j] \in Glyph /\ p.cells[i][j] \in Color
         /\ p.pacman \in Square /\ p.phantom \in Seq(Square)
         /\ "pacman" \in Glyph \cap Color /\ "phantom" \in Glyph \cap Color
<1>1. /\ p.pacman \in Square /\ p.phantom \in Seq(Square)
      /\ \A i \in 1 .. ROWS, j \in 1 .. COLUMNS : p.cells[i][j] \in Glyph \cap Color
      /\ "pacman" \in Glyph \cap Color /\ "phantom" \in Glyph \cap Color
  BY ScreenAssumption
<1>2. ASSUME NEW c \in Square
      PROVE  p.cells[c[1] + 1][c[2] + 1] \in Glyph \cap Color
  <2>1. c[1] + 1 \in 1 .. ROWS /\ c[2] + 1 \in 1 .. COLUMNS
    BY SpotFacts, LayoutFacts
  <2>2. QED
    BY <1>1, <2>1
<1>3. CellsOf(p) \in [Square -> Glyph \cap Color]
  BY <1>2 DEF CellsOf
<1>4. ASSUME NEW i \in 1 .. ROWS, NEW j \in 1 .. COLUMNS
      PROVE  /\ <<i - 1, j - 1>> \in Square
             /\ CellsOf(p)[<<i - 1, j - 1>>] = p.cells[i][j]
  <2>1. <<i - 1, j - 1>> \in Square
    BY LayoutFacts DEF Square
  <2>2. (i - 1) + 1 = i /\ (j - 1) + 1 = j
    BY LayoutFacts
  <2>3. CellsOf(p)[<<i - 1, j - 1>>] = p.cells[(i - 1) + 1][(j - 1) + 1]
    BY <2>1 DEF CellsOf
  <2>4. QED
    BY <2>1, <2>2, <2>3
<1>5. QED
  BY <1>1, <1>3, <1>4

\* A cell of the board is drawn at the cursor, in its color: the cells shown
\* before it stay as they are, and it is shown too.
LEMMA CellDrawn ==
  ASSUME NEW p \in Picture, NEW i \in 1 .. ROWS, NEW j \in 1 .. COLUMNS
  PROVE  Draws(RowTo(p, i, j - 1), <<set_color(p.cells[i][j]), write(<<p.cells[i][j]>>)>>,
               RowTo(p, i, j))
<1> DEFINE g == p.cells[i][j]
           f == CellsOf(p)
           cell == <<i - 1, j - 1>>
           P == RowTo(p, i, j - 1)
           Q == {S \in P : S.color = g}
           U == RowTo(p, i, j)
<1>1. g \in Glyph /\ g \in Color /\ cell \in Square /\ f[cell] = g
  BY PictureFacts
<1>2. set_color(g) \in Call /\ write(<<g>>) \in Call
  BY <1>1, CallTypes
<1>3. P \in SUBSET Display /\ Q \in SUBSET Display /\ U \in SUBSET Display
  BY DEF RowTo, Rows
<1> HIDE DEF g
<1>4. Leads(P, set_color(g), Q)
  BY DEF Leads, Did, set_color, RowTo, Rows
<1>5. Leads(Q, write(<<g>>), U)
  <2> SUFFICES ASSUME NEW S \in Q, NEW T \in Display, Wrote(S, <<g>>, T)
               PROVE  T \in U
    BY DEF Leads, Did, write
  <2>1. /\ S \in Display /\ S.color = g
        /\ S.x = LEFT + (j - 1) /\ S.y = TOP + i - 1
        /\ \A c \in Square : c[1] < i - 1 \/ (c[1] = i - 1 /\ c[2] < j - 1) =>
             S.screen[spot(c)] = [char |-> f[c], color |-> f[c]]
    BY DEF RowTo, Rows
  <2>2. /\ S.x + 1 = LEFT + j /\ S.x + 1 < NUM_COLUMNS
        /\ at(S.x, S.y) = spot(cell)
    <3>1. /\ S.x = LEFT + cell[2] /\ S.y = TOP + cell[1]
          /\ S.x + 1 = LEFT + j /\ LEFT + j < NUM_COLUMNS
      BY <2>1, LayoutFacts
    <3>2. QED
      BY <3>1 DEF spot
  <2>3. /\ T.screen[spot(cell)] = [char |-> g, color |-> g]
        /\ SameBut(S, T, spot(cell))
        /\ T.x = LEFT + j /\ T.y = TOP + i - 1
    BY <1>1, <2>1, <2>2, WroteOne
  <2>4. ASSUME NEW c \in Square, c[1] < i - 1 \/ (c[1] = i - 1 /\ c[2] < j)
        PROVE  T.screen[spot(c)] = [char |-> f[c], color |-> f[c]]
    <3>1. CASE c = cell
      BY <1>1, <2>3, <3>1
    <3>2. CASE c # cell
      <4>1. spot(c) \in Place /\ spot(c) # spot(cell)
        BY <1>1, <3>2, SpotFacts
      <4>2. c[1] < i - 1 \/ (c[1] = i - 1 /\ c[2] < j - 1)
        <5>1. /\ c = <<c[1], c[2]>> /\ c[1] \in Int /\ c[2] \in Int
          BY SpotFacts, LayoutFacts
        <5>2. ~(c[1] = i - 1 /\ c[2] = j - 1)
          BY <3>2, <5>1
        <5>3. QED
          BY <2>4, <5>1, <5>2, LayoutFacts
      <4>3. QED
        BY <2>1, <2>3, <4>1, <4>2 DEF SameBut
    <3>3. QED
      BY <3>1, <3>2
  <2>5. QED
    BY <2>3, <2>4 DEF RowTo, Rows
<1> HIDE DEF P, Q, U
<1>6. Draws(P, <<set_color(g), write(<<g>>)>>, U)
  BY <1>2, <1>3, <1>4, <1>5, TwoCalls
<1>7. QED
  BY <1>6 DEF g, P, U

\* A row, wherever the cursor was before.
LEMMA RowDrawn ==
  ASSUME NEW p \in Picture, NEW i \in 1 .. ROWS
  PROVE  Draws(Rows(p, i - 1),
               <<gotoxy(LEFT, TOP + i - 1)>> \o
                 FlattenSeq([j \in 1 .. COLUMNS |->
                   <<set_color(p.cells[i][j]), write(<<p.cells[i][j]>>)>>]),
               Rows(p, i))
<1> DEFINE ss == [j \in 1 .. COLUMNS |->
                    <<set_color(p.cells[i][j]), write(<<p.cells[i][j]>>)>>]
           I == [j \in 0 .. COLUMNS |-> RowTo(p, i, j)]
           move == gotoxy(LEFT, TOP + i - 1)
<1>1. move \in Call
  <2>1. LEFT \in Column /\ TOP + i - 1 \in Row
    BY LayoutFacts DEF Column, Row
  <2>2. QED
    BY <2>1, CallTypes
<1>2. /\ Rows(p, i - 1) \in SUBSET Display
      /\ \A j \in 0 .. COLUMNS : RowTo(p, i, j) \in SUBSET Display
  BY DEF Rows, RowTo
<1>3. Leads(Rows(p, i - 1), move, RowTo(p, i, 0))
  <2> SUFFICES ASSUME NEW S \in Rows(p, i - 1), NEW T \in Display, Did(S, move, T)
               PROVE  T \in RowTo(p, i, 0)
    BY DEF Leads
  <2>1. T.x = LEFT /\ T.y = TOP + i - 1 /\ T.screen = S.screen
    BY DEF Did, gotoxy
  <2>2. T \in Rows(p, i - 1)
    BY <2>1 DEF Rows
  <2>3. LEFT + 0 = LEFT
    BY LayoutFacts
  <2>4. \A c \in Square : ~(c[2] < 0)
    BY SpotFacts, LayoutFacts
  <2>5. QED
    BY <2>1, <2>2, <2>3, <2>4 DEF RowTo
<1>4. Draws(Rows(p, i - 1), <<move>>, RowTo(p, i, 0))
  <2>1. 0 \in 0 .. COLUMNS
    BY LayoutFacts
  <2>2. RowTo(p, i, 0) \in SUBSET Display
    BY <1>2, <2>1
  <2> HIDE DEF move
  <2>3. QED
    BY <1>1, <1>2, <1>3, <2>2, OneCall
<1>5. ss \in Seq(Seq(Call)) /\ Len(ss) = COLUMNS
  <2>1. \A j \in 1 .. COLUMNS : ss[j] \in Seq(Call)
    <3> SUFFICES ASSUME NEW j \in 1 .. COLUMNS
                 PROVE  <<set_color(p.cells[i][j]), write(<<p.cells[i][j]>>)>> \in Seq(Call)
      OBVIOUS
    <3>1. QED
      BY CellDrawn DEF Draws
  <2>2. ss \in [1 .. COLUMNS -> Seq(Call)]
    BY <2>1
  <2> HIDE DEF ss
  <2>3. QED
    BY <2>2, LayoutFacts, SeqDef, LenProperties
<1>6. I \in [0 .. Len(ss) -> SUBSET Display]
  BY <1>2, <1>5
<1>7. \A j \in 1 .. Len(ss) : Draws(I[j - 1], ss[j], I[j])
  <2> SUFFICES ASSUME NEW j \in 1 .. COLUMNS
               PROVE  Draws(I[j - 1], ss[j], I[j])
    BY <1>5
  <2>1. I[j - 1] = RowTo(p, i, j - 1) /\ I[j] = RowTo(p, i, j)
    BY LayoutFacts
  <2>2. ss[j] = <<set_color(p.cells[i][j]), write(<<p.cells[i][j]>>)>>
    OBVIOUS
  <2> HIDE DEF I, ss
  <2>3. QED
    BY <2>1, <2>2, CellDrawn
<1>8. I[0] = RowTo(p, i, 0) /\ I[COLUMNS] = RowTo(p, i, COLUMNS)
  BY LayoutFacts
<1> HIDE DEF I, ss, move
<1>9. Draws(RowTo(p, i, 0), FlattenSeq(ss), RowTo(p, i, COLUMNS))
  BY <1>5, <1>6, <1>7, <1>8, CallsInTurn
<1>10. RowTo(p, i, COLUMNS) \subseteq Rows(p, i)
  <2> SUFFICES ASSUME NEW S \in RowTo(p, i, COLUMNS), NEW c \in Square, c[1] < i
               PROVE  S.screen[spot(c)] = [char |-> CellsOf(p)[c], color |-> CellsOf(p)[c]]
    BY DEF Rows, RowTo
  <2>1. c[1] < i - 1 \/ (c[1] = i - 1 /\ c[2] < COLUMNS)
    BY SpotFacts, LayoutFacts
  <2>2. QED
    BY <2>1 DEF RowTo, Rows
<1>11. Draws(RowTo(p, i, 0), FlattenSeq(ss), Rows(p, i))
  BY <1>9, <1>10, DrawsWeaker
<1>12. Draws(Rows(p, i - 1), <<move>> \o FlattenSeq(ss), Rows(p, i))
  BY <1>4, <1>11, CallsThenCalls
<1>13. QED
  BY <1>12 DEF move, ss

\* The map, whatever was on the screen before.
LEMMA MapDrawn ==
  ASSUME NEW p \in Picture
  PROVE  Draws(Display, print_map(p), Shows(CellsOf(p)))
<1> DEFINE row(i) == <<gotoxy(LEFT, TOP + i - 1)>> \o
                       FlattenSeq([j \in 1 .. COLUMNS |->
                         <<set_color(p.cells[i][j]), write(<<p.cells[i][j]>>)>>])
           ss == [i \in 1 .. ROWS |-> row(i)]
           I == [i \in 0 .. ROWS |-> Rows(p, i)]
<1>1. print_map(p) = FlattenSeq(ss)
  BY DEF print_map
<1>2. \A i \in 1 .. ROWS : Draws(Rows(p, i - 1), row(i), Rows(p, i))
  BY RowDrawn
<1> HIDE DEF row
<1>3. ss \in Seq(Seq(Call)) /\ Len(ss) = ROWS
  <2>1. \A i \in 1 .. ROWS : row(i) \in Seq(Call)
    BY <1>2 DEF Draws
  <2>2. ss \in [1 .. ROWS -> Seq(Call)]
    BY <2>1
  <2> HIDE DEF ss
  <2>3. QED
    BY <2>2, LayoutFacts, SeqDef, LenProperties
<1>4. I \in [0 .. Len(ss) -> SUBSET Display]
  BY <1>3 DEF Rows
<1>5. \A i \in 1 .. Len(ss) : Draws(I[i - 1], ss[i], I[i])
  <2> SUFFICES ASSUME NEW i \in 1 .. ROWS
               PROVE  Draws(I[i - 1], ss[i], I[i])
    BY <1>3
  <2>1. I[i - 1] = Rows(p, i - 1) /\ I[i] = Rows(p, i) /\ ss[i] = row(i)
    BY LayoutFacts
  <2> HIDE DEF I, ss
  <2>2. QED
    BY <1>2, <2>1
<1>6. I[0] = Rows(p, 0) /\ I[ROWS] = Rows(p, ROWS)
  BY LayoutFacts
<1> HIDE DEF I, ss
<1>7. Draws(Rows(p, 0), FlattenSeq(ss), Rows(p, ROWS))
  BY <1>3, <1>4, <1>5, <1>6, CallsInTurn
<1>8. Display \subseteq Rows(p, 0) /\ Rows(p, ROWS) \subseteq Shows(CellsOf(p))
  <2>1. \A c \in Square : ~(c[1] < 0) /\ c[1] < ROWS
    BY SpotFacts, LayoutFacts
  <2>2. QED
    BY <2>1 DEF Rows, Shows
<1>9. QED
  BY <1>1, <1>7, <1>8, DrawsWeaker

-----------------------------------------------------------------------------
(* The screen: the phases.                                                 *)

\* What the board shows with the pacman and the first k phantoms of p,
UnitsTo(p, k) ==
  [c \in Square |-> IF \E i \in 1 .. k : p.phantom[i] = c THEN "phantom"
                    ELSE IF c = p.pacman THEN "pacman" ELSE CellsOf(p)[c]]

\* and with all.
Full(p) == UnitsTo(p, Len(p.phantom))

\* The units are drawn over the board, Pac-Man first and the phantoms in order.
LEMMA UnitsDrawn ==
  ASSUME NEW p \in Picture
  PROVE  Draws(Shows(CellsOf(p)), print_units(p), Shows(Full(p)))
<1> DEFINE n == Len(p.phantom)
           ss == [i \in 1 .. n |-> print_unit(p.phantom[i], "phantom")]
           I == [k \in 0 .. n |-> Shows(UnitsTo(p, k))]
<1>1. /\ CellsOf(p) \in [Square -> Glyph] /\ p.pacman \in Square
      /\ "pacman" \in Glyph \cap Color /\ "phantom" \in Glyph \cap Color
      /\ n \in Nat /\ \A i \in 1 .. n : p.phantom[i] \in Square
  BY PictureFacts, LenProperties, ElementOfSeq
<1>2. \A k \in 0 .. n : UnitsTo(p, k) \in [Square -> Glyph]
  BY <1>1 DEF UnitsTo
<1> HIDE DEF n
<1>3. [CellsOf(p) EXCEPT ![p.pacman] = "pacman"] = UnitsTo(p, 0)
  <2>1. \A c \in Square : ~(\E i \in 1 .. 0 : p.phantom[i] = c)
    OBVIOUS
  <2>2. UnitsTo(p, 0) = [c \in Square |-> IF c = p.pacman THEN "pacman" ELSE CellsOf(p)[c]]
    BY <2>1 DEF UnitsTo
  <2>3. QED
    BY <1>1, <2>2
<1>4. ASSUME NEW k \in 1 .. n
      PROVE  [UnitsTo(p, k - 1) EXCEPT ![p.phantom[k]] = "phantom"] = UnitsTo(p, k)
  <2>1. ASSUME NEW c \in Square
        PROVE  (\E i \in 1 .. k : p.phantom[i] = c)
                  <=> (\E i \in 1 .. k - 1 : p.phantom[i] = c) \/ p.phantom[k] = c
    <3>1. \A i \in Int : i \in 1 .. k <=> i \in 1 .. k - 1 \/ i = k
      OBVIOUS
    <3>2. QED
      BY <3>1
  <2>2. k - 1 \in 0 .. n
    BY <1>1
  <2>3. [UnitsTo(p, k - 1) EXCEPT ![p.phantom[k]] = "phantom"] \in [Square -> Glyph]
        /\ UnitsTo(p, k) \in [Square -> Glyph] /\ UnitsTo(p, k - 1) \in [Square -> Glyph]
    BY <1>1, <1>2, <2>2
  <2>4. ASSUME NEW c \in Square
        PROVE  [UnitsTo(p, k - 1) EXCEPT ![p.phantom[k]] = "phantom"][c] = UnitsTo(p, k)[c]
    <3>1. UnitsTo(p, k)[c] = IF (\E i \in 1 .. k - 1 : p.phantom[i] = c) \/ p.phantom[k] = c
                             THEN "phantom"
                             ELSE IF c = p.pacman THEN "pacman" ELSE CellsOf(p)[c]
      BY <2>1 DEF UnitsTo
    <3>2. UnitsTo(p, k - 1)[c] = IF \E i \in 1 .. k - 1 : p.phantom[i] = c
                                 THEN "phantom"
                                 ELSE IF c = p.pacman THEN "pacman" ELSE CellsOf(p)[c]
      BY DEF UnitsTo
    <3>3. [UnitsTo(p, k - 1) EXCEPT ![p.phantom[k]] = "phantom"][c] =
            IF c = p.phantom[k] THEN "phantom" ELSE UnitsTo(p, k - 1)[c]
      BY <2>3
    <3>4. QED
      BY <3>1, <3>2, <3>3
  <2>5. QED
    BY <2>3, <2>4
<1>5. Draws(Shows(CellsOf(p)), print_unit(p.pacman, "pacman"), Shows(UnitsTo(p, 0)))
  BY <1>1, <1>3, UnitDrawn
<1>6. ASSUME NEW k \in 1 .. n
      PROVE  Draws(Shows(UnitsTo(p, k - 1)), print_unit(p.phantom[k], "phantom"),
                   Shows(UnitsTo(p, k)))
  <2>1. UnitsTo(p, k - 1) \in [Square -> Glyph] /\ p.phantom[k] \in Square
    BY <1>1, <1>2
  <2>2. QED
    BY <1>1, <1>4, <2>1, UnitDrawn
<1>7. ss \in Seq(Seq(Call)) /\ Len(ss) = n
  <2>1. \A k \in 1 .. n : print_unit(p.phantom[k], "phantom") \in Seq(Call)
    BY <1>6 DEF Draws
  <2>2. ss \in [1 .. n -> Seq(Call)]
    BY <2>1
  <2> HIDE DEF ss
  <2>3. QED
    BY <1>1, <2>2, SeqDef, LenProperties
<1>8. I \in [0 .. Len(ss) -> SUBSET Display]
  BY <1>7 DEF Shows
<1>9. \A k \in 1 .. Len(ss) : Draws(I[k - 1], ss[k], I[k])
  <2> SUFFICES ASSUME NEW k \in 1 .. n
               PROVE  Draws(I[k - 1], ss[k], I[k])
    BY <1>7
  <2>1. /\ I[k - 1] = Shows(UnitsTo(p, k - 1)) /\ I[k] = Shows(UnitsTo(p, k))
        /\ ss[k] = print_unit(p.phantom[k], "phantom")
    BY <1>1
  <2> HIDE DEF I, ss
  <2>2. QED
    BY <1>6, <2>1
<1>10. I[0] = Shows(UnitsTo(p, 0)) /\ I[n] = Shows(UnitsTo(p, n))
  BY <1>1
<1>11. print_units(p) = print_unit(p.pacman, "pacman") \o FlattenSeq(ss)
  BY DEF print_units, n
<1> HIDE DEF I, ss
<1>12. Draws(Shows(UnitsTo(p, 0)), FlattenSeq(ss), Shows(UnitsTo(p, n)))
  BY <1>7, <1>8, <1>9, <1>10, CallsInTurn
<1>13. QED
  BY <1>5, <1>11, <1>12, CallsThenCalls DEF Full, n

\* A frame, with the numbers beside it, whatever was on the screen before.
LEMMA FrameDrawn ==
  ASSUME NEW p \in Picture
  PROVE  Draws(Display, print_frame(p), Shows(Full(p)))
<1> DEFINE cs == << gotoxy(1, TOP - 1), write(<<"digit">>),
                    set_color("surround"), gotoxy(1, TOP - 1), write(<<"space">>),
                    set_color("phantom"), gotoxy(LABEL, TOP), write(<<"digit">>) >>
<1>1. /\ 1 \in Column /\ TOP - 1 \in Row /\ LABEL \in Column /\ TOP \in Row
      /\ Beside(1, TOP - 1) /\ Beside(LABEL, TOP)
  <2>1. 1 \in Column /\ TOP - 1 \in Row /\ LABEL \in Column /\ TOP \in Row
    BY LayoutFacts DEF Column, Row
  <2>2. TOP - 1 < TOP /\ LABEL >= LEFT + COLUMNS
    BY LayoutFacts
  <2>3. QED
    BY <2>1, <2>2, BesideFacts
<1>2. /\ "digit" \in Glyph /\ "space" \in Glyph /\ "surround" \in Color
      /\ "phantom" \in Color
  BY ScreenAssumption
<1>3. /\ gotoxy(1, TOP - 1) \in Call /\ gotoxy(LABEL, TOP) \in Call
      /\ set_color("surround") \in Call /\ set_color("phantom") \in Call
      /\ write(<<"digit">>) \in Call /\ write(<<"space">>) \in Call
  BY <1>1, <1>2, CallTypes
<1>4. cs \in Seq(Call) /\ Len(cs) = 8
  BY <1>3
<1>5. ASSUME NEW k \in 1 .. Len(cs), cs[k].op = "write"
      PROVE  /\ \E g \in Glyph : cs[k] = write(<<g>>)
             /\ k > 1 /\ cs[k - 1].op = "gotoxy" /\ Beside(cs[k - 1].x, cs[k - 1].y)
  <2>1. k \in {1, 2, 3, 4, 5, 6, 7, 8}
    BY <1>4
  <2>2. k \in {2, 5, 8}
    <3>1. k \notin {1, 3, 4, 6, 7}
      BY <1>5 DEF gotoxy, set_color
    <3>2. QED
      BY <2>1, <3>1
  <2>3. CASE k = 2
    BY <1>1, <1>2, <2>3 DEF gotoxy
  <2>4. CASE k = 5
    BY <1>1, <1>2, <2>4 DEF gotoxy
  <2>5. CASE k = 8
    BY <1>1, <1>2, <2>5 DEF gotoxy
  <2>6. QED
    BY <2>2, <2>3, <2>4, <2>5
<1>6. print_frame(p) = print_map(p) \o print_units(p) \o cs
  BY DEF print_frame
<1> HIDE DEF cs
<1>7. Draws(Shows(Full(p)), cs, Shows(Full(p)))
  BY <1>4, <1>5, CallsBeside
<1>8. Draws(Display, print_map(p) \o print_units(p), Shows(Full(p)))
  BY MapDrawn, UnitsDrawn, CallsThenCalls
<1>9. QED
  BY <1>6, <1>7, <1>8, CallsThenCalls

\* The screen is cleared and the lives are written by calls.
LEMMA PlainCalls ==
  clear_screen \in Seq(Call) /\ imprimir_coordenadas \in Seq(Call)
<1>1. /\ "digit" \in Glyph /\ "space" \in Glyph /\ "surround" \in Color
  BY ScreenAssumption
<1>2. /\ 0 \in Column /\ 0 \in Row
      /\ \A r \in 1 .. ROWS : TOP + r - 1 \in Row
  BY LayoutFacts DEF Column, Row
<1>3. /\ set_color("surround") \in Call /\ gotoxy(0, 0) \in Call
      /\ write(<<"space">>) \in Call /\ write(<<"digit">>) \in Call
      /\ \A r \in 1 .. ROWS : gotoxy(0, TOP + r - 1) \in Call
  BY <1>1, <1>2, CallTypes
<1>4. clear_screen \in Seq(Call)
  <2>1. [n \in 1 .. Size |-> write(<<"space">>)] \in Seq(Call)
    <3>1. [n \in 1 .. Size |-> write(<<"space">>)] \in [1 .. Size -> Call]
      BY <1>3
    <3>2. QED
      BY <3>1, ScreenSize, SeqDef
  <2>2. <<set_color("surround"), gotoxy(0, 0)>> \in Seq(Call)
    BY <1>3
  <2>3. QED
    BY <2>1, <2>2, ConcatProperties DEF clear_screen, Size
<1>5. imprimir_coordenadas \in Seq(Call)
  <2> DEFINE ss == [r \in 1 .. ROWS |-> <<gotoxy(0, TOP + r - 1), write(<<"digit">>)>>]
             I == [k \in 0 .. ROWS |-> Display]
  <2>1. ASSUME NEW r \in 1 .. ROWS
        PROVE  ss[r] \in Seq(Call)
    <3>1. gotoxy(0, TOP + r - 1) \in Call
      BY <1>3
    <3>2. <<gotoxy(0, TOP + r - 1), write(<<"digit">>)>> \in Seq(Call)
      BY <1>3, <3>1
    <3>3. QED
      BY <3>2
  <2>2. ss \in [1 .. ROWS -> Seq(Call)]
    BY <2>1
  <2>3. imprimir_coordenadas = FlattenSeq(ss)
    BY DEF imprimir_coordenadas
  <2> HIDE DEF ss
  <2>4. ss \in Seq(Seq(Call)) /\ Len(ss) = ROWS
    BY <2>2, LayoutFacts, SeqDef, LenProperties
  <2>5. \A k \in 1 .. Len(ss) : Draws(I[k - 1], ss[k], I[k])
    <3> SUFFICES ASSUME NEW k \in 1 .. ROWS PROVE Draws(I[k - 1], ss[k], I[k])
      BY <2>4
    <3>1. I[k - 1] = Display /\ I[k] = Display
      BY LayoutFacts
    <3> HIDE DEF I
    <3>2. QED
      BY <2>1, <3>1, AnyCalls
  <2>6. I \in [0 .. Len(ss) -> SUBSET Display]
    BY <2>4
  <2> HIDE DEF I
  <2>7. Draws(I[0], FlattenSeq(ss), I[Len(ss)])
    BY <2>4, <2>5, <2>6, CallsInTurn
  <2>8. QED
    BY <2>3, <2>7 DEF Draws
<1>6. QED
  BY <1>4, <1>5

\* A number, beside the board, and two.
LEMMA NumbersBeside ==
  ASSUME NEW f
  PROVE  /\ Draws(Shows(f), <<gotoxy(LABEL - 1, TOP), write(<<"digit">>)>>, Shows(f))
         /\ Draws(Shows(f), << gotoxy(LABEL - 1, TOP), write(<<"digit">>),
                               gotoxy(LABEL, TOP), write(<<"digit">>) >>, Shows(f))
<1> DEFINE cs == <<gotoxy(LABEL - 1, TOP), write(<<"digit">>)>>
           ds == << gotoxy(LABEL - 1, TOP), write(<<"digit">>),
                    gotoxy(LABEL, TOP), write(<<"digit">>) >>
<1>1. /\ LABEL - 1 \in Column /\ LABEL \in Column /\ TOP \in Row
      /\ Beside(LABEL - 1, TOP) /\ Beside(LABEL, TOP)
  <2>1. LABEL - 1 \in Column /\ LABEL \in Column /\ TOP \in Row
    BY LayoutFacts DEF Column, Row
  <2>2. LABEL - 1 >= LEFT + COLUMNS /\ LABEL >= LEFT + COLUMNS
    BY LayoutFacts
  <2>3. QED
    BY <2>1, <2>2, BesideFacts
<1>2. "digit" \in Glyph
  BY ScreenAssumption
<1>3. /\ gotoxy(LABEL - 1, TOP) \in Call /\ gotoxy(LABEL, TOP) \in Call
      /\ write(<<"digit">>) \in Call
  BY <1>1, <1>2, CallTypes
<1>4. cs \in Seq(Call) /\ Len(cs) = 2 /\ ds \in Seq(Call) /\ Len(ds) = 4
  BY <1>3
<1>5. ASSUME NEW k \in 1 .. Len(cs), cs[k].op = "write"
      PROVE  /\ \E g \in Glyph : cs[k] = write(<<g>>)
             /\ k > 1 /\ cs[k - 1].op = "gotoxy" /\ Beside(cs[k - 1].x, cs[k - 1].y)
  <2>1. k = 1 \/ k = 2
    BY <1>4
  <2>2. k = 2
    BY <1>5, <2>1 DEF gotoxy
  <2>3. QED
    BY <1>1, <1>2, <2>2 DEF gotoxy
<1>6. ASSUME NEW k \in 1 .. Len(ds), ds[k].op = "write"
      PROVE  /\ \E g \in Glyph : ds[k] = write(<<g>>)
             /\ k > 1 /\ ds[k - 1].op = "gotoxy" /\ Beside(ds[k - 1].x, ds[k - 1].y)
  <2>1. k = 1 \/ k = 2 \/ k = 3 \/ k = 4
    BY <1>4
  <2>2. k = 2 \/ k = 4
    BY <1>6, <2>1 DEF gotoxy
  <2>3. CASE k = 2
    BY <1>1, <1>2, <2>3 DEF gotoxy
  <2>4. CASE k = 4
    BY <1>1, <1>2, <2>4 DEF gotoxy
  <2>5. QED
    BY <2>2, <2>3, <2>4
<1> HIDE DEF cs, ds
<1>7. Draws(Shows(f), cs, Shows(f))
  BY <1>4, <1>5, CallsBeside
<1>8. Draws(Shows(f), ds, Shows(f))
  BY <1>4, <1>6, CallsBeside
<1>9. QED
  BY <1>7, <1>8 DEF cs, ds

\* Displays with the message.
Tells ==
  {S \in Display : \A k \in 1 .. Len(Message) :
     S.screen[at(LEFT, TOP) + k - 1] = [char |-> Message[k], color |-> "pacman"]}

\* At the end of a game the message is told, whatever the screen showed before.
LEMMA EndDrawn == Draws(Display, end_game, Tells)
<1> DEFINE Q == {S \in Display : S.color = "pacman"}
           R == {S \in Q : S.x = LEFT /\ S.y = TOP}
           start == at(LEFT, TOP)
<1>1. LEFT \in Column /\ TOP \in Row /\ "pacman" \in Color
  BY LayoutFacts, ScreenAssumption DEF Column, Row
<1>2. /\ Message \in Seq(Glyph) /\ Len(Message) \in Nat
      /\ start \in Nat /\ start + Len(Message) <= Size /\ Size \in Nat
  BY <1>1, PlaceFacts, ScreenAssumption, LenProperties, ScreenSize DEF Size, Place
<1>3. gotoxy(LEFT, TOP) \in Call /\ set_color("pacman") \in Call
      /\ write(Message) \in Call
  <2>1. write(Message) \in Call
    BY <1>2 DEF write, Call
  <2>2. QED
    BY <1>1, <2>1, CallTypes
<1>4. Leads(Display, set_color("pacman"), Q)
  BY DEF Leads, Did, set_color
<1>5. Leads(Q, gotoxy(LEFT, TOP), R)
  BY DEF Leads, Did, gotoxy
<1>6. Leads(R, write(Message), Tells)
  <2> SUFFICES ASSUME NEW S \in R, NEW T \in Display, Wrote(S, Message, T)
               PROVE  T \in Tells
    BY DEF Leads, Did, write
  <2>1. at(S.x, S.y) = start /\ S.color = "pacman"
    OBVIOUS
  <2> HIDE DEF start
  <2>2. ASSUME NEW k \in 1 .. Len(Message)
        PROVE  T.screen[start + k - 1] = [char |-> Message[k], color |-> "pacman"]
    <3>1. start + k - 1 \in Nat /\ start + k - 1 < Size /\ Size > 0
      BY <1>2
    <3>2. (start + k - 1) % Size = start + k - 1
      BY <1>2, <3>1, OnceRound
    <3>3. T.screen[(start + k - 1) % Size] = [char |-> Message[k], color |-> "pacman"]
      BY <2>1 DEF Wrote
    <3>4. QED
      BY <3>2, <3>3
  <2>3. QED
    BY <2>2 DEF Tells, start
<1>7. Q \in SUBSET Display /\ R \in SUBSET Display /\ Tells \in SUBSET Display
      /\ Display \in SUBSET Display
  BY DEF Tells
<1> HIDE DEF Q, R
<1>8. Draws(Display, <<set_color("pacman"), gotoxy(LEFT, TOP), write(Message)>>, Tells)
  BY <1>3, <1>4, <1>5, <1>6, <1>7, ThreeCalls
<1>9. Draws(Display, clear_screen, Display)
  BY PlainCalls, AnyCalls
<1>10. QED
  BY <1>8, <1>9, CallsThenCalls DEF end_game

Phase == {"start", "turn", "caught", "end"}

\* The calls of a phase with a picture,
CallsIn(ph, p) ==
  CASE ph = "start" -> init_game(p)
    [] ph = "turn" -> turn(p)
    [] ph = "caught" -> turn_caught(p)
    [] ph = "end" -> end_game

\* and what they are to bring on the screen.
Goal(ph, p) == IF ph = "end" THEN Tells ELSE Shows(Full(p))

\* The calls of every phase do, whatever was on the screen before.
LEMMA PhaseDrawn ==
  ASSUME NEW ph \in Phase, NEW p \in Picture
  PROVE  Draws(Display, CallsIn(ph, p), Goal(ph, p))
<1>1. Shows(Full(p)) \subseteq Display
  BY DEF Shows
<1>2. Draws(Display, turn(p), Shows(Full(p)))
  <2>1. Draws(Display, imprimir_coordenadas, Display)
    BY PlainCalls, AnyCalls
  <2>2. QED
    BY <2>1, FrameDrawn, CallsThenCalls DEF turn
<1>3. CASE ph = "start"
  <2>1. Draws(Display, clear_screen, Display)
    BY PlainCalls, AnyCalls
  <2>2. Draws(Display, clear_screen \o print_map(p), Shows(CellsOf(p)))
    BY <2>1, MapDrawn, CallsThenCalls
  <2>3. Draws(Display, clear_screen \o print_map(p) \o print_units(p), Shows(Full(p)))
    BY <2>2, UnitsDrawn, CallsThenCalls
  <2>4. Draws(Display, init_game(p), Shows(Full(p)))
    BY <2>3, NumbersBeside, CallsThenCalls DEF init_game
  <2>5. QED
    BY <1>3, <2>4 DEF CallsIn, Goal
<1>4. CASE ph = "turn"
  BY <1>2, <1>4 DEF CallsIn, Goal
<1>5. CASE ph = "caught"
  <2> DEFINE cs == <<gotoxy(LABEL - 1, TOP), write(<<"digit">>)>>
  <2>1. Draws(Display, turn(p) \o cs, Shows(Full(p)))
    <3>1. Draws(Shows(Full(p)), cs, Shows(Full(p)))
      BY NumbersBeside
    <3> HIDE DEF cs
    <3>2. QED
      BY <1>2, <3>1, CallsThenCalls
  <2>2. turn_caught(p) = turn(p) \o cs \o print_frame(p)
    BY DEF turn_caught
  <2> HIDE DEF cs
  <2>3. Draws(Shows(Full(p)), print_frame(p), Shows(Full(p)))
    BY <1>1, FrameDrawn, DrawsWeaker
  <2>4. Draws(Display, turn_caught(p), Shows(Full(p)))
    BY <2>1, <2>2, <2>3, CallsThenCalls
  <2>5. QED
    BY <1>5, <2>4 DEF CallsIn, Goal
<1>6. CASE ph = "end"
  BY <1>6, EndDrawn DEF CallsIn, Goal
<1>7. QED
  BY <1>3, <1>4, <1>5, <1>6 DEF Phase

-----------------------------------------------------------------------------
(* The screen: the invariant.                                              *)

\* Where an undisturbed phase has come, an outline of its calls says what is on
\* the screen.
OnTheWay ==
  ~disturbed => \E A : /\ Outline(A, calls)
                       /\ A[Len(calls)] \subseteq Goal(phase, picture)
                       /\ now \in A[done]

ScreenInv ==
  /\ ConsoleTypeOK
  /\ phase \in Phase /\ picture \in Picture
  /\ done \in 0 .. Len(calls)
  /\ written \in BOOLEAN /\ disturbed \in BOOLEAN
  /\ OnTheWay

\* Every phase starts on its way, whatever is on the screen.
LEMMA PhaseStarts ==
  ASSUME NEW ph \in Phase, NEW p \in Picture, NEW S \in Display
  PROVE  /\ CallsIn(ph, p) \in Seq(Call) /\ Len(CallsIn(ph, p)) \in Nat
         /\ \E A : /\ Outline(A, CallsIn(ph, p))
                   /\ A[Len(CallsIn(ph, p))] \subseteq Goal(ph, p)
                   /\ S \in A[0]
<1>1. Draws(Display, CallsIn(ph, p), Goal(ph, p))
  BY PhaseDrawn
<1>2. CallsIn(ph, p) \in Seq(Call)
  BY <1>1 DEF Draws
<1>3. QED
  BY <1>1, <1>2, LenProperties DEF Draws

\* Cursor, color and screen together are something to display.
LEMMA NowDisplays == ConsoleTypeOK => now \in Display
BY DEF ConsoleTypeOK, now, Display, Place, Size

\* The invariant holds before anything is drawn,
LEMMA ScreenInitSafe == ScreenInit => ScreenInv
<1> SUFFICES ASSUME ScreenInit PROVE ScreenInv
  OBVIOUS
<1>1. ConsoleTypeOK
  <2>1. 0 \in Column /\ NUM_ROWS - 1 \in Row /\ "surround" \in Color
    BY ScreenSize, ScreenAssumption DEF Column, Row
  <2>2. QED
    BY <2>1 DEF ScreenInit, ConsoleInit, ConsoleTypeOK
<1>2. phase \in Phase /\ picture \in Picture /\ done = 0
      /\ written \in BOOLEAN /\ disturbed \in BOOLEAN
  BY DEF ScreenInit, Phase
<1>3. calls = CallsIn(phase, picture)
  BY DEF calls, CallsIn
<1>4. now \in Display
  BY <1>1, NowDisplays
<1>5. /\ Len(calls) \in Nat
      /\ \E A : /\ Outline(A, calls)
                /\ A[Len(calls)] \subseteq Goal(phase, picture)
                /\ now \in A[0]
  BY <1>2, <1>3, <1>4, PhaseStarts
<1>6. QED
  BY <1>1, <1>2, <1>5 DEF ScreenInv, OnTheWay

\* after each call of the process that draws,
LEMMA DrawSafe == ScreenInv /\ draw => ScreenInv'
<1> SUFFICES ASSUME ScreenInv, draw PROVE ScreenInv'
  OBVIOUS
<1> DEFINE c == calls[done + 1]
<1>1. /\ ConsoleTypeOK /\ phase \in Phase /\ picture \in Picture
      /\ done \in 0 .. Len(calls) /\ done < Len(calls)
      /\ call(c) /\ done' = done + 1
      /\ phase' = phase /\ picture' = picture
      /\ written' = written /\ disturbed' = disturbed
      /\ written \in BOOLEAN /\ disturbed \in BOOLEAN
  BY DEF ScreenInv, draw
<1>2. calls = CallsIn(phase, picture) /\ calls' = CallsIn(phase', picture')
  BY DEF calls, CallsIn
<1>3. now \in Display
  BY <1>1, NowDisplays
<1>4. calls' = calls /\ calls \in Seq(Call) /\ Len(calls) \in Nat
  BY <1>1, <1>2, <1>3, PhaseStarts
<1>5. done + 1 \in 1 .. Len(calls) /\ (done + 1) - 1 = done
  BY <1>1, <1>4
<1>6. c \in Call
  BY <1>4, <1>5, ElementOfSeq
<1>7. ConsoleTypeOK' /\ now' \in Display /\ Did(now, c, now')
  BY <1>1, <1>6, CallDoes
<1>8. OnTheWay'
  <2> SUFFICES ASSUME ~disturbed'
               PROVE  \E A : /\ Outline(A, calls')
                             /\ A[Len(calls')] \subseteq Goal(phase', picture')
                             /\ now' \in A[done']
    BY DEF OnTheWay
  <2>1. PICK A : /\ Outline(A, calls) /\ A[Len(calls)] \subseteq Goal(phase, picture)
                 /\ now \in A[done]
    BY <1>1 DEF ScreenInv, OnTheWay
  <2>2. Leads(A[done], c, A[done + 1])
    BY <1>5, <2>1 DEF Outline
  <2>3. now' \in A[done + 1]
    BY <1>7, <2>1, <2>2 DEF Leads
  <2>4. QED
    BY <1>1, <1>4, <2>1, <2>3
<1>9. done' \in 0 .. Len(calls')
  BY <1>1, <1>4, <1>5
<1>10. QED
  BY <1>1, <1>7, <1>8, <1>9 DEF ScreenInv

\* when it begins the next frame or the end,
LEMMA NextPhaseSafe == ScreenInv /\ next_phase => ScreenInv'
<1> SUFFICES ASSUME ScreenInv, next_phase PROVE ScreenInv'
  OBVIOUS
<1>1. /\ ConsoleTypeOK /\ phase' \in Phase /\ picture' \in Picture
      /\ done' = 0 /\ disturbed' = FALSE /\ written' = written /\ written \in BOOLEAN
      /\ x' = x /\ y' = y /\ color' = color /\ screen' = screen
  BY DEF ScreenInv, next_phase, console_vars, Phase
<1>2. ConsoleTypeOK' /\ now' = now
  BY <1>1 DEF ConsoleTypeOK, now
<1>3. calls' = CallsIn(phase', picture')
  BY DEF calls, CallsIn
<1>4. now \in Display
  BY <1>1, NowDisplays
<1>5. /\ Len(calls') \in Nat
      /\ \E A : /\ Outline(A, calls')
                /\ A[Len(calls')] \subseteq Goal(phase', picture')
                /\ now' \in A[0]
  BY <1>1, <1>2, <1>3, <1>4, PhaseStarts
<1>6. done' \in 0 .. Len(calls')
  BY <1>1, <1>5
<1>7. OnTheWay'
  BY <1>1, <1>5 DEF OnTheWay
<1>8. QED
  BY <1>1, <1>2, <1>6, <1>7 DEF ScreenInv

\* and when the other process writes in between.
LEMMA ParentSafe == ScreenInv /\ parent_writes => ScreenInv'
<1> SUFFICES ASSUME ScreenInv, parent_writes PROVE ScreenInv'
  OBVIOUS
<1>1. /\ ConsoleTypeOK /\ phase \in Phase /\ picture \in Picture
      /\ done \in 0 .. Len(calls)
      /\ sys_write(Pid) /\ written' = TRUE /\ disturbed' = TRUE
      /\ phase' = phase /\ picture' = picture /\ done' = done
  BY DEF ScreenInv, parent_writes
<1>2. calls' = calls
  BY <1>1 DEF calls
<1>3. write(Pid) \in Call /\ call(write(Pid))
  <2>1. Pid \in Seq(Glyph) /\ Len(Pid) <= Size
    BY ScreenAssumption DEF Size
  <2>2. QED
    BY <1>1, <2>1 DEF write, Call, call
<1>4. ConsoleTypeOK'
  BY <1>1, <1>3, CallDoes
<1>5. QED
  BY <1>1, <1>2, <1>4 DEF ScreenInv, OnTheWay

\* So every step keeps it,
LEMMA ScreenNextSafe == ScreenInv /\ [ScreenNext]_screen_vars => ScreenInv'
<1>1. ASSUME ScreenInv, UNCHANGED screen_vars
      PROVE  ScreenInv'
  <2>1. /\ x' = x /\ y' = y /\ color' = color /\ screen' = screen
        /\ phase' = phase /\ picture' = picture /\ done' = done
        /\ written' = written /\ disturbed' = disturbed
    BY <1>1 DEF screen_vars, console_vars
  <2>2. calls' = calls /\ now' = now /\ ConsoleTypeOK' = ConsoleTypeOK
    BY <2>1 DEF calls, now, ConsoleTypeOK
  <2>3. QED
    BY <1>1, <2>1, <2>2 DEF ScreenInv, OnTheWay
<1>2. QED
  BY <1>1, DrawSafe, NextPhaseSafe, ParentSafe DEF ScreenNext

\* and it always holds.
LEMMA ScreenInvariance == ScreenSpec => []ScreenInv
<1>1. QED
  BY ScreenInitSafe, ScreenNextSafe, PTL DEF ScreenSpec

-----------------------------------------------------------------------------
(* Theorems about the screen.                                              *)

\* The cursor stays on the screen, so nothing is stored behind it, whatever the
\* two processes write and wherever one interrupts the other.
THEOREM CursorStaysOn == ScreenSpec => []ConsoleTypeOK
<1>1. ScreenInv => ConsoleTypeOK
  BY DEF ScreenInv
<1>2. QED
  BY <1>1, ScreenInvariance, PTL

\* What nobody disturbed is drawn right, whatever cursor, color and screen the
\* other process left before: the calls of a frame set all they depend on.
THEOREM FramesAreRight == ScreenSpec => []FrameIsRight
<1>1. ASSUME ScreenInv
      PROVE  FrameIsRight
  <2> SUFFICES ASSUME drawn, ~disturbed
               PROVE  IF phase = "end" THEN message_is_right ELSE board_is_right
    BY DEF FrameIsRight
  <2>1. now \in Goal(phase, picture) /\ picture \in Picture
    BY <1>1 DEF ScreenInv, OnTheWay, drawn
  <2>2. CASE phase = "end"
    <3>1. DOMAIN Message = 1 .. Len(Message)
      BY ScreenAssumption, LenProperties
    <3>2. QED
      BY <2>1, <2>2, <3>1 DEF Goal, Tells, now, message_is_right
  <2>3. CASE phase # "end"
    <3>1. \A c \in Square : screen[spot(c)] = [char |-> Full(picture)[c],
                                              color |-> Full(picture)[c]]
      BY <2>1, <2>3 DEF Goal, Shows, now
    <3>2. ASSUME NEW c \in Square
          PROVE  shown(picture, c) = [char |-> Full(picture)[c],
                                      color |-> Full(picture)[c]]
      <4>1. DOMAIN picture.phantom = 1 .. Len(picture.phantom)
        BY <2>1, PictureFacts, LenProperties
      <4>2. (c \in {picture.phantom[i] : i \in DOMAIN picture.phantom})
              <=> \E i \in 1 .. Len(picture.phantom) : picture.phantom[i] = c
        BY <4>1
      <4>3. QED
        BY <4>2 DEF shown, Full, UnitsTo, CellsOf
    <3>3. QED
      BY <2>3, <3>1, <3>2 DEF board_is_right, spot
  <2>4. QED
    BY <2>2, <2>3
<1>2. QED
  BY <1>1, ScreenInvariance, PTL

\* A text is on the screen as it was written, each character once and in order,
\* whatever size the pieces have that it is copied in.
THEOREM TextsAreWhole == ScreenSpec => WriteIsWhole
<1> DEFINE A == parent_writes =>
                  \A k \in DOMAIN Pid :
                    LET n == (at(x, y) + k - 1) % (NUM_ROWS * NUM_COLUMNS)
                    IN  screen'[n] = [char |-> Pid[k], color |-> color]
<1>1. ASSUME ScreenInv
      PROVE  A
  <2> SUFFICES ASSUME parent_writes, NEW k \in DOMAIN Pid
               PROVE  screen'[(at(x, y) + k - 1) % Size] = [char |-> Pid[k], color |-> color]
    BY DEF Size
  <2>1. /\ Pid \in Seq(Glyph) /\ Len(Pid) <= Size /\ DOMAIN Pid = 1 .. Len(Pid)
        /\ sys_write(Pid) /\ ConsoleTypeOK
    BY <1>1, ScreenAssumption, LenProperties DEF Size, parent_writes, ScreenInv
  <2>2. [x |-> x', y |-> y', screen |-> screen'] \in Upto(at(x, y), screen, Pid, Len(Pid))
    BY <2>1, WriteWhole
  <2>3. QED
    BY <2>1, <2>2 DEF Upto
<1> HIDE DEF A
<1>2. ScreenSpec => [][A]_screen_vars
  BY <1>1, ScreenInvariance, PTL DEF ScreenSpec
<1>3. QED
  BY <1>2 DEF WriteIsWhole, A
=============================================================================
