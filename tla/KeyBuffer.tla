------------------------------ MODULE KeyBuffer ------------------------------
(***************************************************************************)
(* The keyboard of practica/zeos: the circular buffer of c_buffer.c, the   *)
(* interrupt that fills it (interrupt.c) and the system call that empties  *)
(* it (sys.c).  Both run with interrupts off: each is one action.          *)
(*                                                                         *)
(* A scan code is what it is used for: whether it says that a key was let  *)
(* go, and the character char_map has for it.  Codes behind the end of     *)
(* char_map read some character.                                           *)
(***************************************************************************)
EXTENDS Integers, Sequences

CONSTANTS
  BUFFER_SIZE,  \* capacity of the buffer, 2048 in c_buffer.h
  Char,         \* characters, 0 among them
  MaxRead       \* bound: the most a process asks for in one read

ASSUME KeyBufferAssumption ==
  BUFFER_SIZE \in Nat \ {0} /\ 0 \in Char /\ MaxRead \in Nat

Index == 0 .. BUFFER_SIZE - 1

VARIABLES
  buffer, read_index, write_index, count,  \* cb
  isDefined,                               \* 0 until the first interrupt
  received,                                \* what sys_read stored last
  interrupts  \* history: parity of the interrupts, so that each is a step

cb == <<buffer, read_index, write_index, count>>
vars == <<buffer, read_index, write_index, count, isDefined, received,
          interrupts>>

\* Static storage is zero before init_buffer ever runs.
Init ==
  /\ buffer = [i \in Index |-> 0]
  /\ read_index = 0 /\ write_index = 0 /\ count = 0
  /\ isDefined = 0
  /\ received = <<>>
  /\ interrupts = 0
-----------------------------------------------------------------------------
(* Mutated forms of the operators below; only the mutant runs use them.    *)

enqueue_full_early(w, n, c) ==
  IF n = BUFFER_SIZE - 1
  THEN /\ UNCHANGED buffer
       /\ write_index' = w /\ count' = n
  ELSE /\ buffer' = [buffer EXCEPT ![w] = c]
       /\ write_index' = (w + 1) % BUFFER_SIZE
       /\ count' = n + 1

dequeue_reversed(k) ==
  /\ received' = [i \in 1 .. k |-> buffer[(read_index + k - i) % BUFFER_SIZE]]
  /\ read_index' = (read_index + k) % BUFFER_SIZE
  /\ count' = count - k
-----------------------------------------------------------------------------
\* Where an index is after k more elements.
next_index(i, k) == (i + k) % BUFFER_SIZE

\* enqueue, from write index w with n elements in the buffer: no effect when
\* it is full.
enqueue(w, n, c) ==
  IF n = BUFFER_SIZE
  THEN /\ UNCHANGED buffer
       /\ write_index' = w /\ count' = n
  ELSE /\ buffer' = [buffer EXCEPT ![w] = c]
       /\ write_index' = next_index(w, 1)
       /\ count' = n + 1

\* k times dequeue, with at least k elements in the buffer, each copied to the
\* process.
dequeue(k) ==
  /\ received' = [i \in 1 .. k |-> buffer[next_index(read_index, i - 1)]]
  /\ read_index' = next_index(read_index, k)
  /\ count' = count - k
-----------------------------------------------------------------------------
\* The keyboard interrupt; the first one initialises the buffer.  Only a code
\* that says a key was let go is stored.
keyboard_routine(released, c) ==
  /\ isDefined' = 1
  /\ interrupts' = 1 - interrupts
  /\ LET reset(x) == IF isDefined = 0 THEN 0 ELSE x
     IN  /\ read_index' = reset(read_index)
         /\ IF released
            THEN enqueue(reset(write_index), reset(count), c)
            ELSE /\ UNCHANGED buffer
                 /\ write_index' = reset(write_index)
                 /\ count' = reset(count)
  /\ UNCHANGED received

\* A read of up to maxchars characters into memory that access_ok accepts.
sys_read(maxchars) ==
  /\ dequeue(IF maxchars > count THEN count ELSE maxchars)
  /\ UNCHANGED <<buffer, write_index, isDefined, interrupts>>

Next ==
  \/ \E released \in BOOLEAN, c \in Char : keyboard_routine(released, c)
  \/ \E maxchars \in 0 .. MaxRead : sys_read(maxchars)

Spec == Init /\ [][Next]_vars
-----------------------------------------------------------------------------
(* Properties.                                                             *)

\* Every variable has its type; no index ever leaves the buffer.
TypeOK ==
  /\ buffer \in [Index -> Char]
  /\ read_index \in Index
  /\ write_index \in Index
  /\ count \in 0 .. BUFFER_SIZE
  /\ isDefined \in {0, 1}
  /\ received \in Seq(Char)
  /\ interrupts \in {0, 1}

\* The three ways to know how many keys wait agree, over any number of turns
\* round the buffer: the write index is count elements ahead of the read index.
IndicesAgree == write_index = next_index(read_index, count)

\* The keys that wait, oldest first.
keys == [i \in 1 .. count |-> buffer[next_index(read_index, i - 1)]]

\* Keys are read in the order they came, each once, whatever the order of
\* interrupts and reads and wherever the indices stand.
Queue == INSTANCE KeyQueue WITH Capacity <- BUFFER_SIZE
KeyQueueSpec == Queue!Spec

\* A key is dropped only when BUFFER_SIZE keys wait, and the first interrupt,
\* which initialises the buffer, drops none that is already there.
KeyDroppedOnlyWhenFull ==
  [][\A c \in Char : keyboard_routine(TRUE, c) =>
        keys' = IF Len(keys) < BUFFER_SIZE THEN Append(keys, c) ELSE keys]_vars
=============================================================================
