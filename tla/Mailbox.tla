------------------------------- MODULE Mailbox -------------------------------
(***************************************************************************)
(* How a key gets to the game (practica/zeos, user.c and game.c).  main    *)
(* attaches a shared region and forks: the child plays the game, the       *)
(* parent reads keys and leaves a direction in the first word of the       *)
(* region, where 0 means that there is none.  There is no lock, and the    *)
(* clock may switch between any two accesses, which are the actions here.  *)
(* When the game is over the child goes on to read keys, too (user.c:41).  *)
(*                                                                         *)
(* The keyboard is the queue of module KeyQueue, which KeyBuffer           *)
(* implements.  yield changes nothing that is modelled here; it comes back *)
(* because the other process is ready (see module Kernel).                 *)
(***************************************************************************)
EXTENDS Integers, Sequences

CONSTANTS
  Capacity,     \* keys the keyboard holds
  Char,         \* what can be typed
  Direction,    \* the keys among them that give a direction: w, s, a, d
  NoKey,        \* 0, as a character or a direction
  parent, child \* the two processes

ASSUME MailboxAssumption ==
  /\ Capacity \in Nat \ {0}
  /\ Direction \subseteq Char
  /\ NoKey \notin Char
  /\ parent # child

Proc == {parent, child}

VARIABLES
  keys, received,   \* the keyboard, module KeyQueue
  shared_mem_addr,  \* the word in the shared region
  b,                \* the variable each process reads a key into
  direction,        \* the direction the game took last
  pc,               \* where each process is
  typed             \* history: flips with every key the keyboard takes

vars == <<keys, received, shared_mem_addr, b, direction, pc, typed>>

Keyboard == INSTANCE KeyQueue WITH MaxRead <- 1

over == pc[child] \in {"test", "read", "store"}

\* b is not initialised: what the stack holds may happen to be a key.
Init ==
  /\ Keyboard!Init
  /\ shared_mem_addr = NoKey
  /\ b \in [Proc -> Char \cup {NoKey}]
  /\ direction = NoKey
  /\ pc = [p \in Proc |-> IF p = parent THEN "test" ELSE "look"]
  /\ typed = FALSE

go(p, from, to) ==
  /\ pc[p] = from
  /\ pc' = [pc EXCEPT ![p] = to]
  /\ UNCHANGED typed
-----------------------------------------------------------------------------
(* Mutated forms of the operators below; only the mutant runs use them.    *)

test_reads_always(p) ==
  /\ go(p, "test", "read")
  /\ UNCHANGED <<keys, received, shared_mem_addr, b, direction>>

clear_never ==
  /\ go(child, "clear", "frame")
  /\ UNCHANGED <<keys, received, shared_mem_addr, b, direction>>
-----------------------------------------------------------------------------
(* read_keyboard, game.c:332.                                              *)

\* The word is empty: read a key.  Otherwise yield and look again.
test(p) ==
  /\ shared_mem_addr = NoKey
  /\ go(p, "test", "read")
  /\ UNCHANGED <<keys, received, shared_mem_addr, b, direction>>

\* The system call does not wait, and leaves b alone when there is no key.
read(p) ==
  /\ Keyboard!Read(1)
  /\ b' = [b EXCEPT ![p] = IF received' # <<>> THEN Head(received') ELSE @]
  /\ go(p, "read", "store")
  /\ UNCHANGED <<shared_mem_addr, direction>>

\* b belongs to one turn of the loop.  The compiler may drop b[0] = 0, which nothing
\* in that turn reads (it does with -O2), and the next turn's b is in the same
\* place: it starts with 0 or with the last key, whichever was built.
store(p) ==
  /\ shared_mem_addr' = IF b[p] \in Direction THEN b[p] ELSE shared_mem_addr
  /\ \E last \in {NoKey, b[p]} : b' = [b EXCEPT ![p] = last]
  /\ go(p, "store", "test")
  /\ UNCHANGED <<keys, received, direction>>

read_keyboard(p) == test(p) \/ read(p) \/ store(p)
-----------------------------------------------------------------------------
(* start_game, game.c:499, as far as it touches the word.                  *)

look ==
  /\ go(child, "look", IF shared_mem_addr # NoKey THEN "take" ELSE "frame")
  /\ UNCHANGED <<keys, received, shared_mem_addr, b, direction>>

take ==
  /\ go(child, "take", "clear")
  /\ direction' = shared_mem_addr
  /\ UNCHANGED <<keys, received, shared_mem_addr, b>>

clear ==
  /\ go(child, "clear", "frame")
  /\ shared_mem_addr' = NoKey
  /\ UNCHANGED <<keys, received, b, direction>>

\* A frame of the game, and the wait for the next one, or its end: no life is
\* left, or no food.  Module Game says when.
frame ==
  /\ go(child, "frame", "look") \/ go(child, "frame", "test")
  /\ UNCHANGED <<keys, received, shared_mem_addr, b, direction>>

start_game == look \/ take \/ clear \/ frame
-----------------------------------------------------------------------------
keyboard_interrupt ==
  /\ \E k \in Char : Keyboard!Key(k)
  /\ typed' = ~typed
  /\ UNCHANGED <<shared_mem_addr, b, direction, pc>>

Next == keyboard_interrupt \/ start_game \/ \E p \in Proc : read_keyboard(p)

\* Both processes get the processor again and again (module Scheduler).
Spec ==
  /\ Init /\ [][Next]_vars
  /\ WF_vars(start_game)
  /\ \A p \in Proc : WF_vars(read_keyboard(p))
-----------------------------------------------------------------------------
(* Properties.                                                             *)

\* Every variable has its type.
TypeOK ==
  /\ keys \in Seq(Char) /\ Len(keys) <= Capacity
  /\ shared_mem_addr \in Direction \cup {NoKey}
  /\ b \in [Proc -> Char \cup {NoKey}]
  /\ direction \in Direction \cup {NoKey}
  /\ pc \in [Proc -> {"test", "read", "store", "look", "take", "clear", "frame"}]
  /\ typed \in BOOLEAN

\* The directions on their way: in the word unless the game has taken it, then
\* in the reader's hand, then in the keyboard.
in_word == IF shared_mem_addr # NoKey /\ pc[child] # "clear"
           THEN <<shared_mem_addr>> ELSE <<>>
in_hand == IF pc[parent] = "store" /\ b[parent] \in Direction
           THEN <<b[parent]>> ELSE <<>>
directions(s) ==
  LET of[n \in 0 .. Len(s)] == IF n = 0 THEN <<>>
                               ELSE IF s[n] \in Direction THEN Append(of[n - 1], s[n])
                               ELSE of[n - 1]
  IN  of[Len(s)]
pending == IF over THEN <<>> ELSE in_word \o in_hand \o directions(keys)

\* The game handles the directions typed, in order and none left out, although the
\* word is tested in one slice and written in another (game.c:334).  When all are
\* handled, the last may come once more: b is not written by a read that finds no
\* key.
Channel == INSTANCE KeyChannel WITH NoDirection <- NoKey
KeyChannelSpec == Channel!Spec

\* The test of the word is still good when the key is stored, a system call and
\* any number of switches later: nothing in the word is overwritten.
TestStaysGood == ~over /\ pc[parent] \in {"read", "store"} => shared_mem_addr = NoKey

\* Neither process keeps the other waiting: what is in the word is taken, and a
\* full keyboard is read, for as long as the game goes on (game.c:531).
KeysGetThrough ==
  /\ shared_mem_addr # NoKey ~> shared_mem_addr = NoKey \/ over
  /\ Len(keys) = Capacity ~> Len(keys) < Capacity \/ over
=============================================================================
