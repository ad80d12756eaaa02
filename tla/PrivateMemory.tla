---------------------------- MODULE PrivateMemory ----------------------------
(***************************************************************************)
(* What copy-on-write promises: every process has data pages of its own.   *)
(* A child starts with a copy of its parent's, a store changes one page of *)
(* the process that makes it, and nothing else changes any page.           *)
(*                                                                         *)
(* Two exceptions are what the fault handler of ZeOS gets wrong: with no   *)
(* frame left a page is lost, and with its window in use a page is not     *)
(* copied.  Each costs the process that faults one page, and nobody else   *)
(* anything.                                                               *)
(***************************************************************************)
CONSTANTS Slot, DataPage, Value, task1

VARIABLES
  live,    \* slots that hold a process
  memory,  \* what each of them has in the data pages it has
  stored,  \* flips with every store
  full,    \* whether there is no frame left
  window   \* processes with something at the page used for copying

vars == <<live, memory, stored>>

Init ==
  /\ live = {task1}
  /\ memory = [t \in live |-> [p \in DataPage |-> 0]]
  /\ stored = FALSE

\* A store to a page that was lost is lost as well.
Store(t, p, v) ==
  /\ memory' = IF p \in DOMAIN memory[t] THEN [memory EXCEPT ![t][p] = v]
                                         ELSE memory
  /\ stored' = ~stored
  /\ UNCHANGED live

\* Only a process that has all its pages forks.
Fork(t, c) ==
  /\ DOMAIN memory[t] = DataPage
  /\ live' = live \cup {c}
  /\ memory' = [u \in live' |-> IF u = c THEN memory[t] ELSE memory[u]]
  /\ UNCHANGED stored

Exit(t) ==
  /\ live' = live \ {t}
  /\ memory' = [u \in live' |-> memory[u]]
  /\ UNCHANGED stored

Lose(t, p) ==
  /\ full
  /\ memory' = [memory EXCEPT ![t] = [q \in DOMAIN memory[t] \ {p} |-> memory[t][q]]]
  /\ UNCHANGED <<live, stored>>

Miscopy(t, p, v) ==
  /\ t \in window /\ p \in DOMAIN memory[t]
  /\ memory' = [memory EXCEPT ![t][p] = v]
  /\ UNCHANGED <<live, stored>>

\* A store that changes no data page, to a shared region say.
StoreElsewhere == stored' = ~stored /\ UNCHANGED <<live, memory>>

Next ==
  \/ StoreElsewhere
  \/ \E t \in live :
        \/ \E p \in DataPage, v \in Value : Store(t, p, v) \/ Miscopy(t, p, v)
        \/ \E p \in DataPage : Lose(t, p)
        \/ \E c \in Slot \ live : Fork(t, c)
        \/ Exit(t)

Spec == Init /\ [][Next]_vars
=============================================================================
