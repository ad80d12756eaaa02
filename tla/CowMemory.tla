------------------------------ MODULE CowMemory ------------------------------
(***************************************************************************)
(* Module Memory under the workload copy-on-write is meant for: nobody     *)
(* exits while it shares a data page, and a system call stores only where  *)
(* the process could store itself.  Outside of it copy-on-write is broken  *)
(* (README, divergences).  Running out of frames, and a region attached    *)
(* at the page the fault handler uses, do belong to it.                    *)
(*                                                                         *)
(* stored is a history variable.  It tells a store from a fault, which     *)
(* must not change what is seen.                                           *)
(***************************************************************************)
EXTENDS Memory

VARIABLE stored  \* flips with every store

cow_vars == <<vars, stored>>

CowInit == Init /\ stored = FALSE

CowNext ==
  \E t \in Slot :
     \/ handler(t) /\ freed_shared' = freed_shared /\ stored' = stored
     \/ /\ \E p \in UserPages, v \in Value :
              \/ user_store(t, p, v)
              \/ copy_to_user(t, p, v) /\ Writable(t, p)
        /\ stored' = ~stored

CowSpec == CowInit /\ [][CowNext]_cow_vars
-----------------------------------------------------------------------------
(* Properties.                                                             *)

\* What the processes see in the data pages they still have.
data_memory ==
  [t \in live |-> [p \in {q \in DataPage : get_frame(t, q) # NoFrame} |->
                     content[get_frame(t, p)]]]

\* Who has something attached at the page the fault handler copies through.
window_users == {t \in live : pagusr_table[t][pagina_a_usar].present}

\* Copy-on-write cannot be told from a copy at fork: what the processes see behaves
\* as if every data page were its process's own, and a fault changes nothing.  The
\* two ways in which the handler fails (interrupt.c:156, :160) are steps of
\* PrivateMemory that harm the faulting page alone.
Private == INSTANCE PrivateMemory
             WITH memory <- data_memory, full <- free_frames(phys_mem) = {},
                  window <- window_users
PrivateMemorySpec == Private!Spec
=============================================================================
