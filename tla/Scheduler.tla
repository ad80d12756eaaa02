------------------------------ MODULE Scheduler ------------------------------
(***************************************************************************)
(* Process management of practica/zeos: the task table, the free and ready *)
(* queues, round-robin scheduling (sched.c) and the system calls that move *)
(* a task between them (sys.c).                                            *)
(*                                                                         *)
(* Every gate of the kernel is an interrupt gate (interrupt.c:98-100) and  *)
(* sysenter enters with interrupts off, so a handler runs to its end: one  *)
(* handler is one action, and concurrency is the order of the handlers.    *)
(*                                                                         *)
(* A queue is the sequence of the slots on its ring (list.c), head first.  *)
(* Slots are 0 .. NR_TASKS-1: init_idle takes slot 0 from the free queue   *)
(* and init_task1 slot 1.  Page tables and frames are in module Memory.    *)
(***************************************************************************)
EXTENDS Integers, Sequences, Functions

CONSTANTS
  NR_TASKS,         \* slots in the task table (sched.h:14)
  DEFAULT_QUANTUM,  \* clock ticks a process runs before it is preempted
  MaxPID            \* bound of the model: fork stops when global_PID gets here

ASSUME SchedulerAssumption ==
  /\ NR_TASKS \in Nat /\ NR_TASKS >= 2
  /\ DEFAULT_QUANTUM \in Nat \ {0}
  /\ MaxPID \in Nat /\ MaxPID >= 1000

Task == 0 .. NR_TASKS - 1
idle_task == 0
task1 == 1
NoPID == -1

ST_RUN == "ST_RUN"          \* 0 in the enum, so also the state of a slot
ST_READY == "ST_READY"      \* nobody has used yet
ST_BLOCKED == "ST_BLOCKED"
state_t == {ST_RUN, ST_READY, ST_BLOCKED}

VARIABLES
  freequeue,          \* slots no process uses
  readyqueue,         \* processes waiting for the processor
  running,            \* the slot current() finds under the stack pointer
  state,              \* field state of every slot
  PID,                \* field PID of every slot, kept by the free ones too
  remaining_quantum,  \* ticks left to the running process
  global_PID          \* last PID given by fork

vars == <<freequeue, readyqueue, running, state, PID, remaining_quantum,
          global_PID>>

Process == Range(readyqueue) \cup ({running} \ {idle_task})
-----------------------------------------------------------------------------
list_add(t, q) == <<t>> \o q
list_add_tail(t, q) == Append(q, t)
list_del(t, q) == SelectSeq(q, LAMBDA u : u # t)

\* init_freequeue, less the slots init_idle and init_task1 take.
InitialFreequeue == [i \in 1 .. NR_TASKS - 2 |-> i + 1]

Init ==
  /\ freequeue = InitialFreequeue
  /\ readyqueue = <<>>
  /\ running = task1
  /\ state = [t \in Task |-> ST_RUN]
  /\ PID = [t \in Task |-> IF t = idle_task THEN 0
                           ELSE IF t = task1 THEN 1 ELSE NoPID]
  /\ remaining_quantum = DEFAULT_QUANTUM
  /\ global_PID = 1000
-----------------------------------------------------------------------------
(* Mutated forms of the operators below; only the mutant runs use them.    *)

sched_next_rr_deletes_first(ready, st) ==
  LET rest == IF ready # <<>> THEN Tail(ready) ELSE ready
      t == IF rest # <<>> THEN Head(rest) ELSE idle_task
  IN  /\ running' = t
      /\ readyqueue' = rest
      /\ state' = [st EXCEPT ![t] = ST_RUN]
      /\ remaining_quantum' = DEFAULT_QUANTUM

sched_next_rr_keeps_state(ready, st) ==
  LET t == IF ready # <<>> THEN Head(ready) ELSE idle_task
  IN  /\ running' = t
      /\ readyqueue' = IF ready # <<>> THEN Tail(ready) ELSE ready
      /\ state' = st
      /\ remaining_quantum' = DEFAULT_QUANTUM

sched_next_rr_idle_when_alone(ready, st) ==
  LET t == IF Len(ready) > 1 THEN Head(ready) ELSE idle_task
  IN  /\ running' = t
      /\ readyqueue' = IF Len(ready) > 1 THEN Tail(ready) ELSE ready
      /\ state' = [st EXCEPT ![t] = ST_RUN]
      /\ remaining_quantum' = DEFAULT_QUANTUM

sys_fork_EAGAIN_loses_slot ==
  /\ running # idle_task
  /\ freequeue # <<>>
  /\ LET uchild == Head(freequeue)
     IN  /\ freequeue' = Tail(freequeue)
         /\ PID' = [PID EXCEPT ![uchild] = PID[running]]
         /\ state' = [state EXCEPT ![uchild] = state[running]]
  /\ UNCHANGED <<readyqueue, running, remaining_quantum, global_PID>>

sys_fork_keeps_parent_PID ==
  /\ running # idle_task
  /\ freequeue # <<>>
  /\ global_PID < MaxPID
  /\ LET uchild == Head(freequeue)
     IN  /\ freequeue' = Tail(freequeue)
         /\ readyqueue' = list_add_tail(uchild, readyqueue)
         /\ state' = [state EXCEPT ![uchild] = ST_READY]
         /\ PID' = [PID EXCEPT ![uchild] = PID[running]]
  /\ global_PID' = global_PID + 1
  /\ UNCHANGED <<running, remaining_quantum>>
-----------------------------------------------------------------------------
(* Scheduling, sched.c.                                                    *)

\* Whether a switch is due when the quantum is down to rq.
needs_sched_rr(rq) == rq = 0 /\ readyqueue # <<>>

\* The quantum when it is not: with nobody waiting the running process, or
\* idle, starts another one.
reload(rq) == IF rq = 0 THEN DEFAULT_QUANTUM ELSE rq

\* The ready queue and the states after t is queued as ready.  A task whose
\* state is not ST_RUN is first unlinked, as if it were on a ring.
update_process_state_rr(t) ==
  LET ready == IF state[t] # ST_RUN THEN list_del(t, readyqueue)
                                    ELSE readyqueue
  IN  [ready |-> list_add_tail(t, ready),
       state |-> [state EXCEPT ![t] = ST_READY]]

\* Switch to the first of the queue, or to idle when there is none.
sched_next_rr(ready, st) ==
  LET t == IF ready # <<>> THEN Head(ready) ELSE idle_task
  IN  /\ running' = t
      /\ readyqueue' = IF ready # <<>> THEN Tail(ready) ELSE ready
      /\ state' = [st EXCEPT ![t] = ST_RUN]
      /\ remaining_quantum' = DEFAULT_QUANTUM

force_task_switch ==
  LET u == update_process_state_rr(running)
  IN  sched_next_rr(u.ready, u.state)

\* The clock interrupt: update_sched_data_rr, needs_sched_rr and the switch.
clock_routine ==
  /\ LET rq == remaining_quantum - 1
     IN  \/ needs_sched_rr(rq) /\ force_task_switch
         \/ /\ ~needs_sched_rr(rq)
            /\ remaining_quantum' = reload(rq)
            /\ UNCHANGED <<readyqueue, running, state>>
  /\ UNCHANGED <<freequeue, PID, global_PID>>
-----------------------------------------------------------------------------
(* System calls, sys.c.  Idle never makes one.                             *)

\* A fork that finds a free slot and the frames it needs.
sys_fork ==
  /\ running # idle_task
  /\ freequeue # <<>>
  /\ global_PID < MaxPID
  /\ LET uchild == Head(freequeue)
     IN  /\ freequeue' = Tail(freequeue)
         /\ readyqueue' = list_add_tail(uchild, readyqueue)
         /\ state' = [state EXCEPT ![uchild] = ST_READY]
         /\ PID' = [PID EXCEPT ![uchild] = global_PID + 1]
  /\ global_PID' = global_PID + 1
  /\ UNCHANGED <<running, remaining_quantum>>

\* A fork that runs out of frames: the slot goes back, to the other end of the
\* free queue, holding the copy of the parent's fields that copy_data made.
\* Module Memory says when it happens; here it may at any time.
sys_fork_EAGAIN ==
  /\ running # idle_task
  /\ freequeue # <<>>
  /\ LET uchild == Head(freequeue)
     IN  /\ freequeue' = list_add_tail(uchild, Tail(freequeue))
         /\ PID' = [PID EXCEPT ![uchild] = PID[running]]
         /\ state' = [state EXCEPT ![uchild] = state[running]]
  /\ UNCHANGED <<readyqueue, running, remaining_quantum, global_PID>>

sys_exit ==
  /\ running # idle_task
  /\ freequeue' = list_add_tail(running, freequeue)
  /\ PID' = [PID EXCEPT ![running] = NoPID]
  /\ sched_next_rr(readyqueue, state)
  /\ UNCHANGED global_PID

sys_yield ==
  /\ running # idle_task
  /\ force_task_switch
  /\ UNCHANGED <<freequeue, PID, global_PID>>

\* The slots sys_get_stats can answer from: it reads the lowest one that holds
\* pid, and fails with ESRCH when there is none.
get_stats_slots(pid) ==
  {t \in Task : PID[t] = pid /\ \A u \in Task : PID[u] = pid => t <= u}

Next == clock_routine \/ sys_fork \/ sys_fork_EAGAIN \/ sys_exit \/ sys_yield

Spec == Init /\ [][Next]_vars
-----------------------------------------------------------------------------
(* Properties.                                                             *)

\* Every variable has its type.
TypeOK ==
  /\ freequeue \in Seq(Task)
  /\ readyqueue \in Seq(Task)
  /\ running \in Task
  /\ state \in [Task -> state_t]
  /\ PID \in [Task -> NoPID .. MaxPID]
  /\ remaining_quantum \in Int
  /\ global_PID \in 1000 .. MaxPID

\* No slot is lost and none is in two places: fork, a failed fork, exit, yield
\* and preemption leave every slot free, ready, running or idle, exactly one.
TaskInOnePlace ==
  /\ IsInjective(freequeue) /\ IsInjective(readyqueue)
  /\ Range(freequeue) \cap Range(readyqueue) = {}
  /\ {running, idle_task} \cap (Range(freequeue) \cup Range(readyqueue)) = {}
  /\ Task = Range(freequeue) \cup Range(readyqueue) \cup {running, idle_task}

\* The idle task has the processor only when no process wants it; otherwise the
\* next tick would queue idle like a process (schedule, sched.c:152).
IdleOnlyWhenNoProcess == running = idle_task => readyqueue = <<>>

\* The state field tells where a task is.  update_process_state_rr relies on it:
\* with a stale state it would unlink a task that is on no ring (sched.c:114).
StateMatchesQueue ==
  /\ state[running] = ST_RUN
  /\ \A t \in Task : state[t] = ST_READY <=> t \in Range(readyqueue)

\* schedule tests the quantum for equality with zero after a decrement, so a
\* quantum that ever left 1 .. DEFAULT_QUANTUM would never expire again.
QuantumInRange == remaining_quantum \in 1 .. DEFAULT_QUANTUM

\* Processes have different PIDs, all of them given out, although fork copies
\* the parent's PID first and a failed fork leaves the copy behind.
ProcessPIDsUnique ==
  /\ \A t \in Process : PID[t] \in 1 .. global_PID
  /\ \A t, u \in Process : PID[t] = PID[u] => t = u

\* The ready queue is first come, first served: what is ahead of a waiting
\* process only shrinks, whatever calls the others make.
Ahead(t) == {u \in Task : \E i, j \in DOMAIN readyqueue :
                              i < j /\ readyqueue[i] = u /\ readyqueue[j] = t}
NoOvertaking ==
  [][\A t \in Range(readyqueue) :
        t \in Range(readyqueue') => Ahead(t)' \subseteq Ahead(t)]_vars

\* A ready process gets the processor.
ReadyRuns == \A t \in Task : t \in Range(readyqueue) ~> running = t

\* sys_get_stats fails with ESRCH ("No such process", errno.h) for a PID that
\* no process has: what it answers from belongs to the process asked for.  It
\* does not hold: see README, divergences.
GetStatsKnowsOnlyProcesses ==
  \A pid \in 1 .. MaxPID : get_stats_slots(pid) \subseteq Process
=============================================================================
