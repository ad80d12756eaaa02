---------------------------- MODULE BaseScheduler ----------------------------
(***************************************************************************)
(* Process management of the base kernel, zeos/sched.c and zeos/sys.c: the *)
(* scheduler of module Scheduler in its first form, with block, unblock    *)
(* and the children of every process.                                      *)
(*                                                                         *)
(* A handler is one action, and a list is the sequence of its slots, head  *)
(* first.  A process's childs are a set: sys_unblock is all that walks     *)
(* them, and PIDs differ.  What idle_task inherits is left out, nothing    *)
(* reads it.  A slot on no list has null links (list_del, list.c:70), so   *)
(* unlinking it stores at addresses 0 and 4: a page fault, which never     *)
(* returns, unless page 0 of the process is mapped.                        *)
(***************************************************************************)
EXTENDS Integers, Sequences, Functions

CONSTANTS
  NR_TASKS,    \* slots in the task table
  QUANTUM,     \* clock ticks of a turn
  MaxPID,      \* bound of the model: fork stops when starting_pid gets here
  MaxPending   \* bound of the model: unblock stops when a child has so many

ASSUME BaseAssumption ==
  /\ NR_TASKS \in Nat /\ NR_TASKS >= 2
  /\ QUANTUM \in Nat \ {0}
  /\ MaxPID \in Nat /\ MaxPID >= 1000
  /\ MaxPending \in Nat

\* init_sched adds every slot at the front, so the free queue is in reverse:
\* init_idle gets the last slot and init_task1 the one before.
Task == 0 .. NR_TASKS - 1
idle_task == NR_TASKS - 1
task1 == NR_TASKS - 2

ST_RUN == "ST_RUN"          \* 0 in the enum: an unused slot has it, too
ST_READY == "ST_READY"
ST_BLOCKED == "ST_BLOCKED"
state_t == {ST_RUN, ST_READY, ST_BLOCKED}

VARIABLES
  freequeue,         \* slots no process uses
  readyqueue,        \* processes waiting for the processor
  blocked,           \* processes waiting for an unblock
  running,           \* the slot current() finds under the stack pointer
  state,             \* field state of every slot
  PID,               \* field PID of every slot
  pending_unblocks,  \* unblocks a process got while it was not blocked
  childs,            \* living children of every process
  ticks_since_cpu,   \* ticks left to the running process
  starting_pid,      \* last PID given by fork
  null_mapped,       \* slots whose page 0 is mapped
  lost,              \* history: slots that exit left on no queue but blocked
  hung               \* whether the kernel loops in pagefault_routine

vars == <<freequeue, readyqueue, blocked, running, state, PID,
          pending_unblocks, childs, ticks_since_cpu, starting_pid,
          null_mapped, lost, hung>>
-----------------------------------------------------------------------------
list_add_tail(t, q) == Append(q, t)

\* The links close over the gap t leaves; a list without t stays as it is.
list_del(t, q) ==
  IF t \notin Range(q) THEN q
  ELSE LET at == CHOOSE i \in DOMAIN q : q[i] = t
       IN  [i \in 1 .. Len(q) - 1 |-> IF i < at THEN q[i] ELSE q[i + 1]]

Init ==
  /\ freequeue = [i \in 1 .. NR_TASKS - 2 |-> NR_TASKS - 2 - i]
  /\ readyqueue = <<>>
  /\ blocked = <<>>
  /\ running = task1
  /\ state = [t \in Task |-> ST_RUN]
  /\ PID = [t \in Task |-> IF t = task1 THEN 1 ELSE 0]
  /\ pending_unblocks = [t \in Task |-> 0]
  /\ childs = [t \in Task |-> {}]
  /\ ticks_since_cpu = 0
  /\ starting_pid = 1000
  /\ null_mapped = {}
  /\ lost = {}
  /\ hung = FALSE
-----------------------------------------------------------------------------
(* Scheduling, sched.c.                                                    *)

\* Mutated forms of the operators below, here and before each of the calls; only
\* the mutant runs use them.
sched_next_rr_idle_when_alone(ready, st) ==
  LET t == IF Len(ready) > 1 THEN Head(ready) ELSE idle_task
  IN  /\ running' = t
      /\ readyqueue' = IF Len(ready) > 1 THEN Tail(ready) ELSE ready
      /\ state' = [st EXCEPT ![t] = ST_RUN]
      /\ ticks_since_cpu' = QUANTUM

\* The first of the queue gets the processor, or idle when there is none.
sched_next_rr(ready, st) ==
  LET t == IF ready # <<>> THEN Head(ready) ELSE idle_task
  IN  /\ running' = t
      /\ readyqueue' = IF ready # <<>> THEN Tail(ready) ELSE ready
      /\ state' = [st EXCEPT ![t] = ST_RUN]
      /\ ticks_since_cpu' = QUANTUM

update_process_state_rr_requeues(q, st) ==
  list_add_tail(running, list_del(running, q))

needs_sched_rr_late(ticks) == ticks < 0 /\ readyqueue # <<>>

\* Queue q after the running task was moved there.  One that has blocked stays
\* where it is, whoever calls.
update_process_state_rr(q, st) ==
  IF st[running] = ST_BLOCKED THEN q
  ELSE list_add_tail(running,
                     IF st[running] # ST_RUN THEN list_del(running, q) ELSE q)

needs_sched_rr(ticks) == ticks <= 0 /\ readyqueue # <<>>

\* One tick less for the running task, and a switch when its turn is over and
\* somebody waits.
schedule(st) ==
  LET ticks == ticks_since_cpu - 1
  IN  \/ /\ needs_sched_rr(ticks)
         /\ sched_next_rr(update_process_state_rr(readyqueue, st),
                          IF st[running] = ST_BLOCKED THEN st
                          ELSE [st EXCEPT ![running] = ST_READY])
      \/ /\ ~needs_sched_rr(ticks)
         /\ ticks_since_cpu' = IF ticks > 0 THEN ticks ELSE QUANTUM
         /\ state' = st
         /\ UNCHANGED <<readyqueue, running>>

clock_routine ==
  /\ ~hung
  /\ schedule(state)
  /\ UNCHANGED <<freequeue, blocked, PID, pending_unblocks, childs,
                 starting_pid, null_mapped, lost, hung>>
-----------------------------------------------------------------------------
(* System calls, sys.c.  Idle never makes one.                             *)

calls == ~hung /\ running # idle_task

sys_fork_skips_page_0 ==
  /\ calls
  /\ freequeue # <<>>
  /\ starting_pid < MaxPID
  /\ LET u_child == Head(freequeue)
     IN  /\ freequeue' = Tail(freequeue)
         /\ PID' = [PID EXCEPT ![u_child] = starting_pid + 1]
         /\ state' = [state EXCEPT ![u_child] = ST_READY]
         /\ pending_unblocks' = [pending_unblocks EXCEPT ![u_child] = 0]
         /\ childs' = [childs EXCEPT ![u_child] = {},
                                     ![running] = childs[running] \cup {u_child}]
         /\ readyqueue' = list_add_tail(u_child, readyqueue)
  /\ starting_pid' = starting_pid + 1
  /\ UNCHANGED <<blocked, running, ticks_since_cpu, null_mapped, lost, hung>>

\* A fork that finds a slot and all frames.  It maps page 0 of the child, as
\* every page of the kernel (sys.c:87).
sys_fork ==
  /\ calls
  /\ freequeue # <<>>
  /\ starting_pid < MaxPID
  /\ LET u_child == Head(freequeue)
     IN  /\ freequeue' = Tail(freequeue)
         /\ null_mapped' = null_mapped \cup {u_child}
         /\ PID' = [PID EXCEPT ![u_child] = starting_pid + 1]
         /\ state' = [state EXCEPT ![u_child] = ST_READY]
         /\ pending_unblocks' = [pending_unblocks EXCEPT ![u_child] = 0]
         /\ childs' = [childs EXCEPT ![u_child] = {},
                                     ![running] = childs[running] \cup {u_child}]
         /\ readyqueue' = list_add_tail(u_child, readyqueue)
  /\ starting_pid' = starting_pid + 1
  /\ UNCHANGED <<blocked, running, ticks_since_cpu, lost, hung>>

\* A fork that runs out of frames: the slot goes back, to the other end of the
\* queue, with the parent's fields in it.
sys_fork_EAGAIN ==
  /\ calls
  /\ freequeue # <<>>
  /\ LET u_child == Head(freequeue)
     IN  /\ freequeue' = list_add_tail(u_child, Tail(freequeue))
         /\ PID' = [PID EXCEPT ![u_child] = PID[running]]
         /\ state' = [state EXCEPT ![u_child] = state[running]]
         /\ pending_unblocks' =
              [pending_unblocks EXCEPT ![u_child] = pending_unblocks[running]]
  /\ UNCHANGED <<readyqueue, blocked, running, childs, ticks_since_cpu,
                 starting_pid, null_mapped, lost, hung>>

sys_exit_keeps_parent ==
  /\ calls
  /\ childs' = [childs EXCEPT ![running] = {}]
  /\ freequeue' = update_process_state_rr(freequeue, state)
  /\ lost' = IF state[running] = ST_BLOCKED THEN lost \cup {running} ELSE lost
  /\ sched_next_rr(readyqueue, state)
  /\ UNCHANGED <<blocked, PID, pending_unblocks, starting_pid, null_mapped, hung>>

\* The process leaves its parent's list, its children go to idle, its slot to
\* the free queue.  A slot that has blocked is not moved, and stays on blocked.
sys_exit ==
  /\ calls
  /\ childs' = [t \in Task |-> IF t = running THEN {} ELSE childs[t] \ {running}]
  /\ freequeue' = update_process_state_rr(freequeue, state)
  /\ lost' = IF state[running] = ST_BLOCKED THEN lost \cup {running} ELSE lost
  /\ sched_next_rr(readyqueue, state)
  /\ UNCHANGED <<blocked, PID, pending_unblocks, starting_pid, null_mapped, hung>>

\* The process takes an unblock it has, or queues itself on blocked and goes on
\* to schedule, which takes one tick and switches only if the turn is over.
sys_block_pending ==
  /\ calls
  /\ pending_unblocks[running] # 0
  /\ pending_unblocks' = [pending_unblocks EXCEPT ![running] = @ - 1]
  /\ UNCHANGED <<freequeue, readyqueue, blocked, running, state, PID, childs,
                 ticks_since_cpu, starting_pid, null_mapped, lost, hung>>

\* The running task is on no list, unless it has blocked before.
unlink_faults == state[running] # ST_BLOCKED /\ running \notin null_mapped

sys_block_waits_always ==
  /\ calls
  /\ ~unlink_faults
  /\ blocked' = list_add_tail(running, list_del(running, blocked))
  /\ schedule([state EXCEPT ![running] = ST_BLOCKED])
  /\ UNCHANGED <<freequeue, PID, pending_unblocks, childs, starting_pid,
                 null_mapped, lost, hung>>

sys_block_waits ==
  /\ calls
  /\ pending_unblocks[running] = 0
  /\ ~unlink_faults
  /\ blocked' = list_add_tail(running, list_del(running, blocked))
  /\ schedule([state EXCEPT ![running] = ST_BLOCKED])
  /\ UNCHANGED <<freequeue, PID, pending_unblocks, childs, starting_pid,
                 null_mapped, lost, hung>>

sys_block_faults ==
  /\ calls
  /\ pending_unblocks[running] = 0
  /\ unlink_faults
  /\ state' = [state EXCEPT ![running] = ST_BLOCKED]
  /\ hung' = TRUE
  /\ UNCHANGED <<freequeue, readyqueue, blocked, running, PID, childs,
                 pending_unblocks, ticks_since_cpu, starting_pid, null_mapped,
                 lost>>

sys_block == sys_block_pending \/ sys_block_waits \/ sys_block_faults

sys_unblock_anybody(pid) ==
  /\ calls
  /\ \E task_found \in {c \in Task : PID[c] = pid} :
        IF state[task_found] = ST_BLOCKED
        THEN /\ state' = [state EXCEPT ![task_found] = ST_READY]
             /\ blocked' = list_del(task_found, blocked)
             /\ readyqueue' = list_add_tail(task_found, readyqueue)
             /\ UNCHANGED pending_unblocks
        ELSE /\ pending_unblocks[task_found] < MaxPending
             /\ pending_unblocks' = [pending_unblocks EXCEPT ![task_found] = @ + 1]
             /\ UNCHANGED <<state, blocked, readyqueue>>
  /\ UNCHANGED <<freequeue, running, PID, childs, ticks_since_cpu, starting_pid,
                 null_mapped, lost, hung>>

\* Wakes a blocked child, and has any other child remember the unblock.  A pid
\* that is no child's is an error, and changes nothing.
sys_unblock(pid) ==
  /\ calls
  /\ \E task_found \in {c \in childs[running] : PID[c] = pid} :
        IF state[task_found] = ST_BLOCKED
        THEN /\ state' = [state EXCEPT ![task_found] = ST_READY]
             /\ blocked' = list_del(task_found, blocked)
             /\ readyqueue' = list_add_tail(task_found, readyqueue)
             /\ UNCHANGED pending_unblocks
        ELSE /\ pending_unblocks[task_found] < MaxPending
             /\ pending_unblocks' = [pending_unblocks EXCEPT ![task_found] = @ + 1]
             /\ UNCHANGED <<state, blocked, readyqueue>>
  /\ UNCHANGED <<freequeue, running, PID, childs, ticks_since_cpu, starting_pid,
                 null_mapped, lost, hung>>

Next ==
  \/ clock_routine
  \/ sys_fork \/ sys_fork_EAGAIN \/ sys_exit \/ sys_block
  \/ \E pid \in 1001 .. starting_pid : sys_unblock(pid)

Spec == Init /\ [][Next]_vars

\* The clock interrupts for ever: idle and user code run with interrupts on.
FairSpec == Spec /\ WF_vars(clock_routine)
-----------------------------------------------------------------------------
(* Properties.                                                             *)

\* Every variable has its type.
TypeOK ==
  /\ {freequeue, readyqueue, blocked} \subseteq Seq(Task)
  /\ running \in Task
  /\ state \in [Task -> state_t]
  /\ PID \in [Task -> 0 .. MaxPID]
  /\ pending_unblocks \in [Task -> Nat]
  /\ childs \in [Task -> SUBSET Task]
  /\ ticks_since_cpu \in Int
  /\ starting_pid \in 1000 .. MaxPID
  /\ null_mapped \subseteq Task
  /\ lost \subseteq Task
  /\ hung \in BOOLEAN

\* Every slot is in one place.  The running process is on no list, or, when it
\* has called block and its turn is not over, on blocked: sys_block unlinks it
\* although it is linked nowhere (sys.c:150), and nothing else may notice.
SlotInOnePlace ==
  /\ IsInjective(freequeue) /\ IsInjective(readyqueue) /\ IsInjective(blocked)
  /\ Range(freequeue) \cap Range(readyqueue) = {}
  /\ Range(freequeue) \cap Range(blocked) = {}
  /\ Range(readyqueue) \cap Range(blocked) = {}
  /\ {running, idle_task} \cap (Range(freequeue) \cup Range(readyqueue)) = {}
  /\ Task = Range(freequeue) \cup Range(readyqueue) \cup Range(blocked)
              \cup {running, idle_task}

\* The state field tells the list, which is what sys_unblock and
\* update_process_state_rr decide from.
StateTellsList ==
  /\ \A t \in Range(readyqueue) : state[t] = ST_READY
  /\ \A t \in Range(blocked) : state[t] = ST_BLOCKED
  /\ \/ state[running] = ST_RUN /\ running \notin Range(blocked)
     \/ state[running] = ST_BLOCKED /\ (running \in Range(blocked) \/ hung)

\* The lists and the states are right together.
QueuesAgree == SlotInOnePlace /\ StateTellsList

\* No unblock is lost: nobody sleeps who has one to take, in whatever order the
\* child's block and the parent's unblocks come (sys.c:148, sys.c:171).
NoUnblockLost ==
  \A t \in Range(blocked) \ lost : pending_unblocks[t] = 0

\* A pid names one living process to its parent: no process is the child of two,
\* and no unblock reaches a free slot, a slot exit left behind, or whoever got
\* the slot of a child that is gone (sys.c:129-134).
ChildrenAreLive ==
  /\ \A t, u \in Task : t # u => childs[t] \cap childs[u] = {}
  /\ \A t \in Task, c, d \in Task :
        c \in childs[t] =>
          /\ c \notin Range(freequeue) \cup lost \cup {t, idle_task}
          /\ PID[c] > 1000
          /\ d \in childs[t] /\ PID[c] = PID[d] => c = d

\* Idle is the end: it runs only when nobody is ready, and since only a running
\* parent wakes a child, who is blocked then stays so for ever (sched.c:166).
IdleIsTheEnd ==
  [][running = idle_task =>
       readyqueue = <<>> /\ UNCHANGED <<running, readyqueue, blocked>>]_vars

\* A process that waits blocked gets the processor only after its parent has
\* woken it, and through the ready queue: so an orphan never does.
OnlyParentWakes ==
  [][\A t \in Range(blocked) \ {running} :
       /\ running' # t
       /\ t \notin Range(blocked') => t \in childs[running] /\ t \in Range(readyqueue')]_vars

\* Only the first process hangs the kernel by calling block: every other has
\* page 0 mapped, by fork, and the stores through null links go there.
OnlyTask1Hangs == hung => running = task1 /\ PID[running] = 1

\* A ready process gets the processor, unless the kernel hangs first.
ReadyRuns == \A t \in Task : t \in Range(readyqueue) ~> running = t \/ hung

\* exit gives the slot back: "you will overwrite the task struct with the new
\* process" (sys.c:135).  It does not hold: see README, divergences.
ExitFreesSlot == lost = {}
=============================================================================
