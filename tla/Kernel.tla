-------------------------------- MODULE Kernel --------------------------------
(***************************************************************************)
(* The kernel of practica/zeos put together: modules Scheduler and Memory  *)
(* share the task table, and every call is made by the running process.    *)
(* Added here is the stack pointer each task_struct keeps for the next     *)
(* time its task runs (sched.c, kernel-utils.S).                           *)
(*                                                                         *)
(* A stack pointer is the slot whose kernel stack it points into, with the *)
(* code that left it there: calls enter the kernel at the same depth, so   *)
(* it points at a frame that is still there as long as nothing but that    *)
(* code has used the stack since.                                          *)
(***************************************************************************)
EXTENDS Integers, Sequences, Functions

\* The constants and the variables of Scheduler and of Memory.
CONSTANTS
  NR_TASKS, DEFAULT_QUANTUM, MaxPID,
  NUM_PAG_KERNEL, NUM_PAG_CODE, NUM_PAG_DATA, TOTAL_PAGES, TOTAL_FRAMES, NSHM,
  GuardPages, Value, UserPages, ShmatPages, RefSlack

VARIABLES
  freequeue, readyqueue, running, state, PID, remaining_quantum, global_PID

VARIABLES
  live, pagusr_table, phys_mem, referencias, a_borrar, content, status,
  freed_shared, left_attached

VARIABLES
  register_esp,  \* stack pointer every slot keeps
  astray         \* whether the processor went on from a pointer gone stale

\* What module Scheduler assumes; Memory's assumptions are not needed here.
ASSUME KernelAssumption ==
  /\ NR_TASKS \in Nat /\ NR_TASKS >= 2
  /\ DEFAULT_QUANTUM \in Nat \ {0}
  /\ MaxPID \in Nat /\ MaxPID >= 1000

S == INSTANCE Scheduler
M == INSTANCE Memory

sched_vars == <<freequeue, readyqueue, running, state, PID, remaining_quantum,
                global_PID>>
memory_vars == <<live, pagusr_table, phys_mem, referencias, a_borrar, content,
                 status, freed_shared, left_attached>>
vars == <<sched_vars, memory_vars, register_esp, astray>>

\* Who left a stack pointer: nobody yet, or the code that made or switched out
\* the task.
Path == {"nobody", "new", "clock", "yield", "exit"}

Init ==
  /\ S!Init /\ M!Init
  /\ register_esp = [t \in S!Task |-> <<t, IF t = S!idle_task THEN "new"
                                           ELSE "nobody">>]
  /\ astray = FALSE
-----------------------------------------------------------------------------
(* Mutated forms of the operators below; only the mutant runs use them.    *)

new_stack_of_parent(child) == register_esp[running]

exit_memory_after_switch ==
  running' \in M!Slot /\ M!sys_exit(running')

inner_task_switch_saves_in_new(path) ==
  LET esp == register_esp[running']
  IN  /\ register_esp' = [register_esp EXCEPT ![running'] = <<running, path>>]
      /\ astray' = (esp[1] # running')
-----------------------------------------------------------------------------
\* The kernel stops for good when the fault handler hangs it, and the model when
\* undefined behaviour begins.
Up == status = "running" /\ ~astray

\* inner_task_switch from the running task, on path, to the one that runs next.
\* The pointer to go on from is an argument: it is read before the current one
\* is saved.  That matters when the two tasks are the same.  Its old pointer is
\* then good if it was left by the same code, may be if it was left by the clock,
\* depending on the frames the compiler made, and is not otherwise.
inner_task_switch(path) ==
  LET esp == register_esp[running']
  IN  /\ register_esp' = [register_esp EXCEPT ![running] = <<running, path>>]
      /\ \/ /\ running' # running
            /\ astray' = (esp[1] # running' \/ esp[2] \in {"nobody", "exit"})
         \/ /\ running' = running
            /\ astray' \in CASE esp = <<running, path>> -> {FALSE}
                             [] esp = <<running, "clock">> -> BOOLEAN
                             [] OTHER -> {TRUE}

\* The child's pointer: two words, ret_from_fork among them, on its own stack.
new_stack(child) == <<child, "new">>

\* The tick that lets the running task go on, and the one that switches.
clock_routine ==
  /\ Up
  /\ S!clock_routine
  /\ \/ S!needs_sched_rr(remaining_quantum - 1) /\ inner_task_switch("clock")
     \/ /\ ~S!needs_sched_rr(remaining_quantum - 1)
        /\ UNCHANGED <<register_esp, astray>>
  /\ UNCHANGED memory_vars

sys_yield ==
  /\ Up
  /\ S!sys_yield
  /\ inner_task_switch("yield")
  /\ UNCHANGED memory_vars

sys_fork ==
  /\ Up
  /\ S!sys_fork
  /\ M!sys_fork(running, Head(freequeue))
  /\ register_esp' = [register_esp EXCEPT ![Head(freequeue)] =
                        new_stack(Head(freequeue))]
  /\ UNCHANGED astray

\* The failed fork leaves the slot a copy of the parent's pointer.
sys_fork_EAGAIN ==
  /\ Up
  /\ S!sys_fork_EAGAIN
  /\ M!sys_fork_EAGAIN(running, Head(freequeue))
  /\ register_esp' = [register_esp EXCEPT ![Head(freequeue)] =
                        register_esp[running]]
  /\ UNCHANGED astray

\* The memory half of exit, which comes before the switch.
exit_memory == M!sys_exit(running)

sys_exit ==
  /\ Up
  /\ S!sys_exit
  /\ exit_memory
  /\ inner_task_switch("exit")

\* Whatever else the running process does: faults, stores, calls that store for
\* it, calls about shared regions, and a fork that runs out of the byte map.
memory_step(t) ==
  \/ \E p \in UserPages : M!pagefault_routine(t, p)
  \/ \E p \in UserPages, v \in Value : M!user_store(t, p, v)
  \/ \E p \in UserPages, v \in Value : M!copy_to_user(t, p, v)
  \/ \E id \in M!Shm, p \in ShmatPages : M!sys_shmat(t, id, p)
  \/ \E p \in ShmatPages : M!sys_shmdt(t, p)
  \/ \E id \in 0 .. NSHM : M!sys_shmrm(t, id)
  \/ M!sys_fork_out_of_bounds(t)

running_process ==
  /\ Up
  /\ running # S!idle_task
  /\ memory_step(running)
  /\ UNCHANGED <<sched_vars, register_esp, astray>>

Next ==
  \/ clock_routine \/ sys_yield
  \/ sys_fork \/ sys_fork_EAGAIN \/ sys_exit
  \/ running_process

Spec == Init /\ [][Next]_vars
-----------------------------------------------------------------------------
(* Properties.                                                             *)

\* Every variable has its type.
TypeOK ==
  /\ S!TypeOK
  /\ register_esp \in [S!Task -> S!Task \X Path]
  /\ astray \in BOOLEAN

\* The scheduler and the memory agree on which slots hold a process, so a fork
\* never builds its child over the page table of a process, and every process
\* that is scheduled has one (sys.c:76, sys.c:360).
LiveIsProcess == live = S!Process

\* A process that waits, and idle, can be resumed: its stack pointer is its own
\* and was left by fork or by the switch that took the processor from it, although
\* a failed fork copies pointers between slots and exits leave theirs behind.
Resumable(t) ==
  register_esp[t] \in {<<t, "new">>, <<t, "clock">>, <<t, "yield">>}
WaitingAreResumable ==
  \A t \in Range(readyqueue) \cup ({S!idle_task} \ {running}) : Resumable(t)

\* A switch goes astray only when a process yields with nobody else ready: never
\* on the clock, on exit, or when there is another task to switch to.
OnlyLoneYieldGoesAstray ==
  [][astray' => readyqueue = <<>> /\ running # S!idle_task
                /\ running' = running]_vars

\* "System call to force a task switch" (sys.c:368): a yield comes back.  It does
\* not hold: see README, divergences.
YieldReturns == ~astray

\* Whatever the kernel does the scheduler, and the memory, on its own may do:
\* what holds of the parts holds of the kernel.
SchedulerSpec == S!Spec
MemorySpec == M!Spec
=============================================================================
