----------------------------- MODULE KernelProofs -----------------------------
(***************************************************************************)
(* Theorems about module Kernel, for every value of its constants: it is a *)
(* scheduler and a memory, as the modules of those describe them, and what *)
(* relates the two, and the stack pointers, always holds.                  *)
(***************************************************************************)
EXTENDS Kernel, TLAPS

\* The theorems of module SchedulerProofs, for the kernel's variables.  The
\* history variable of module SchedulerWait plays no part in them.
SP == INSTANCE SchedulerProofs WITH waited <- <<>>

-----------------------------------------------------------------------------
(* The scheduler of the kernel is the one module SchedulerProofs is about.  *)

\* The kernel's constants are as that module assumes.
LEMMA SchedulerAssumed == SP!SchedulerAssumption
BY KernelAssumption DEF SP!SchedulerAssumption

\* Slots, processes and the first states are the same.
LEMMA SameTasks ==
  /\ S!Task = SP!Task /\ S!idle_task = SP!idle_task
  /\ S!Process = SP!Process /\ S!Process' = SP!Process'
  /\ S!Init => SP!Init
<1>1. /\ S!Task = SP!Task /\ S!idle_task = SP!idle_task
      /\ S!task1 = SP!task1 /\ S!ST_RUN = SP!ST_RUN /\ S!NoPID = SP!NoPID
      /\ S!InitialFreequeue = SP!InitialFreequeue
  BY DEF S!Task, SP!Task, S!idle_task, SP!idle_task, S!task1, SP!task1,
         S!ST_RUN, SP!ST_RUN, S!NoPID, SP!NoPID, S!InitialFreequeue,
         SP!InitialFreequeue
<1>2. S!Process = SP!Process /\ S!Process' = SP!Process'
  BY DEF S!Process, SP!Process, S!idle_task, SP!idle_task, S!Range, SP!Range
<1>3. S!Init => SP!Init
  BY <1>1 DEF S!Init, SP!Init
<1>4. QED
  BY <1>1, <1>2, <1>3

\* So are the handlers.
LEMMA SameHandlers ==
  /\ S!force_task_switch => SP!force_task_switch
  /\ S!clock_routine => SP!clock_routine
  /\ S!sys_fork => SP!sys_fork
  /\ S!sys_fork_EAGAIN => SP!sys_fork_EAGAIN
  /\ S!sys_exit => SP!sys_exit
  /\ S!sys_yield => SP!sys_yield
<1>1. \A ready, st : S!sched_next_rr(ready, st) => SP!sched_next_rr(ready, st)
  BY DEF S!sched_next_rr, SP!sched_next_rr, S!idle_task, SP!idle_task,
         S!ST_RUN, SP!ST_RUN
<1>2. S!update_process_state_rr(running) = SP!update_process_state_rr(running)
  BY DEF S!update_process_state_rr, SP!update_process_state_rr, S!list_del,
         SP!list_del, S!list_add_tail, SP!list_add_tail, S!ST_RUN, SP!ST_RUN,
         S!ST_READY, SP!ST_READY
<1>3. S!force_task_switch => SP!force_task_switch
  BY <1>1, <1>2 DEF S!force_task_switch, SP!force_task_switch
<1>4. S!clock_routine => SP!clock_routine
  BY <1>3 DEF S!clock_routine, SP!clock_routine, S!needs_sched_rr,
              SP!needs_sched_rr, S!reload, SP!reload
<1>5. S!sys_fork => SP!sys_fork
  BY DEF S!sys_fork, SP!sys_fork, S!list_add_tail, SP!list_add_tail,
         S!idle_task, SP!idle_task, S!ST_READY, SP!ST_READY
<1>6. S!sys_fork_EAGAIN => SP!sys_fork_EAGAIN
  BY DEF S!sys_fork_EAGAIN, SP!sys_fork_EAGAIN, S!list_add_tail,
         SP!list_add_tail, S!idle_task, SP!idle_task
<1>7. S!sys_exit => SP!sys_exit
  BY <1>1 DEF S!sys_exit, SP!sys_exit, S!list_add_tail, SP!list_add_tail,
              S!idle_task, SP!idle_task, S!NoPID, SP!NoPID
<1>8. S!sys_yield => SP!sys_yield
  BY <1>3 DEF S!sys_yield, SP!sys_yield, S!idle_task, SP!idle_task
<1>9. QED
  BY <1>3, <1>4, <1>5, <1>6, <1>7, <1>8
-----------------------------------------------------------------------------
(* What the scheduler's invariant says of the kernel.                      *)

\* The invariant of the scheduler, in the kernel's own words.
LEMMA SchedulerFacts ==
  ASSUME SP!IInv
  PROVE  /\ freequeue \in Seq(S!Task) /\ readyqueue \in Seq(S!Task)
         /\ running \in S!Task
         /\ running \notin Range(readyqueue)
         /\ S!idle_task \notin Range(readyqueue)
         /\ running = S!idle_task => readyqueue = <<>>
         /\ S!Process = Range(readyqueue) \cup ({running} \ {S!idle_task})
<1>1. /\ freequeue \in Seq(S!Task) /\ readyqueue \in Seq(S!Task)
      /\ running \in S!Task
  BY SameTasks DEF SP!IInv, SP!TypeOK
<1>2. /\ running \notin Range(readyqueue)
      /\ S!idle_task \notin Range(readyqueue)
  BY SameTasks DEF SP!IInv, SP!TaskInOnePlace, SP!Range, Range
<1>3. running = S!idle_task => readyqueue = <<>>
  BY SameTasks DEF SP!IInv, SP!IdleOnlyWhenNoProcess
<1>4. S!Process = Range(readyqueue) \cup ({running} \ {S!idle_task})
  BY DEF S!Process, S!Range, Range
<1>5. QED
  BY <1>1, <1>2, <1>3, <1>4

\* The tasks that wait, and idle, have slots; the slots of the memory are those of
\* the scheduler without idle's.
LEMMA SlotFacts ==
  ASSUME SP!IInv
  PROVE  /\ Range(readyqueue) \subseteq S!Task
         /\ S!idle_task \in S!Task
         /\ M!Slot = S!Task \ {S!idle_task}
<1>1. Range(readyqueue) \subseteq S!Task
  BY SchedulerFacts DEF Range
<1>2. S!idle_task \in S!Task /\ M!Slot = S!Task \ {S!idle_task}
  BY KernelAssumption DEF S!Task, S!idle_task, M!Slot
<1>3. QED
  BY <1>1, <1>2

\* The first of the free queue is a slot that no process has, and not idle's.
LEMMA FreeSlot ==
  ASSUME SP!IInv, freequeue # <<>>
  PROVE  /\ Head(freequeue) \in S!Task \ {S!idle_task, running}
         /\ Head(freequeue) \notin Range(readyqueue)
<1>1. freequeue \in Seq(SP!Task) /\ SP!IsInjective(freequeue)
  BY DEF SP!IInv, SP!TypeOK, SP!TaskInOnePlace
<1>2. Head(freequeue) \in SP!Range(freequeue) /\ Head(freequeue) \in SP!Task
  BY <1>1, SchedulerAssumed, SP!TakeFirst
<1>3. QED
  BY <1>2, SameTasks DEF SP!IInv, SP!TaskInOnePlace, SP!Range, Range

\* The same facts of the next state.
LEMMA SchedulerFactsNext ==
  ASSUME SP!IInv'
  PROVE  /\ running' \in S!Task
         /\ running' \notin Range(readyqueue')
         /\ S!idle_task \notin Range(readyqueue')
         /\ S!Process' = Range(readyqueue') \cup ({running'} \ {S!idle_task})
<1>1. running' \in S!Task
  BY SameTasks DEF SP!IInv, SP!TypeOK
<1>2. /\ running' \notin Range(readyqueue')
      /\ S!idle_task \notin Range(readyqueue')
  BY SameTasks DEF SP!IInv, SP!TaskInOnePlace, SP!Range, Range
<1>3. S!Process' = Range(readyqueue') \cup ({running'} \ {S!idle_task})
  BY DEF S!Process, S!Range, Range
<1>4. QED
  BY <1>1, <1>2, <1>3

\* A process that gives up the processor stays a process, and gets it back at
\* once only when nobody else is ready.
LEMMA SwitchKeepsProcesses ==
  ASSUME SP!IInv, running # S!idle_task, freequeue' = freequeue,
         S!force_task_switch
  PROVE  /\ S!Process' = S!Process
         /\ running' \in Range(readyqueue) \cup {running}
         /\ running' = running => readyqueue = <<>>
<1>1. SP!force_task_switch
  BY SameHandlers
<1>2. SP!Range(readyqueue') \cup ({running'} \ {SP!idle_task}) = SP!Process
  BY <1>1, SchedulerAssumed, SameTasks, SP!YieldSafe
<1>3. S!Process' = S!Process
  BY <1>2, SameTasks DEF SP!Process
<1>4. readyqueue \in Seq(S!Task) /\ running \in S!Task
  BY SchedulerFacts
<1>5. running' = Head(Append(readyqueue, running))
  <2>1. state[running] = S!ST_RUN
    BY DEF SP!IInv, SP!StateMatchesQueue, S!ST_RUN, SP!ST_RUN
  <2>2. Append(readyqueue, running) # <<>>
    BY <1>4, SchedulerAssumed, SP!AddTailRange
  <2>3. QED
    BY <2>1, <2>2 DEF S!force_task_switch, S!update_process_state_rr,
                      S!list_add_tail, S!sched_next_rr
<1>6. CASE readyqueue = <<>>
  BY <1>3, <1>4, <1>5, <1>6
<1>7. CASE readyqueue # <<>>
  <2>1. running' = Head(readyqueue)
    BY <1>4, <1>5, <1>7
  <2>2. Head(readyqueue) \in Range(readyqueue)
    <3>1. 1 \in DOMAIN readyqueue /\ Head(readyqueue) = readyqueue[1]
      BY <1>4, <1>7
    <3>2. QED
      BY <3>1 DEF Range
  <2>3. QED
    BY <1>3, <2>1, <2>2, SchedulerFacts
<1>8. QED
  BY <1>3, <1>6, <1>7

\* A process that exits is no process any more; the first of the queue, or idle,
\* goes on.
LEMMA ExitTakesProcess ==
  ASSUME SP!IInv, S!sys_exit
  PROVE  /\ SP!IInv'
         /\ S!Process' = S!Process \ {running}
         /\ running' \in Range(readyqueue) \cup {S!idle_task}
         /\ running' # running
<1>1. SP!IInv'
  BY SameHandlers, SchedulerAssumed, SP!ExitSafe
<1>2. /\ readyqueue \in Seq(SP!Task) /\ SP!IsInjective(readyqueue)
      /\ running # S!idle_task
  BY DEF SP!IInv, SP!TypeOK, SP!TaskInOnePlace, S!sys_exit
<1>3. CASE readyqueue # <<>>
  <2>1. running' = Head(readyqueue) /\ readyqueue' = Tail(readyqueue)
    BY <1>3 DEF S!sys_exit, S!sched_next_rr
  <2>2. /\ Head(readyqueue) \in Range(readyqueue)
        /\ Range(readyqueue') = Range(readyqueue) \ {Head(readyqueue)}
    BY <1>2, <1>3, <2>1, SchedulerAssumed, SP!TakeFirst DEF SP!Range, Range
  <2>3. QED
    BY <1>1, <1>2, <2>1, <2>2, SchedulerFacts, SchedulerFactsNext
<1>4. CASE readyqueue = <<>>
  <2>1. running' = S!idle_task /\ readyqueue' = readyqueue
    BY <1>4 DEF S!sys_exit, S!sched_next_rr
  <2>2. QED
    BY <1>1, <1>2, <1>4, <2>1, SchedulerFacts, SchedulerFactsNext
<1>5. QED
  BY <1>3, <1>4
-----------------------------------------------------------------------------
(* The inductive invariant.  It takes the scheduler's: that the first free *)
(* slot is no process's is why a fork builds its child over nobody, and    *)
(* that a task is in one place is why a pointer written for one task is    *)
(* not another's.                                                          *)

KInv ==
  /\ SP!IInv
  /\ register_esp \in [S!Task -> S!Task \X Path]
  /\ astray \in BOOLEAN
  /\ LiveIsProcess
  /\ WaitingAreResumable

\* Every tick and every call of the scheduler keeps its invariant.
LEMMA SchedulerKept ==
  ASSUME SP!IInv,
         \/ S!clock_routine \/ S!sys_fork \/ S!sys_fork_EAGAIN
         \/ S!sys_exit \/ S!sys_yield \/ UNCHANGED sched_vars
  PROVE  SP!IInv'
<1>1. SP!Next \/ UNCHANGED SP!vars
  BY SameHandlers DEF SP!Next, SP!vars, sched_vars
<1>2. QED
  BY <1>1, SchedulerAssumed, SP!NextSafe

\* The kernel starts with task 1 alone, which is running.
LEMMA InitKernel == Init => KInv
<1> SUFFICES ASSUME Init PROVE KInv
  OBVIOUS
<1>1. SP!IInv
  BY SameTasks, SchedulerAssumed, SP!InitSafe DEF Init
<1>2. register_esp \in [S!Task -> S!Task \X Path]
  BY DEF Init, Path
<1>3. readyqueue = <<>> /\ running = 1 /\ live = {1}
  BY DEF Init, S!Init, M!Init, S!task1, M!task1
<1>4. LiveIsProcess
  BY <1>1, <1>3, SchedulerFacts DEF LiveIsProcess, S!idle_task, Range
<1>5. WaitingAreResumable
  <2>1. Range(readyqueue) = {} /\ S!idle_task \in S!Task
    BY <1>3, KernelAssumption DEF Range, S!Task, S!idle_task
  <2>2. register_esp[S!idle_task] = <<S!idle_task, "new">>
    BY <2>1 DEF Init
  <2>3. QED
    BY <2>1, <2>2 DEF WaitingAreResumable, Resumable
<1>6. QED
  BY <1>1, <1>2, <1>4, <1>5 DEF KInv, Init

\* A switch on path leaves every task that waits then resumable, as long as one
\* that exits does not wait.  What it does with the processor, lone yields aside,
\* is sound.
LEMMA SwitchResumable ==
  ASSUME KInv, SP!IInv', NEW path \in Path, inner_task_switch(path), ~astray,
         path \in {"clock", "yield"} \/ running \notin S!Process',
         running # S!idle_task,
         S!Process' \subseteq S!Process,
         running' \in Range(readyqueue) \cup {running, S!idle_task}
  PROVE  /\ register_esp' \in [S!Task -> S!Task \X Path]
         /\ astray' \in BOOLEAN
         /\ WaitingAreResumable'
         /\ astray' => running' = running
<1>1. /\ running \in S!Task /\ running' \in S!Task
      /\ register_esp \in [S!Task -> S!Task \X Path]
      /\ Range(readyqueue) \subseteq S!Task /\ S!idle_task \in S!Task
  BY SlotFacts, SchedulerFacts, SchedulerFactsNext DEF KInv
<1>2. register_esp' = [register_esp EXCEPT ![running] = <<running, path>>]
  BY DEF inner_task_switch
<1>3. register_esp' \in [S!Task -> S!Task \X Path]
  BY <1>1, <1>2
<1>4. ASSUME NEW t \in Range(readyqueue') \cup ({S!idle_task} \ {running'})
      PROVE  Resumable(t)'
  <2>1. t \in S!Task /\ t \in S!Process' \cup {S!idle_task}
    BY <1>1, SchedulerFacts, SchedulerFactsNext DEF KInv
  <2>2. CASE t = running
    <3>1. register_esp'[t] = <<t, path>> /\ path \in {"clock", "yield"}
      BY <1>1, <1>2, <2>1, <2>2
    <3>2. QED
      BY <3>1 DEF Resumable
  <2>3. CASE t # running
    <3>1. register_esp'[t] = register_esp[t]
      BY <1>1, <1>2, <2>1, <2>3
    <3>2. t \in Range(readyqueue) \cup {S!idle_task}
      BY <2>1, <2>3, SchedulerFacts DEF KInv
    <3>3. Resumable(t)
      BY <2>3, <3>2 DEF KInv, WaitingAreResumable
    <3>4. QED
      BY <3>1, <3>3 DEF Resumable
  <2>4. QED
    BY <2>2, <2>3
<1>5. WaitingAreResumable'
  BY <1>4 DEF WaitingAreResumable
<1>6. astray' \in BOOLEAN /\ (astray' => running' = running)
  <2>1. CASE running' = running
    BY <2>1 DEF inner_task_switch
  <2>2. CASE running' # running
    <3>1. Resumable(running')
      BY <2>2 DEF KInv, WaitingAreResumable
    <3>2. ~(register_esp[running'][1] # running'
            \/ register_esp[running'][2] \in {"nobody", "exit"})
      BY <3>1 DEF Resumable
    <3>3. astray' = FALSE
      BY <2>2, <3>2 DEF inner_task_switch
    <3>4. QED
      BY <3>3
  <2>3. QED
    BY <2>1, <2>2
<1>7. QED
  BY <1>3, <1>5, <1>6

\* What a lone yield is.
LoneYield ==
  readyqueue = <<>> /\ running # S!idle_task /\ running' = running

\* A tick keeps the invariant; it only switches when somebody else waits.
LEMMA ClockKeeps ==
  ASSUME KInv, clock_routine
  PROVE  KInv' /\ ~astray'
<1>1. SP!IInv' /\ live' = live /\ ~astray /\ freequeue' = freequeue
  BY SchedulerKept
     DEF KInv, clock_routine, memory_vars, Up, S!clock_routine
<1>2. CASE ~S!needs_sched_rr(remaining_quantum - 1)
  <2>1. UNCHANGED <<register_esp, astray, readyqueue, running, live>>
    BY <1>1, <1>2 DEF clock_routine, S!clock_routine
  <2>2. S!Process' = S!Process
    BY <1>1, <2>1, SchedulerFacts, SchedulerFactsNext DEF KInv
  <2>3. LiveIsProcess' /\ WaitingAreResumable'
    BY <2>1, <2>2 DEF KInv, LiveIsProcess, WaitingAreResumable, Resumable
  <2>4. QED
    BY <1>1, <2>1, <2>3 DEF KInv
<1>3. CASE S!needs_sched_rr(remaining_quantum - 1)
  <2>1. S!force_task_switch /\ inner_task_switch("clock") /\ readyqueue # <<>>
    BY <1>3 DEF clock_routine, S!clock_routine, S!needs_sched_rr
  <2>2. running # S!idle_task
    BY <2>1, SchedulerFacts DEF KInv
  <2>3. /\ S!Process' = S!Process /\ running' # running
        /\ running' \in Range(readyqueue) \cup {running}
    BY <1>1, <2>1, <2>2, SwitchKeepsProcesses DEF KInv
  <2>4. /\ register_esp' \in [S!Task -> S!Task \X Path] /\ ~astray'
        /\ astray' \in BOOLEAN /\ WaitingAreResumable'
    BY <1>1, <2>1, <2>2, <2>3, SwitchResumable DEF Path
  <2>5. QED
    BY <1>1, <2>3, <2>4 DEF KInv, LiveIsProcess
<1>4. QED
  BY <1>2, <1>3

\* A yield keeps the invariant, and goes astray only alone.
LEMMA YieldKeeps ==
  ASSUME KInv, sys_yield
  PROVE  KInv' /\ (astray' => LoneYield)
<1>1. /\ SP!IInv' /\ live' = live /\ ~astray /\ freequeue' = freequeue
      /\ S!force_task_switch /\ inner_task_switch("yield")
      /\ running # S!idle_task
  BY SchedulerKept DEF KInv, sys_yield, memory_vars, Up, S!sys_yield
<1>2. /\ S!Process' = S!Process
      /\ running' = running => readyqueue = <<>>
      /\ running' \in Range(readyqueue) \cup {running}
  BY <1>1, SwitchKeepsProcesses DEF KInv
<1>3. /\ register_esp' \in [S!Task -> S!Task \X Path]
      /\ astray' \in BOOLEAN /\ WaitingAreResumable'
      /\ astray' => running' = running
  BY <1>1, <1>2, SwitchResumable DEF Path
<1>4. QED
  BY <1>1, <1>2, <1>3 DEF KInv, LiveIsProcess, LoneYield

\* An exit keeps the invariant: the slot leaves the processes and the memory.
LEMMA ExitKeeps ==
  ASSUME KInv, sys_exit
  PROVE  KInv' /\ ~astray'
<1>1. /\ S!sys_exit /\ inner_task_switch("exit") /\ ~astray
      /\ running # S!idle_task /\ live' = live \ {running}
  BY DEF sys_exit, exit_memory, M!sys_exit, S!sys_exit, Up
<1>2. /\ SP!IInv' /\ S!Process' = S!Process \ {running}
      /\ running' \in Range(readyqueue) \cup {S!idle_task}
      /\ running' # running
  BY <1>1, ExitTakesProcess DEF KInv
<1>3. /\ register_esp' \in [S!Task -> S!Task \X Path] /\ ~astray'
      /\ astray' \in BOOLEAN /\ WaitingAreResumable'
  BY <1>1, <1>2, SwitchResumable DEF Path
<1>4. QED
  BY <1>1, <1>2, <1>3 DEF KInv, LiveIsProcess

\* Only the slot that a fork takes gets another pointer: those of the tasks that
\* wait stay as they are.
LEMMA ForkResumable ==
  ASSUME KInv, NEW c \in S!Task, c \notin Range(readyqueue), c # S!idle_task,
         NEW esp \in S!Task \X Path, running' = running,
         register_esp' = [register_esp EXCEPT ![c] = esp],
         \A t \in Range(readyqueue') :
            t \in Range(readyqueue) \/ (t = c /\ esp = <<c, "new">>)
  PROVE  /\ register_esp' \in [S!Task -> S!Task \X Path]
         /\ WaitingAreResumable'
<1>1. register_esp \in [S!Task -> S!Task \X Path]
  BY DEF KInv
<1>2. Range(readyqueue) \cup {S!idle_task} \subseteq S!Task
  BY SlotFacts DEF KInv
<1>3. ASSUME NEW t \in Range(readyqueue') \cup ({S!idle_task} \ {running'})
      PROVE  Resumable(t)'
  <2>1. CASE t = c
    <3>1. register_esp'[t] = <<c, "new">>
      BY <1>1, <2>1
    <3>2. QED
      BY <2>1, <3>1 DEF Resumable
  <2>2. CASE t # c
    <3>1. t \in Range(readyqueue) \cup ({S!idle_task} \ {running})
      BY <2>2
    <3>2. Resumable(t)
      BY <3>1 DEF KInv, WaitingAreResumable
    <3>3. register_esp'[t] = register_esp[t]
      BY <1>1, <1>2, <2>2, <3>1
    <3>4. QED
      BY <3>2, <3>3 DEF Resumable
  <2>3. QED
    BY <2>1, <2>2
<1>4. QED
  BY <1>1, <1>3 DEF WaitingAreResumable

\* A fork keeps the invariant: its slot becomes a process in both parts, with a
\* pointer of its own.
LEMMA ForkKeeps ==
  ASSUME KInv, sys_fork
  PROVE  KInv' /\ ~astray'
<1> DEFINE c == Head(freequeue)
<1>1. /\ freequeue # <<>> /\ running' = running /\ astray' = FALSE
      /\ readyqueue' = Append(readyqueue, c)
      /\ live' = live \cup {c}
      /\ register_esp' = [register_esp EXCEPT ![c] = <<c, "new">>]
  BY DEF sys_fork, new_stack, S!sys_fork, S!list_add_tail, M!sys_fork, Up, KInv
<1>2. SP!IInv'
  BY SchedulerKept DEF sys_fork, KInv
<1>3. c \in S!Task \ {S!idle_task, running} /\ c \notin Range(readyqueue)
  BY <1>1, FreeSlot DEF KInv
<1>4. Range(readyqueue') = Range(readyqueue) \cup {c}
  <2>1. readyqueue \in Seq(S!Task)
    BY SchedulerFacts DEF KInv
  <2>2. QED
    BY <1>1, <1>3, <2>1, SchedulerAssumed, SP!AddTailRange DEF SP!Range, Range
<1>5. S!Process' = S!Process \cup {c}
  BY <1>1, <1>2, <1>3, <1>4, SchedulerFacts, SchedulerFactsNext DEF KInv
<1> HIDE DEF c
<1>6. <<c, "new">> \in S!Task \X Path
  BY <1>3 DEF Path
<1>7. /\ register_esp' \in [S!Task -> S!Task \X Path]
      /\ WaitingAreResumable'
  BY <1>1, <1>3, <1>4, <1>6, ForkResumable
<1>8. QED
  BY <1>1, <1>2, <1>5, <1>7 DEF KInv, LiveIsProcess

\* A failed fork keeps the invariant: its slot is free again, whatever it holds.
LEMMA FailedForkKeeps ==
  ASSUME KInv, sys_fork_EAGAIN
  PROVE  KInv' /\ ~astray'
<1> DEFINE c == Head(freequeue)
<1>1. /\ freequeue # <<>> /\ running' = running /\ astray' = FALSE
      /\ readyqueue' = readyqueue /\ live' = live
      /\ register_esp' = [register_esp EXCEPT ![c] = register_esp[running]]
  BY DEF sys_fork_EAGAIN, S!sys_fork_EAGAIN, M!sys_fork_EAGAIN, Up, KInv
<1>2. SP!IInv'
  BY SchedulerKept DEF sys_fork_EAGAIN, KInv
<1>3. c \in S!Task \ {S!idle_task, running} /\ c \notin Range(readyqueue)
  BY <1>1, FreeSlot DEF KInv
<1>4. S!Process' = S!Process
  BY <1>1, <1>2, SchedulerFacts, SchedulerFactsNext DEF KInv
<1>5. register_esp[running] \in S!Task \X Path
  BY SchedulerFacts DEF KInv
<1> HIDE DEF c
<1>6. /\ register_esp' \in [S!Task -> S!Task \X Path]
      /\ WaitingAreResumable'
  BY <1>1, <1>3, <1>5, ForkResumable
<1>7. QED
  BY <1>1, <1>2, <1>4, <1>6 DEF KInv, LiveIsProcess

\* A fault, a store or a call about memory makes or ends no process.
LEMMA MemoryKeepsLive ==
  ASSUME NEW t, memory_step(t)
  PROVE  live' = live
BY DEF memory_step, M!pagefault_routine, M!user_store, M!copy_to_user, M!Put,
       M!sys_shmat, M!sys_shmdt, M!sys_shmrm, M!sys_fork_out_of_bounds

\* A step that changes neither the scheduler nor the processes keeps it all.
LEMMA QuietKeeps ==
  ASSUME KInv, UNCHANGED <<sched_vars, register_esp, astray, live>>
  PROVE  KInv'
<1>1. SP!IInv'
  BY SchedulerKept DEF KInv
<1>2. S!Process' = S!Process
  BY <1>1, SchedulerFacts, SchedulerFactsNext DEF KInv, sched_vars
<1>3. LiveIsProcess' /\ WaitingAreResumable'
  BY <1>2 DEF KInv, LiveIsProcess, WaitingAreResumable, Resumable, sched_vars
<1>4. QED
  BY <1>1, <1>3 DEF KInv

\* Every step keeps the invariant, and only a lone yield goes astray.
LEMMA NextKeeps ==
  ASSUME KInv, Next
  PROVE  KInv' /\ (astray' => LoneYield)
<1>1. CASE clock_routine
  BY <1>1, ClockKeeps
<1>2. CASE sys_yield
  BY <1>2, YieldKeeps
<1>3. CASE sys_fork
  BY <1>3, ForkKeeps
<1>4. CASE sys_fork_EAGAIN
  BY <1>4, FailedForkKeeps
<1>5. CASE sys_exit
  BY <1>5, ExitKeeps
<1>6. CASE running_process
  <2>1. UNCHANGED <<sched_vars, register_esp, astray, live>> /\ ~astray
    BY <1>6, MemoryKeepsLive DEF running_process, Up
  <2>2. QED
    BY <2>1, QuietKeeps
<1>7. QED
  BY <1>1, <1>2, <1>3, <1>4, <1>5, <1>6 DEF Next

\* The same for a step that may stutter.
LEMMA StepKeeps == KInv /\ [Next]_vars => KInv'
<1>1. KInv /\ UNCHANGED vars => KInv'
  BY QuietKeeps DEF vars, memory_vars
<1>2. QED
  BY <1>1, NextKeeps
-----------------------------------------------------------------------------
(* The theorems.                                                           *)

\* The inductive invariant holds of every behaviour of the kernel.
THEOREM KernelInvariance == Spec => []KInv
<1>1. QED
  BY InitKernel, StepKeeps, PTL DEF Spec

\* Every variable of the kernel always has its type: a stack pointer points into
\* the stack of a slot, never elsewhere.
THEOREM KernelTypeCorrect == Spec => []TypeOK
<1>1. KInv => TypeOK
  BY DEF KInv, TypeOK, SP!IInv, SP!TypeOK, S!TypeOK, SP!Task, S!Task, SP!state_t,
         S!state_t, SP!NoPID, S!NoPID, SP!ST_RUN, S!ST_RUN, SP!ST_READY, S!ST_READY,
         SP!ST_BLOCKED, S!ST_BLOCKED
<1>2. QED
  BY <1>1, KernelInvariance, PTL

\* The scheduler and the memory always agree on who is a process: fork never
\* builds a child over a process, exit never leaves half of one.
THEOREM LiveIsAlwaysProcess == Spec => []LiveIsProcess
<1>1. KInv => LiveIsProcess
  BY DEF KInv
<1>2. QED
  BY <1>1, KernelInvariance, PTL

\* A waiting process, and idle, can always be resumed from its own stack.
THEOREM WaitingAlwaysResumable == Spec => []WaitingAreResumable
<1>1. KInv => WaitingAreResumable
  BY DEF KInv
<1>2. QED
  BY <1>1, KernelInvariance, PTL

\* No switch goes astray but that of a process that yields alone.
THEOREM SwitchesAreSound == Spec => OnlyLoneYieldGoesAstray
<1>1. KInv /\ [Next]_vars =>
        [astray' => readyqueue = <<>> /\ running # S!idle_task
                    /\ running' = running]_vars
  BY NextKeeps DEF LoneYield
<1>2. QED
  BY <1>1, KernelInvariance, PTL DEF Spec, OnlyLoneYieldGoesAstray
-----------------------------------------------------------------------------
(* The kernel implements its parts.                                        *)

\* Every step of the kernel is one of the scheduler, or leaves it alone.
THEOREM KernelIsScheduler == Spec => SchedulerSpec
<1>1. Init => S!Init
  BY DEF Init
<1>2. [Next]_vars => [S!Next]_(S!vars)
  BY DEF Next, vars, sched_vars, clock_routine, sys_yield, sys_fork,
         sys_fork_EAGAIN, sys_exit, running_process, S!Next, S!vars
<1>3. QED
  BY <1>1, <1>2, PTL DEF Spec, SchedulerSpec, S!Spec

\* Every step of the kernel is one of the memory, made by the process that runs
\* and, if it is a fork, into a slot that no process has.
THEOREM KernelIsMemory == Spec => MemorySpec
<1>1. Init => M!Init
  BY DEF Init
<1>2. ASSUME KInv, Next
      PROVE  M!Next \/ UNCHANGED M!vars
  <2>1. CASE clock_routine \/ sys_yield
    BY <2>1 DEF clock_routine, sys_yield, memory_vars, M!vars
  <2>2. CASE sys_fork \/ sys_fork_EAGAIN
    <3>1. M!sys_fork(running, Head(freequeue))
          \/ M!sys_fork_EAGAIN(running, Head(freequeue))
      BY <2>2 DEF sys_fork, sys_fork_EAGAIN
    <3>2. running \in M!Slot /\ Head(freequeue) \in M!Slot
      <4>1. running # S!idle_task /\ freequeue # <<>>
        BY <2>2 DEF sys_fork, sys_fork_EAGAIN, S!sys_fork, S!sys_fork_EAGAIN
      <4>2. QED
        BY <1>2, <4>1, FreeSlot, SchedulerFacts, SlotFacts DEF KInv
    <3>3. QED
      BY <3>1, <3>2 DEF M!handler, M!Next
  <2>3. CASE sys_exit \/ running_process
    <3>1. running \in M!Slot
      BY <1>2, <2>3, SchedulerFacts, SlotFacts
         DEF KInv, sys_exit, S!sys_exit, running_process
    <3>2. M!sys_exit(running) \/ memory_step(running)
      BY <2>3 DEF sys_exit, exit_memory, running_process
    <3>3. QED
      BY <3>1, <3>2 DEF memory_step, M!handler, M!Next
  <2>4. QED
    BY <1>2, <2>1, <2>2, <2>3 DEF Next
<1>3. KInv /\ [Next]_vars => [M!Next]_(M!vars)
  BY <1>2 DEF vars, memory_vars, M!vars
<1>4. QED
  BY <1>1, <1>3, KernelInvariance, PTL DEF Spec, MemorySpec, M!Spec

\* So what is proved of the scheduler holds of the kernel: no slot is lost or is
\* in two places, with the memory deciding when a fork fails.
THEOREM KernelLosesNoSlot == Spec => []S!TaskInOnePlace
<1>1. KInv => S!TaskInOnePlace
  BY DEF KInv, SP!IInv, SP!TaskInOnePlace, S!TaskInOnePlace, SP!Range, S!Range,
         SP!IsInjective, S!IsInjective, SP!Task, S!Task, SP!idle_task,
         S!idle_task
<1>2. QED
  BY <1>1, KernelInvariance, PTL
=============================================================================
