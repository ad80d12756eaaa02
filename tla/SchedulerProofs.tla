--------------------------- MODULE SchedulerProofs ---------------------------
(***************************************************************************)
(* Theorems about module Scheduler, for every size of the task table, every *)
(* quantum and every bound on the PIDs.                                    *)
(***************************************************************************)
EXTENDS SchedulerWait, QueueLemmas

-----------------------------------------------------------------------------
(* The inductive invariant.  Each part needs others: queueing the running  *)
(* task keeps the queues disjoint because it was on neither and its state  *)
(* was ST_RUN, and idle is never queued because it only runs with an empty *)
(* ready queue.                                                            *)

IInv ==
  /\ TypeOK
  /\ TaskInOnePlace
  /\ IdleOnlyWhenNoProcess
  /\ StateMatchesQueue
  /\ QuantumInRange
  /\ ProcessPIDsUnique

\* What the switch needs of the queue and the states it is handed, t being the
\* slot that gave up the processor: t is free or ready by then, idle excepted.
Handover(free, ready, st) ==
  /\ free \in Seq(Task) /\ IsInjective(free)
  /\ ready \in Seq(Task) /\ IsInjective(ready)
  /\ Range(free) \cap Range(ready) = {}
  /\ idle_task \notin Range(free) \cup Range(ready)
  /\ Task = Range(free) \cup Range(ready) \cup {idle_task}
  /\ st \in [Task -> state_t]
  /\ \A t \in Task : st[t] = ST_READY <=> t \in Range(ready)

\* The two tasks of the boot are slots, and the states are different.
LEMMA TaskFacts ==
  /\ idle_task \in Task
  /\ task1 \in Task
  /\ idle_task # task1
  /\ {ST_RUN, ST_READY} \subseteq state_t
  /\ ST_RUN # ST_READY
BY SchedulerAssumption DEF Task, idle_task, task1, ST_RUN, ST_READY, state_t

\* sched_next_rr puts every slot back in one place: the one it switches to is
\* running, or idle is because nothing was ready.
LEMMA SwitchSafe ==
  ASSUME NEW ready, NEW st,
         Handover(freequeue', ready, st),
         sched_next_rr(ready, st)
  PROVE  /\ readyqueue' \in Seq(Task)
         /\ running' \in Task
         /\ state' \in [Task -> state_t]
         /\ TaskInOnePlace'
         /\ IdleOnlyWhenNoProcess'
         /\ StateMatchesQueue'
         /\ QuantumInRange'
         /\ Range(readyqueue') \cup ({running'} \ {idle_task}) = Range(ready)
<1>1. CASE ready # <<>>
  <2>1. /\ running' = Head(ready)
        /\ readyqueue' = Tail(ready)
        /\ state' = [st EXCEPT ![Head(ready)] = ST_RUN]
    BY <1>1 DEF sched_next_rr
  <2>2. /\ Head(ready) \in Range(ready)
        /\ Head(ready) \in Task
        /\ Tail(ready) \in Seq(Task)
        /\ IsInjective(Tail(ready))
        /\ Range(Tail(ready)) = Range(ready) \ {Head(ready)}
    BY <1>1, TakeFirst DEF Handover
  <2>3. TaskInOnePlace'
    BY <2>1, <2>2 DEF Handover, TaskInOnePlace
  <2>4. IdleOnlyWhenNoProcess'
    BY <2>1, <2>2 DEF Handover, IdleOnlyWhenNoProcess
  <2>5. state' \in [Task -> state_t] /\ StateMatchesQueue'
    BY <2>1, <2>2, TaskFacts DEF Handover, StateMatchesQueue
  <2>6. QuantumInRange'
    BY SchedulerAssumption DEF sched_next_rr, QuantumInRange
  <2>7. Range(readyqueue') \cup ({running'} \ {idle_task}) = Range(ready)
    BY <2>1, <2>2 DEF Handover
  <2>8. QED
    BY <2>1, <2>2, <2>3, <2>4, <2>5, <2>6, <2>7
<1>2. CASE ready = <<>>
  <2>1. /\ running' = idle_task
        /\ readyqueue' = ready
        /\ state' = [st EXCEPT ![idle_task] = ST_RUN]
    BY <1>2 DEF sched_next_rr
  <2>2. Range(ready) = {}
    BY <1>2, EmptyRange DEF Handover
  <2>3. TaskInOnePlace' /\ IdleOnlyWhenNoProcess'
    BY <1>2, <2>1, <2>2 DEF Handover, TaskInOnePlace, IdleOnlyWhenNoProcess
  <2>4. state' \in [Task -> state_t] /\ StateMatchesQueue'
    BY <2>1, <2>2, TaskFacts DEF Handover, StateMatchesQueue
  <2>5. QuantumInRange'
    BY SchedulerAssumption DEF sched_next_rr, QuantumInRange
  <2>6. QED
    BY <2>1, <2>2, <2>3, <2>4, <2>5, TaskFacts DEF Handover
<1>3. QED
  BY <1>1, <1>2

\* The running process is handed over as ready: it goes to the tail, and it is
\* not unlinked first because its state is ST_RUN.
LEMMA YieldSafe ==
  ASSUME IInv, running # idle_task, freequeue' = freequeue, force_task_switch
  PROVE  /\ readyqueue' \in Seq(Task)
         /\ running' \in Task
         /\ state' \in [Task -> state_t]
         /\ TaskInOnePlace'
         /\ IdleOnlyWhenNoProcess'
         /\ StateMatchesQueue'
         /\ QuantumInRange'
         /\ Range(readyqueue') \cup ({running'} \ {idle_task}) = Process
<1> DEFINE ready == Append(readyqueue, running)
           st == [state EXCEPT ![running] = ST_READY]
<1>1. sched_next_rr(ready, st)
  BY DEF force_task_switch, update_process_state_rr, list_add_tail, IInv,
         StateMatchesQueue
<1>2. /\ ready \in Seq(Task)
      /\ Range(ready) = Range(readyqueue) \cup {running}
  BY AddTailRange DEF IInv, TypeOK
<1>3. IsInjective(ready)
  BY AddTailInjective DEF IInv, TypeOK, TaskInOnePlace
<1>4. Handover(freequeue', ready, st)
  <2>1. /\ freequeue' \in Seq(Task) /\ IsInjective(freequeue')
        /\ Range(freequeue') \cap Range(ready) = {}
        /\ idle_task \notin Range(freequeue') \cup Range(ready)
        /\ Task = Range(freequeue') \cup Range(ready) \cup {idle_task}
    BY <1>2 DEF IInv, TypeOK, TaskInOnePlace
  <2>2. /\ st \in [Task -> state_t]
        /\ \A t \in Task : st[t] = ST_READY <=> t \in Range(ready)
    BY <1>2, TaskFacts DEF IInv, TypeOK, StateMatchesQueue
  <2>3. QED
    BY <1>2, <1>3, <2>1, <2>2 DEF Handover
<1>5. Process = Range(ready)
  BY <1>2 DEF Process
<1> HIDE DEF ready, st
<1>6. QED
  BY <1>1, <1>4, <1>5, SwitchSafe

\* The first states satisfy the invariant.
LEMMA InitSafe == Init => IInv
<1> SUFFICES ASSUME Init PROVE IInv
  OBVIOUS
<1> DEFINE n == NR_TASKS - 2
<1>1. n \in Nat /\ \A i \in 1 .. n : i + 1 \in Task
  BY SchedulerAssumption DEF Task
<1>2. /\ freequeue \in [1 .. n -> Task]
      /\ freequeue \in Seq(Task)
      /\ DOMAIN freequeue = 1 .. n
      /\ \A i \in 1 .. n : freequeue[i] = i + 1
  BY <1>1 DEF Init, InitialFreequeue
<1>3. Range(freequeue) = 2 .. NR_TASKS - 1
  <2>1. \A x \in Range(freequeue) : x \in 2 .. NR_TASKS - 1
    BY <1>2, SchedulerAssumption DEF Range
  <2>2. ASSUME NEW x \in 2 .. NR_TASKS - 1
        PROVE  x \in Range(freequeue)
    <3>1. x - 1 \in 1 .. n /\ freequeue[x - 1] = (x - 1) + 1 /\ (x - 1) + 1 = x
      BY <1>2, SchedulerAssumption
    <3>2. QED
      BY <1>2, <3>1 DEF Range
  <2>3. QED
    BY <2>1, <2>2
<1>4. readyqueue \in Seq(Task) /\ Range(readyqueue) = {}
  BY DEF Init, Range
<1>5. TypeOK
  <2>1. state \in [Task -> state_t]
    BY TaskFacts DEF Init
  <2>2. PID \in [Task -> NoPID .. MaxPID]
    BY SchedulerAssumption DEF Init, NoPID
  <2>3. QED
    BY <1>2, <1>4, <2>1, <2>2, TaskFacts, SchedulerAssumption DEF Init, TypeOK
<1>6. TaskInOnePlace
  <2>1. IsInjective(freequeue)
    BY <1>2, SchedulerAssumption DEF IsInjective
  <2>2. IsInjective(readyqueue)
    BY DEF Init, IsInjective
  <2>3. Task = Range(freequeue) \cup {task1, idle_task}
    BY <1>3, SchedulerAssumption DEF Task, task1, idle_task
  <2>4. {task1, idle_task} \cap Range(freequeue) = {}
    BY <1>3, SchedulerAssumption DEF task1, idle_task
  <2>5. QED
    BY <1>4, <2>1, <2>2, <2>3, <2>4 DEF Init, TaskInOnePlace
<1>7. IdleOnlyWhenNoProcess
  BY DEF Init, IdleOnlyWhenNoProcess
<1>8. StateMatchesQueue
  BY <1>4, TaskFacts DEF Init, StateMatchesQueue
<1>9. QuantumInRange
  BY SchedulerAssumption DEF Init, QuantumInRange
<1>10. ProcessPIDsUnique
  <2>1. Process = {task1}
    BY <1>4, TaskFacts DEF Init, Process
  <2>2. PID[task1] = 1 /\ global_PID = 1000
    BY TaskFacts DEF Init, task1, idle_task
  <2>3. QED
    BY <2>1, <2>2 DEF ProcessPIDsUnique
<1>11. QED
  BY <1>5, <1>6, <1>7, <1>8, <1>9, <1>10 DEF IInv

\* A PID is only lost by an exit: with no more processes than before, and the
\* PIDs of those that remain as they were, PIDs are still unique.
LEMMA SamePIDs ==
  ASSUME ProcessPIDsUnique, Process' \subseteq Process,
         \A t \in Process' : PID'[t] = PID[t], global_PID' = global_PID
  PROVE  ProcessPIDsUnique'
BY DEF ProcessPIDsUnique

\* A tick preserves the invariant, whether it preempts or not.
LEMMA ClockSafe ==
  ASSUME IInv, clock_routine
  PROVE  IInv'
<1> DEFINE rq == remaining_quantum - 1
<1>1. /\ UNCHANGED <<freequeue, PID, global_PID>>
      /\ \/ needs_sched_rr(rq) /\ force_task_switch
         \/ /\ ~needs_sched_rr(rq)
            /\ remaining_quantum' = reload(rq)
            /\ UNCHANGED <<readyqueue, running, state>>
  BY DEF clock_routine
<1>2. CASE needs_sched_rr(rq) /\ force_task_switch
  <2>1. readyqueue # <<>>
    BY <1>2 DEF needs_sched_rr
  <2>2. running # idle_task
    BY <2>1 DEF IInv, IdleOnlyWhenNoProcess
  <2>3. /\ readyqueue' \in Seq(Task)
        /\ running' \in Task
        /\ state' \in [Task -> state_t]
        /\ TaskInOnePlace'
        /\ IdleOnlyWhenNoProcess'
        /\ StateMatchesQueue'
        /\ QuantumInRange'
        /\ Range(readyqueue') \cup ({running'} \ {idle_task}) = Process
    BY <1>1, <1>2, <2>2, YieldSafe
  <2>4. ProcessPIDsUnique'
    BY <1>1, <2>3, SamePIDs DEF IInv, Process
  <2>5. TypeOK'
    BY <1>1, <2>3 DEF IInv, TypeOK, QuantumInRange
  <2>6. QED
    BY <2>3, <2>4, <2>5 DEF IInv
<1>3. CASE /\ ~needs_sched_rr(rq)
           /\ remaining_quantum' = reload(rq)
           /\ UNCHANGED <<readyqueue, running, state>>
  <2>1. reload(rq) \in 1 .. DEFAULT_QUANTUM
    BY <1>3, SchedulerAssumption DEF IInv, QuantumInRange, reload
  <2>2. QuantumInRange' /\ TypeOK'
    BY <1>1, <1>3, <2>1 DEF IInv, TypeOK, QuantumInRange
  <2>3. TaskInOnePlace' /\ IdleOnlyWhenNoProcess' /\ StateMatchesQueue'
    BY <1>1, <1>3 DEF IInv, TaskInOnePlace, IdleOnlyWhenNoProcess,
                      StateMatchesQueue
  <2>4. ProcessPIDsUnique'
    BY <1>1, <1>3 DEF IInv, ProcessPIDsUnique, Process
  <2>5. QED
    BY <2>2, <2>3, <2>4 DEF IInv
<1>4. QED
  BY <1>1, <1>2, <1>3

\* A yield preserves it: the yielding process waits at the tail.
LEMMA SysYieldSafe ==
  ASSUME IInv, sys_yield
  PROVE  IInv'
<1>1. /\ running # idle_task /\ force_task_switch
      /\ UNCHANGED <<freequeue, PID, global_PID>>
  BY DEF sys_yield
<1>2. /\ readyqueue' \in Seq(Task)
      /\ running' \in Task
      /\ state' \in [Task -> state_t]
      /\ TaskInOnePlace'
      /\ IdleOnlyWhenNoProcess'
      /\ StateMatchesQueue'
      /\ QuantumInRange'
      /\ Range(readyqueue') \cup ({running'} \ {idle_task}) = Process
  BY <1>1, YieldSafe
<1>3. ProcessPIDsUnique'
  BY <1>1, <1>2, SamePIDs DEF IInv, Process
<1>4. TypeOK'
  BY <1>1, <1>2 DEF IInv, TypeOK, QuantumInRange
<1>5. QED
  BY <1>2, <1>3, <1>4 DEF IInv

\* An exit preserves it: the slot of the dead process is free.
LEMMA ExitSafe ==
  ASSUME IInv, sys_exit
  PROVE  IInv'
<1>1. /\ running # idle_task
      /\ freequeue' = Append(freequeue, running)
      /\ PID' = [PID EXCEPT ![running] = NoPID]
      /\ sched_next_rr(readyqueue, state)
      /\ global_PID' = global_PID
  BY DEF sys_exit, list_add_tail
<1>2. /\ freequeue' \in Seq(Task)
      /\ Range(freequeue') = Range(freequeue) \cup {running}
  BY <1>1, AddTailRange DEF IInv, TypeOK
<1>3. IsInjective(freequeue')
  BY <1>1, AddTailInjective DEF IInv, TypeOK, TaskInOnePlace
<1>4. Handover(freequeue', readyqueue, state)
  BY <1>1, <1>2, <1>3
     DEF IInv, TypeOK, TaskInOnePlace, StateMatchesQueue, Handover
<1>5. /\ readyqueue' \in Seq(Task)
      /\ running' \in Task
      /\ state' \in [Task -> state_t]
      /\ TaskInOnePlace'
      /\ IdleOnlyWhenNoProcess'
      /\ StateMatchesQueue'
      /\ QuantumInRange'
      /\ Range(readyqueue') \cup ({running'} \ {idle_task}) = Range(readyqueue)
  BY <1>1, <1>4, SwitchSafe
<1>6. ProcessPIDsUnique'
  <2>1. Process' = Range(readyqueue) /\ running \notin Range(readyqueue)
    BY <1>5 DEF Process, IInv, TaskInOnePlace
  <2>2. \A t \in Process' : PID'[t] = PID[t]
    BY <1>1, <2>1, RangeOfSeq DEF IInv, TypeOK
  <2>3. QED
    BY <1>1, <2>1, <2>2, SamePIDs DEF IInv, Process
<1>7. TypeOK'
  <2>1. PID' \in [Task -> NoPID .. MaxPID]
    BY <1>1, SchedulerAssumption DEF IInv, TypeOK, NoPID
  <2>2. QED
    BY <1>1, <1>2, <1>5, <2>1 DEF IInv, TypeOK, QuantumInRange
<1>8. QED
  BY <1>5, <1>6, <1>7 DEF IInv

\* A fork that succeeds and one that fails preserve it.
LEMMA ForkSafe ==
  ASSUME IInv, sys_fork
  PROVE  IInv'
<1> DEFINE uchild == Head(freequeue)
<1>1. /\ running # idle_task /\ freequeue # <<>> /\ global_PID < MaxPID
      /\ freequeue' = Tail(freequeue)
      /\ readyqueue' = Append(readyqueue, uchild)
      /\ state' = [state EXCEPT ![uchild] = ST_READY]
      /\ PID' = [PID EXCEPT ![uchild] = global_PID + 1]
      /\ global_PID' = global_PID + 1
      /\ UNCHANGED <<running, remaining_quantum>>
  BY DEF sys_fork, list_add_tail
<1>2. /\ uchild \in Range(freequeue)
      /\ uchild \in Task
      /\ freequeue' \in Seq(Task)
      /\ IsInjective(freequeue')
      /\ Range(freequeue') = Range(freequeue) \ {uchild}
  BY <1>1, TakeFirst DEF IInv, TypeOK, TaskInOnePlace
<1>3. /\ uchild \notin Range(readyqueue)
      /\ uchild # running /\ uchild # idle_task
  BY <1>2 DEF IInv, TaskInOnePlace
<1>4. /\ readyqueue' \in Seq(Task)
      /\ Range(readyqueue') = Range(readyqueue) \cup {uchild}
  BY <1>1, <1>2, AddTailRange DEF IInv, TypeOK
<1>5. IsInjective(readyqueue')
  BY <1>1, <1>2, <1>3, AddTailInjective DEF IInv, TypeOK, TaskInOnePlace
<1> HIDE DEF uchild
<1>6. TaskInOnePlace'
  BY <1>1, <1>2, <1>3, <1>4, <1>5 DEF IInv, TaskInOnePlace
<1>7. IdleOnlyWhenNoProcess'
  BY <1>1 DEF IdleOnlyWhenNoProcess
<1>8. StateMatchesQueue'
  BY <1>1, <1>2, <1>3, <1>4, TaskFacts DEF IInv, TypeOK, StateMatchesQueue
<1>9. QuantumInRange'
  BY <1>1 DEF IInv, QuantumInRange
<1>10. ProcessPIDsUnique'
  <2>1. Process' = Process \cup {uchild} /\ uchild \notin Process
    BY <1>1, <1>3, <1>4 DEF Process
  <2>2. Process \subseteq Task
    BY RangeOfSeq DEF Process, IInv, TypeOK
  <2>3. \A t \in Process : PID'[t] = PID[t]
    BY <1>1, <2>1, <2>2 DEF IInv, TypeOK
  <2>4. PID'[uchild] = global_PID + 1
    BY <1>1, <1>2 DEF IInv, TypeOK
  <2>5. global_PID \in Int /\ global_PID >= 1000
    BY SchedulerAssumption DEF IInv, TypeOK
  <2>6. \A t \in Process : PID[t] \in 1 .. global_PID
    BY DEF IInv, ProcessPIDsUnique
  <2>7. \A t, u \in Process : PID[t] = PID[u] => t = u
    BY DEF IInv, ProcessPIDsUnique
  <2>8. \A t \in Process' : PID'[t] \in 1 .. global_PID'
    BY <1>1, <2>1, <2>3, <2>4, <2>5, <2>6
  <2>9. \A t \in Process : PID'[t] # PID'[uchild]
    BY <2>3, <2>4, <2>5, <2>6
  <2>10. \A t, u \in Process' : PID'[t] = PID'[u] => t = u
    BY <2>1, <2>3, <2>7, <2>9
  <2>11. QED
    BY <2>8, <2>10 DEF ProcessPIDsUnique
<1>11. TypeOK'
  <2>1. state' \in [Task -> state_t]
    BY <1>1, TaskFacts DEF IInv, TypeOK
  <2>2. global_PID' \in 1000 .. MaxPID /\ global_PID + 1 \in NoPID .. MaxPID
    BY <1>1, SchedulerAssumption DEF IInv, TypeOK, NoPID
  <2>3. PID' \in [Task -> NoPID .. MaxPID]
    <3>1. PID \in [Task -> NoPID .. MaxPID]
      BY DEF IInv, TypeOK
    <3>2. PID' = [PID EXCEPT ![uchild] = global_PID + 1]
      BY <1>1
    <3>3. QED
      BY <2>2, <3>1, <3>2, Zenon
  <2>4. QED
    BY <1>1, <1>2, <1>4, <2>1, <2>2, <2>3 DEF IInv, TypeOK
<1>12. QED
  BY <1>6, <1>7, <1>8, <1>9, <1>10, <1>11 DEF IInv

\* A failed fork only rotates the free queue: the parent's PID and state that
\* it leaves in the slot are those of no other process than the parent.
LEMMA FailedForkSafe ==
  ASSUME IInv, sys_fork_EAGAIN
  PROVE  IInv'
<1> DEFINE uchild == Head(freequeue)
           rest == Tail(freequeue)
<1>1. /\ freequeue # <<>>
      /\ freequeue' = Append(rest, uchild)
      /\ PID' = [PID EXCEPT ![uchild] = PID[running]]
      /\ state' = [state EXCEPT ![uchild] = state[running]]
      /\ UNCHANGED <<readyqueue, running, remaining_quantum, global_PID>>
  BY DEF sys_fork_EAGAIN, list_add_tail
<1>2. /\ uchild \in Range(freequeue)
      /\ uchild \in Task
      /\ rest \in Seq(Task)
      /\ IsInjective(rest)
      /\ Range(rest) = Range(freequeue) \ {uchild}
  BY <1>1, TakeFirst DEF IInv, TypeOK, TaskInOnePlace
<1> HIDE DEF uchild, rest
<1>3. /\ freequeue' \in Seq(Task)
      /\ Range(freequeue') = Range(freequeue)
  <2>1. /\ Append(rest, uchild) \in Seq(Task)
        /\ Range(Append(rest, uchild)) = Range(rest) \cup {uchild}
    BY <1>2, AddTailRange
  <2>2. Range(rest) \cup {uchild} = Range(freequeue)
    BY <1>2
  <2>3. QED
    BY <1>1, <2>1, <2>2
<1>4. IsInjective(freequeue')
  BY <1>1, <1>2, AddTailInjective
<1>5. uchild # running /\ uchild \notin Range(readyqueue)
  BY <1>2 DEF IInv, TaskInOnePlace
<1>6. TaskInOnePlace'
  BY <1>1, <1>3, <1>4 DEF IInv, TaskInOnePlace
<1>7. IdleOnlyWhenNoProcess' /\ QuantumInRange'
  BY <1>1 DEF IInv, IdleOnlyWhenNoProcess, QuantumInRange
<1>8. StateMatchesQueue'
  BY <1>1, <1>2, <1>5, TaskFacts DEF IInv, TypeOK, StateMatchesQueue
<1>9. ProcessPIDsUnique'
  <2>1. Process' = Process /\ Process \subseteq Task /\ uchild \notin Process
    BY <1>1, <1>5, RangeOfSeq DEF Process, IInv, TypeOK
  <2>2. \A t \in Process' : PID'[t] = PID[t]
    BY <1>1, <2>1 DEF IInv, TypeOK
  <2>3. QED
    BY <1>1, <2>1, <2>2, SamePIDs DEF IInv
<1>10. TypeOK'
  BY <1>1, <1>2, <1>3 DEF IInv, TypeOK
<1>11. QED
  BY <1>6, <1>7, <1>8, <1>9, <1>10 DEF IInv

\* Every step of the kernel preserves the invariant.
LEMMA NextSafe ==
  ASSUME IInv, [Next]_vars
  PROVE  IInv'
<1>1. CASE clock_routine
  BY <1>1, ClockSafe
<1>2. CASE sys_fork
  BY <1>2, ForkSafe
<1>3. CASE sys_fork_EAGAIN
  BY <1>3, FailedForkSafe
<1>4. CASE sys_exit
  BY <1>4, ExitSafe
<1>5. CASE sys_yield
  BY <1>5, SysYieldSafe
<1>6. CASE UNCHANGED vars
  BY <1>6 DEF vars, IInv, TypeOK, TaskInOnePlace, IdleOnlyWhenNoProcess,
              StateMatchesQueue, QuantumInRange, ProcessPIDsUnique, Process
<1>7. QED
  BY <1>1, <1>2, <1>3, <1>4, <1>5, <1>6 DEF Next
-----------------------------------------------------------------------------
(* The theorems.                                                           *)

\* The inductive invariant holds in every state of every behaviour: what all
\* the handlers of the kernel keep together.
THEOREM Invariance == Spec => []IInv
<1>1. Init => IInv
  BY InitSafe
<1>2. IInv /\ [Next]_vars => IInv'
  BY NextSafe
<1>3. QED
  BY <1>1, <1>2, PTL DEF Spec

\* Every variable always has its type: queues hold slots, the running task is a
\* slot, and PIDs stay between that of a free slot and the model's bound.
THEOREM TypeCorrect == Spec => []TypeOK
<1>1. IInv => TypeOK
  BY DEF IInv
<1>2. QED
  BY <1>1, Invariance, PTL

\* No handler loses a slot or leaves one in two places.
THEOREM NoSlotLost == Spec => []TaskInOnePlace
<1>1. IInv => TaskInOnePlace
  BY DEF IInv
<1>2. QED
  BY <1>1, Invariance, PTL

\* Idle never has the processor while a process waits for it, so schedule never
\* queues idle.
THEOREM IdleIsLast == Spec => []IdleOnlyWhenNoProcess
<1>1. IInv => IdleOnlyWhenNoProcess
  BY DEF IInv
<1>2. QED
  BY <1>1, Invariance, PTL

\* The state field agrees with the queue a task is on, so the list_del of
\* update_process_state_rr never runs on an unlinked task.
THEOREM StateIsTrue == Spec => []StateMatchesQueue
<1>1. IInv => StateMatchesQueue
  BY DEF IInv
<1>2. QED
  BY <1>1, Invariance, PTL

\* The quantum always expires: it never skips the zero schedule tests for.
THEOREM QuantumExpires == Spec => []QuantumInRange
<1>1. IInv => QuantumInRange
  BY DEF IInv
<1>2. QED
  BY <1>1, Invariance, PTL

\* No two processes have the same PID, whatever forks failed before.
THEOREM PIDsUnique == Spec => []ProcessPIDsUnique
<1>1. IInv => ProcessPIDsUnique
  BY DEF IInv
<1>2. QED
  BY <1>1, Invariance, PTL

\* What a handler can do to the ready queue: nothing, queue a task that is not on
\* it at the tail, or take the first of either.
LEMMA QueueSteps ==
  ASSUME IInv, Next
  PROVE  \E q \in {readyqueue} \cup
                   {Append(readyqueue, t) : t \in Task \ Range(readyqueue)} :
            readyqueue' = q \/ (q # <<>> /\ readyqueue' = Tail(q))
<1> USE DEF list_add_tail
<1>1. ASSUME force_task_switch
      PROVE  /\ Append(readyqueue, running) # <<>>
             /\ running \in Task \ Range(readyqueue)
             /\ readyqueue' = Tail(Append(readyqueue, running))
  <2>1. running \in Task \ Range(readyqueue) /\ Append(readyqueue, running) # <<>>
    <3>1. readyqueue \in Seq(Task) /\ running \in Task
      BY DEF IInv, TypeOK
    <3>2. QED
      BY <3>1, AddTailRange DEF IInv, TaskInOnePlace
  <2>2. sched_next_rr(Append(readyqueue, running),
                      [state EXCEPT ![running] = ST_READY])
    BY <1>1 DEF force_task_switch, update_process_state_rr, IInv, StateMatchesQueue
  <2>3. QED
    BY <2>1, <2>2 DEF sched_next_rr
<1>2. CASE clock_routine \/ sys_yield
  BY <1>1, <1>2 DEF clock_routine, sys_yield
<1>3. CASE sys_exit
  BY <1>3 DEF sys_exit, sched_next_rr
<1>4. CASE sys_fork
  <2>1. Head(freequeue) \in Range(freequeue) /\ Head(freequeue) \in Task
    BY <1>4, TakeFirst DEF sys_fork, IInv, TypeOK, TaskInOnePlace
  <2>2. Head(freequeue) \in Task \ Range(readyqueue)
    BY <2>1 DEF IInv, TaskInOnePlace
  <2>3. QED
    BY <1>4, <2>2 DEF sys_fork
<1>5. CASE sys_fork_EAGAIN
  BY <1>5 DEF sys_fork_EAGAIN
<1>6. QED
  BY <1>2, <1>3, <1>4, <1>5 DEF Next

\* In a queue that grew at the tail or lost its first, whoever is ahead of an old
\* member was so before.
LEMMA OrderKept ==
  ASSUME NEW S, NEW r \in Seq(S), NEW q \in Seq(S), IsInjective(q),
         Len(r) <= Len(q), \A i \in 1 .. Len(r) : q[i] = r[i],
         NEW n, n = q \/ (q # <<>> /\ n = Tail(q)),
         NEW i \in DOMAIN n, NEW j \in DOMAIN n, i < j, n[j] \in Range(r)
  PROVE  \E k, m \in DOMAIN r : k < m /\ r[k] = n[i] /\ r[m] = n[j]
<1>1. /\ Len(r) \in Nat /\ DOMAIN r = 1 .. Len(r)
      /\ Len(q) \in Nat /\ DOMAIN q = 1 .. Len(q)
  BY LenProperties
<1>2. PICK s \in {0, 1} : /\ i \in Nat /\ i + s \in 1 .. Len(q) /\ n[i] = q[i + s]
                          /\ j \in Nat /\ j + s \in 1 .. Len(q) /\ n[j] = q[j + s]
  <2>1. CASE n = q
    <3>1. /\ i \in Nat /\ i + 0 \in 1 .. Len(q) /\ n[i] = q[i + 0]
          /\ j \in Nat /\ j + 0 \in 1 .. Len(q) /\ n[j] = q[j + 0]
      BY <1>1, <2>1
    <3>2. QED
      BY <3>1
  <2>2. CASE q # <<>> /\ n = Tail(q)
    <3>1. /\ Tail(q) \in Seq(S) /\ Len(Tail(q)) = Len(q) - 1
          /\ \A k \in 1 .. Len(Tail(q)) : Tail(q)[k] = q[k + 1]
      BY <2>2, HeadTailProperties
    <3>2. DOMAIN n = 1 .. Len(q) - 1
      BY <2>2, <3>1, LenProperties
    <3>3. i \in 1 .. Len(q) - 1 /\ j \in 1 .. Len(q) - 1
      BY <3>2
    <3>4. n[i] = q[i + 1] /\ n[j] = q[j + 1]
      BY <2>2, <3>1, <3>3
    <3>5. QED
      BY <1>1, <3>3, <3>4
  <2>3. QED
    BY <2>1, <2>2
<1>3. PICK m \in 1 .. Len(r) : r[m] = n[j]
  BY <1>1 DEF Range
<1>4. m \in 1 .. Len(q) /\ q[m] = q[j + s]
  BY <1>1, <1>2, <1>3
<1>5. m = j + s
  BY <1>1, <1>2, <1>4 DEF IsInjective
<1>6. i + s \in 1 .. Len(r) /\ i + s < m /\ r[i + s] = n[i]
  BY <1>1, <1>2, <1>5
<1>7. QED
  BY <1>1, <1>3, <1>6

\* The ready queue is first come, first served: nobody gets ahead of a process
\* that waits, whatever calls the others make.
THEOREM FirstComeFirstServed == Spec => NoOvertaking
<1> DEFINE kept == \A t \in Range(readyqueue) :
                      t \in Range(readyqueue') => Ahead(t)' \subseteq Ahead(t)
<1>1. ASSUME IInv, Next PROVE kept
  <2>1. PICK q \in {readyqueue} \cup
                   {Append(readyqueue, t) : t \in Task \ Range(readyqueue)} :
               readyqueue' = q \/ (q # <<>> /\ readyqueue' = Tail(q))
    BY <1>1, QueueSteps
  <2>2. readyqueue \in Seq(Task) /\ IsInjective(readyqueue)
    BY <1>1 DEF IInv, TypeOK, TaskInOnePlace
  <2>3. /\ q \in Seq(Task) /\ IsInjective(q) /\ Len(readyqueue) <= Len(q)
        /\ \A i \in 1 .. Len(readyqueue) : q[i] = readyqueue[i]
    <3>1. CASE q = readyqueue
      BY <2>2, <3>1, LenProperties
    <3>2. ASSUME NEW t \in Task \ Range(readyqueue), q = Append(readyqueue, t)
          PROVE  <2>3!1
      <4>1. q \in Seq(Task) /\ IsInjective(q)
        BY <2>2, <3>2, AddTailInjective, AppendProperties
      <4>2. /\ Len(q) = Len(readyqueue) + 1
            /\ \A i \in 1 .. Len(readyqueue) : q[i] = readyqueue[i]
        BY <2>2, <3>2, AppendProperties
      <4>3. QED
        BY <2>2, <4>1, <4>2, LenProperties
    <3>3. QED
      BY <2>1, <3>1, <3>2
  <2>4. SUFFICES ASSUME NEW t \in Range(readyqueue), NEW u \in Ahead(t)'
                 PROVE  u \in Ahead(t)
    OBVIOUS
  <2>5. PICK i \in DOMAIN readyqueue', j \in DOMAIN readyqueue' :
               i < j /\ readyqueue'[i] = u /\ readyqueue'[j] = t
    BY <2>4 DEF Ahead
  <2>6. \E k, m \in DOMAIN readyqueue : k < m /\ readyqueue[k] = u /\ readyqueue[m] = t
    BY <2>1, <2>2, <2>3, <2>4, <2>5, OrderKept
  <2>7. QED
    BY <2>4, <2>6 DEF Ahead
<1>2. IInv /\ [Next]_vars => [kept]_vars
  BY <1>1
<1>3. QED
  BY <1>2, Invariance, PTL DEF Spec, NoOvertaking
-----------------------------------------------------------------------------
(* How long a ready process can wait.  The argument is a budget: what it   *)
(* has waited, plus what is left of the running quantum, plus one quantum  *)
(* for each process ahead of it, is at most MaxWait when it is queued and  *)
(* never grows afterwards.                                                 *)

\* The scheduler's invariant, the type of the history variable, the budget.
WInv ==
  /\ IInv
  /\ waited \in [Task -> Nat]
  /\ WaitBudget

\* Arithmetic: quanta are added one by one, and more of them is more.
LEMMA OneMore ==
  ASSUME NEW i \in Int, NEW q \in Int
  PROVE  (i - 1) * q + q = i * q
BY Z3

\* Multiplication by the quantum keeps an order.
LEMMA MoreQuanta ==
  ASSUME NEW m \in Int, NEW n \in Int, m <= n, NEW q \in Nat
  PROVE  m * q <= n * q
<1>1. (n - m) * q >= 0
  BY Z3
<1>2. (n - m) * q = n * q - m * q
  BY Z3
<1>3. m * q \in Int /\ n * q \in Int
  OBVIOUS
<1>4. QED
  BY <1>1, <1>2, <1>3, Z3

\* A queue without repetitions that holds neither idle nor another process has
\* at most NR_TASKS - 2 places.
LEMMA QueueShort ==
  ASSUME NEW q \in Seq(Task), IsInjective(q),
         NEW r \in Task \ {idle_task}, {r, idle_task} \cap Range(q) = {}
  PROVE  Len(q) <= NR_TASKS - 2
<1> DEFINE n == Len(q)
           T == Task \ {idle_task, r}
<1>1. /\ n \in Nat
      /\ q \in [1 .. n -> Task]
      /\ DOMAIN q = 1 .. n
  BY LenProperties
<1>2. \A i \in 1 .. n : q[i] \in T
  BY <1>1 DEF Range
<1>3. q \in Injection(1 .. n, T)
  BY <1>1, <1>2 DEF Injection
<1>4. IsFiniteSet(Task) /\ Cardinality(Task) = NR_TASKS
  <2>1. 0 \in Int /\ NR_TASKS - 1 \in Int /\ ~(0 > NR_TASKS - 1)
    BY SchedulerAssumption
  <2>2. IsFiniteSet(0 .. NR_TASKS - 1)
        /\ Cardinality(0 .. NR_TASKS - 1) = NR_TASKS - 1 - 0 + 1
    BY <2>1, FS_Interval
  <2>3. QED
    BY <2>2, SchedulerAssumption DEF Task
<1>5. /\ IsFiniteSet(Task \ {idle_task})
      /\ Cardinality(Task \ {idle_task}) = NR_TASKS - 1
  BY <1>4, FS_RemoveElement, TaskFacts
<1>6. /\ IsFiniteSet((Task \ {idle_task}) \ {r})
      /\ Cardinality((Task \ {idle_task}) \ {r}) = NR_TASKS - 1 - 1
  BY <1>5, FS_RemoveElement
<1>7. T = (Task \ {idle_task}) \ {r}
  OBVIOUS
<1>8. IsFiniteSet(T) /\ Cardinality(T) = NR_TASKS - 2
  BY <1>6, <1>7, SchedulerAssumption, SMTT(30)
<1>9. Cardinality(1 .. n) <= Cardinality(T)
  BY <1>3, <1>8, FS_Injection
<1>10. Cardinality(1 .. n) = n
  <2>1. 1 \in Int /\ n \in Int
    BY <1>1
  <2>2. Cardinality(1 .. n) = IF 1 > n THEN 0 ELSE n - 1 + 1
    BY <2>1, FS_Interval
  <2>3. QED
    BY <1>1, <2>2
<1>11. QED
  BY <1>8, <1>9, <1>10

\* A process at place n of the queue, having waited nothing, fits the budget
\* whatever is left of the quantum.
LEMMA NewcomerFits ==
  ASSUME NEW n \in Nat \ {0}, n <= NR_TASKS - 2,
         NEW rq \in 1 .. DEFAULT_QUANTUM
  PROVE  0 + rq + (n - 1) * DEFAULT_QUANTUM <= MaxWait
<1>1. DEFAULT_QUANTUM \in Nat /\ NR_TASKS - 2 \in Int /\ n \in Int
  BY SchedulerAssumption
<1>2. (n - 1) * DEFAULT_QUANTUM + DEFAULT_QUANTUM = n * DEFAULT_QUANTUM
  BY <1>1, OneMore
<1>3. n * DEFAULT_QUANTUM <= (NR_TASKS - 2) * DEFAULT_QUANTUM
  BY <1>1, MoreQuanta
<1>4. /\ (n - 1) * DEFAULT_QUANTUM \in Int
      /\ n * DEFAULT_QUANTUM \in Int
      /\ (NR_TASKS - 2) * DEFAULT_QUANTUM \in Int
  BY <1>1
<1>5. QED
  BY <1>1, <1>2, <1>3, <1>4 DEF MaxWait

\* A process that keeps its place, or moves one place forward when a switch
\* starts a new quantum, stays within the budget; a tick takes as much from the
\* quantum as it adds to the wait.
LEMMA WaitingFits ==
  ASSUME WInv, NEW i \in DOMAIN readyqueue, NEW tick \in {0, 1},
         NEW rq \in Int, NEW j \in Int,
         \/ j = i /\ rq + tick <= remaining_quantum
         \/ j = i - 1 /\ rq = DEFAULT_QUANTUM /\ tick <= remaining_quantum
  PROVE  waited[readyqueue[i]] + tick + rq + (j - 1) * DEFAULT_QUANTUM
            <= MaxWait
<1> DEFINE w == waited[readyqueue[i]]
<1>1. /\ DEFAULT_QUANTUM \in Nat /\ i \in Int /\ remaining_quantum \in Int
      /\ readyqueue[i] \in Task
  BY SchedulerAssumption, LenProperties DEF WInv, IInv, TypeOK
<1>2. w \in Nat
  BY <1>1 DEF WInv
<1>3. w + remaining_quantum + (i - 1) * DEFAULT_QUANTUM <= MaxWait
  BY DEF WInv, WaitBudget
<1>4. MaxWait \in Int /\ (i - 1) * DEFAULT_QUANTUM \in Int
  BY <1>1, SchedulerAssumption DEF MaxWait
<1> HIDE DEF w
<1>5. CASE j = i /\ rq + tick <= remaining_quantum
  BY <1>1, <1>2, <1>3, <1>4, <1>5 DEF w
<1>6. CASE j = i - 1 /\ rq = DEFAULT_QUANTUM /\ tick <= remaining_quantum
  <2>1. (j - 1) * DEFAULT_QUANTUM + DEFAULT_QUANTUM = (i - 1) * DEFAULT_QUANTUM
    BY <1>1, <1>6, OneMore
  <2>2. (j - 1) * DEFAULT_QUANTUM \in Int
    BY <1>1
  <2>3. QED
    BY <1>1, <1>2, <1>3, <1>4, <1>6, <2>1, <2>2 DEF w
<1>7. QED
  BY <1>5, <1>6

\* What Wait does to one process that is ready after the step.
LEMMA WaitOf ==
  ASSUME WInv, IInv', NEW tick \in {0, 1}, Wait(tick),
         NEW t \in Range(readyqueue')
  PROVE  /\ t \in Range(readyqueue) => waited'[t] = waited[t] + tick
         /\ t \notin Range(readyqueue) => waited'[t] = 0
<1>1. t \in Task
  BY RangeOfSeq DEF IInv, TypeOK
<1>2. QED
  BY <1>1 DEF Wait

\* The queue is left alone and the tick is paid for, or nobody is waiting.
LEMMA BudgetKept ==
  ASSUME WInv, IInv', NEW tick \in {0, 1}, Wait(tick),
         readyqueue' = readyqueue,
         remaining_quantum' + tick <= remaining_quantum \/ readyqueue = <<>>
  PROVE  WaitBudget'
<1>1. SUFFICES ASSUME NEW i \in DOMAIN readyqueue
               PROVE  waited'[readyqueue[i]] + remaining_quantum'
                        + (i - 1) * DEFAULT_QUANTUM <= MaxWait
  BY DEF WaitBudget, MaxWait
<1>2. readyqueue # <<>> /\ readyqueue[i] \in Range(readyqueue)
  BY <1>1 DEF Range
<1>3. waited'[readyqueue[i]] = waited[readyqueue[i]] + tick
  BY <1>2, WaitOf
<1>4. /\ i \in Int /\ remaining_quantum' \in Int
  BY LenProperties DEF WInv, IInv, TypeOK
<1>5. waited[readyqueue[i]] + tick + remaining_quantum'
        + (i - 1) * DEFAULT_QUANTUM <= MaxWait
  BY <1>2, <1>4, WaitingFits
<1>6. QED
  BY <1>3, <1>5

\* t is added at the tail.
LEMMA BudgetAdd ==
  ASSUME WInv, IInv', Wait(0), NEW t \in Task, t \notin Range(readyqueue),
         readyqueue' = Append(readyqueue, t),
         remaining_quantum' = remaining_quantum
  PROVE  WaitBudget'
<1> DEFINE n == Len(readyqueue)
<1>1. /\ n \in Nat
      /\ DOMAIN readyqueue = 1 .. n
      /\ DOMAIN readyqueue' = 1 .. n + 1
      /\ Len(readyqueue') = n + 1
      /\ \A i \in 1 .. n : readyqueue'[i] = readyqueue[i]
      /\ readyqueue'[n + 1] = t
  BY AppendProperties, LenProperties DEF WInv, IInv, TypeOK
<1>2. SUFFICES ASSUME NEW i \in 1 .. n + 1
               PROVE  waited'[readyqueue'[i]] + remaining_quantum'
                        + (i - 1) * DEFAULT_QUANTUM <= MaxWait
  BY <1>1 DEF WaitBudget, MaxWait
<1>3. readyqueue'[i] \in Range(readyqueue')
  BY <1>1, <1>2 DEF Range
<1>4. remaining_quantum \in 1 .. DEFAULT_QUANTUM
  BY DEF WInv, IInv, QuantumInRange
<1>5. CASE i \in 1 .. n
  <2>1. readyqueue[i] \in Range(readyqueue) /\ readyqueue'[i] = readyqueue[i]
    BY <1>1, <1>5 DEF Range
  <2>2. waited'[readyqueue'[i]] = waited[readyqueue[i]] + 0
    BY <1>3, <2>1, WaitOf
  <2>3. waited[readyqueue[i]] + 0 + remaining_quantum
          + (i - 1) * DEFAULT_QUANTUM <= MaxWait
    BY <1>1, <1>4, <1>5, WaitingFits
  <2>4. QED
    BY <2>2, <2>3
<1>6. CASE i = n + 1
  <2>1. waited'[readyqueue'[i]] = 0
    BY <1>1, <1>3, <1>6, WaitOf
  <2>2. running' # idle_task
    BY <1>1, EmptySeq DEF IInv, IdleOnlyWhenNoProcess
  <2>3. Len(readyqueue') <= NR_TASKS - 2
    <3>1. /\ readyqueue' \in Seq(Task)
          /\ IsInjective(readyqueue')
          /\ running' \in Task \ {idle_task}
          /\ {running', idle_task} \cap Range(readyqueue') = {}
      BY <2>2 DEF IInv, TypeOK, TaskInOnePlace
    <3>2. QED
      BY <3>1, QueueShort
  <2>4. QED
    BY <1>1, <1>4, <1>6, <2>1, <2>3, NewcomerFits
<1>7. QED
  BY <1>1, <1>2, <1>5, <1>6

\* A switch: the first of the queue runs, and t, if the running process is
\* handed over rather than dead, is last.
LEMMA BudgetSwitch ==
  ASSUME WInv, IInv', NEW tick \in {0, 1}, Wait(tick),
         tick <= remaining_quantum,
         NEW ready \in Seq(Task), NEW st, sched_next_rr(ready, st),
         ready = readyqueue \/ ready = Append(readyqueue, running)
  PROVE  WaitBudget'
<1> DEFINE n == Len(readyqueue)
<1>1. /\ n \in Nat
      /\ DOMAIN readyqueue = 1 .. n
      /\ DOMAIN readyqueue' = 1 .. Len(readyqueue')
      /\ Len(readyqueue') \in Nat
  BY LenProperties DEF WInv, IInv, TypeOK
<1>2. /\ readyqueue' = IF ready # <<>> THEN Tail(ready) ELSE ready
      /\ remaining_quantum' = DEFAULT_QUANTUM
  BY DEF sched_next_rr
<1>3. SUFFICES ASSUME NEW i \in 1 .. Len(readyqueue')
               PROVE  waited'[readyqueue'[i]] + remaining_quantum'
                        + (i - 1) * DEFAULT_QUANTUM <= MaxWait
  BY <1>1 DEF WaitBudget, MaxWait
<1>4. ready # <<>>
  BY <1>2, <1>3, EmptySeq
<1>5. /\ Len(readyqueue') = Len(ready) - 1
      /\ readyqueue'[i] = ready[i + 1]
  BY <1>2, <1>3, <1>4, HeadTailProperties
<1>6. readyqueue'[i] \in Range(readyqueue')
  BY <1>1, <1>3 DEF Range
<1>7. DEFAULT_QUANTUM \in 1 .. DEFAULT_QUANTUM /\ DEFAULT_QUANTUM \in Int
  BY SchedulerAssumption
<1>8. /\ \A k \in 1 .. n : ready[k] = readyqueue[k]
      /\ \/ Len(ready) = n
         \/ Len(ready) = n + 1 /\ ready[n + 1] = running
  <2>1. CASE ready = readyqueue
    BY <2>1
  <2>2. CASE ready = Append(readyqueue, running)
    <3>1. readyqueue \in Seq(Task) /\ running \in Task
      BY DEF WInv, IInv, TypeOK
    <3>2. QED
      BY <2>2, <3>1, AppendProperties
  <2>3. QED
    BY <2>1, <2>2
<1>9. CASE i + 1 \in 1 .. n
  <2>1. /\ readyqueue'[i] = readyqueue[i + 1]
        /\ readyqueue[i + 1] \in Range(readyqueue)
    BY <1>1, <1>5, <1>8, <1>9 DEF Range
  <2>2. waited'[readyqueue'[i]] = waited[readyqueue[i + 1]] + tick
    BY <1>6, <2>1, WaitOf
  <2>3. i + 1 \in DOMAIN readyqueue /\ i \in Int /\ i = (i + 1) - 1
    BY <1>1, <1>3, <1>9
  <2>4. waited[readyqueue[i + 1]] + tick + DEFAULT_QUANTUM
          + (i - 1) * DEFAULT_QUANTUM <= MaxWait
    BY <1>7, <2>3, WaitingFits
  <2>5. QED
    BY <1>2, <2>2, <2>4
<1>10. CASE i + 1 \notin 1 .. n
  <2>1. i + 1 = n + 1 /\ readyqueue'[i] = running
    <3>1. n \in Nat /\ i \in Nat /\ i <= Len(ready) - 1 /\ i + 1 > n
      BY <1>1, <1>3, <1>5, <1>10
    <3>2. Len(ready) = n + 1 /\ i = n /\ ready[n + 1] = running
      BY <1>8, <3>1
    <3>3. QED
      BY <1>5, <3>2
  <2>2. running \notin Range(readyqueue)
    BY DEF WInv, IInv, TaskInOnePlace
  <2>3. waited'[readyqueue'[i]] = 0
    BY <1>6, <2>1, <2>2, WaitOf
  <2>4. running' # idle_task
    BY <1>1, <1>3, EmptySeq DEF IInv, IdleOnlyWhenNoProcess
  <2>5. Len(readyqueue') <= NR_TASKS - 2
    <3>1. /\ readyqueue' \in Seq(Task)
          /\ IsInjective(readyqueue')
          /\ running' \in Task \ {idle_task}
          /\ {running', idle_task} \cap Range(readyqueue') = {}
      BY <2>4 DEF IInv, TypeOK, TaskInOnePlace
    <3>2. QED
      BY <3>1, QueueShort
  <2>6. i \in Nat \ {0} /\ i <= NR_TASKS - 2
    BY <1>1, <1>3, <2>5, SchedulerAssumption
  <2>7. QED
    BY <1>2, <1>7, <2>3, <2>6, NewcomerFits
<1>11. QED
  BY <1>9, <1>10

\* The running process, whose state is ST_RUN, is queued behind the others.
LEMMA HandedOver ==
  ASSUME IInv, force_task_switch
  PROVE  /\ Append(readyqueue, running) \in Seq(Task)
         /\ sched_next_rr(Append(readyqueue, running),
                          [state EXCEPT ![running] = ST_READY])
<1>1. readyqueue \in Seq(Task) /\ running \in Task /\ state[running] = ST_RUN
  BY DEF IInv, TypeOK, StateMatchesQueue
<1>2. QED
  BY <1>1, AppendProperties
     DEF force_task_switch, update_process_state_rr, list_add_tail

\* Every step preserves the invariant and the budget.
LEMMA WNextSafe ==
  ASSUME WInv, [WNext]_wvars
  PROVE  WInv'
<1>1. IInv /\ remaining_quantum \in 1 .. DEFAULT_QUANTUM
  BY DEF WInv, IInv, QuantumInRange
<1>2. IInv'
  <2>1. [Next]_vars
    BY DEF WNext, Next, wvars, vars
  <2>2. QED
    BY <1>1, <2>1, NextSafe
<1>3. ASSUME NEW tick \in {0, 1}, Wait(tick)
      PROVE  waited' \in [Task -> Nat]
  BY <1>3 DEF WInv, Wait
<1>4. CASE clock_routine /\ Wait(1)
  <2> DEFINE rq == remaining_quantum - 1
  <2>1. \/ needs_sched_rr(rq) /\ force_task_switch
        \/ /\ ~needs_sched_rr(rq)
           /\ remaining_quantum' = reload(rq)
           /\ readyqueue' = readyqueue
    BY <1>4 DEF clock_routine
  <2>2. WaitBudget'
    <3>1. CASE needs_sched_rr(rq) /\ force_task_switch
      <4>1. /\ Append(readyqueue, running) \in Seq(Task)
            /\ sched_next_rr(Append(readyqueue, running),
                             [state EXCEPT ![running] = ST_READY])
        BY <1>1, <3>1, HandedOver
      <4>2. 1 <= remaining_quantum
        BY <1>1
      <4>3. QED
        BY <1>2, <1>4, <4>1, <4>2, BudgetSwitch
    <3>2. CASE /\ ~needs_sched_rr(rq)
               /\ remaining_quantum' = reload(rq)
               /\ readyqueue' = readyqueue
      <4>1. remaining_quantum' + 1 <= remaining_quantum \/ readyqueue = <<>>
        BY <1>1, <3>2 DEF needs_sched_rr, reload
      <4>2. QED
        BY <1>2, <1>4, <3>2, <4>1, BudgetKept
    <3>3. QED
      BY <2>1, <3>1, <3>2
  <2>3. QED
    BY <1>2, <1>3, <1>4, <2>2 DEF WInv
<1>5. CASE sys_fork /\ Wait(0)
  <2> DEFINE uchild == Head(freequeue)
  <2>1. /\ freequeue # <<>>
        /\ readyqueue' = Append(readyqueue, uchild)
        /\ remaining_quantum' = remaining_quantum
    BY <1>5 DEF sys_fork, list_add_tail
  <2>2. uchild \in Range(freequeue) /\ uchild \in Task
    BY <1>1, <2>1, TakeFirst DEF IInv, TypeOK, TaskInOnePlace
  <2>3. uchild \notin Range(readyqueue)
    BY <1>1, <2>2 DEF IInv, TaskInOnePlace
  <2>4. WaitBudget'
    BY <1>2, <1>5, <2>1, <2>2, <2>3, BudgetAdd
  <2>5. QED
    BY <1>2, <1>3, <1>5, <2>4 DEF WInv
<1>6. CASE sys_fork_EAGAIN /\ Wait(0)
  <2>1. readyqueue' = readyqueue /\ remaining_quantum' + 0 <= remaining_quantum
    BY <1>1, <1>6 DEF sys_fork_EAGAIN
  <2>2. WaitBudget'
    BY <1>2, <1>6, <2>1, BudgetKept
  <2>3. QED
    BY <1>2, <1>3, <1>6, <2>2 DEF WInv
<1>7. CASE sys_exit /\ Wait(0)
  <2>1. /\ sched_next_rr(readyqueue, state)
        /\ readyqueue \in Seq(Task)
        /\ 0 <= remaining_quantum
    BY <1>1, <1>7 DEF sys_exit, IInv, TypeOK
  <2>2. WaitBudget'
    BY <1>2, <1>7, <2>1, BudgetSwitch
  <2>3. QED
    BY <1>2, <1>3, <1>7, <2>2 DEF WInv
<1>8. CASE sys_yield /\ Wait(0)
  <2>1. force_task_switch /\ 0 <= remaining_quantum
    BY <1>1, <1>8 DEF sys_yield
  <2>2. WaitBudget'
    BY <1>1, <1>2, <1>8, <2>1, HandedOver, BudgetSwitch
  <2>3. QED
    BY <1>2, <1>3, <1>8, <2>2 DEF WInv
<1>9. CASE UNCHANGED wvars
  BY <1>2, <1>9 DEF wvars, WInv, WaitBudget, MaxWait
<1>10. QED
  BY <1>4, <1>5, <1>6, <1>7, <1>8, <1>9 DEF WNext

\* The budget holds in every state.
THEOREM BudgetHolds == WSpec => []WaitBudget
<1>1. WInit => WInv
  <2>1. ASSUME WInit PROVE readyqueue = <<>> /\ waited \in [Task -> Nat]
    BY <2>1 DEF WInit, Init
  <2>2. QED
    BY <2>1, InitSafe DEF WInit, WInv, WaitBudget
<1>2. WInv /\ [WNext]_wvars => WInv'
  BY WNextSafe
<1>3. WInv => WaitBudget
  BY DEF WInv
<1>4. QED
  BY <1>1, <1>2, <1>3, PTL DEF WSpec

\* No ready process ever waits for (NR_TASKS - 2) * DEFAULT_QUANTUM ticks.
THEOREM WaitIsBounded == WSpec => []WaitBounded
<1>1. WInit => WInv
  <2>1. ASSUME WInit PROVE readyqueue = <<>> /\ waited \in [Task -> Nat]
    BY <2>1 DEF WInit, Init
  <2>2. QED
    BY <2>1, InitSafe DEF WInit, WInv, WaitBudget
<1>2. WInv /\ [WNext]_wvars => WInv'
  BY WNextSafe
<1>3. ASSUME WInv PROVE WaitBounded
  <2>1. SUFFICES ASSUME NEW t \in Range(readyqueue) PROVE waited[t] < MaxWait
    BY DEF WaitBounded
  <2>2. /\ DOMAIN readyqueue = 1 .. Len(readyqueue) /\ Len(readyqueue) \in Nat
        /\ remaining_quantum \in 1 .. DEFAULT_QUANTUM
        /\ DEFAULT_QUANTUM \in Nat /\ NR_TASKS \in Nat
    BY <1>3, LenProperties, SchedulerAssumption
       DEF WInv, IInv, TypeOK, QuantumInRange
  <2>3. PICK i \in DOMAIN readyqueue : t = readyqueue[i]
    BY DEF Range
  <2>4. waited[t] + remaining_quantum + (i - 1) * DEFAULT_QUANTUM <= MaxWait
    BY <1>3, <2>3 DEF WInv, WaitBudget
  <2>5. waited[t] \in Nat
    BY <1>3, <2>1, RangeOfSeq DEF WInv, IInv, TypeOK
  <2>6. 0 * DEFAULT_QUANTUM <= (i - 1) * DEFAULT_QUANTUM
    BY <2>2, MoreQuanta
  <2>7. /\ (i - 1) * DEFAULT_QUANTUM \in Int /\ 0 * DEFAULT_QUANTUM = 0
        /\ MaxWait \in Int
    BY <2>2 DEF MaxWait
  <2>8. QED
    BY <2>2, <2>4, <2>5, <2>6, <2>7
<1>4. QED
  BY <1>1, <1>2, <1>3, PTL DEF WSpec
=============================================================================
