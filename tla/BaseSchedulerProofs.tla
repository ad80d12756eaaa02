------------------------ MODULE BaseSchedulerProofs -------------------------
(***************************************************************************)
(* Theorems about modules BaseScheduler and BaseKernel, for every size of  *)
(* the task table, every quantum, every bound on PIDs and pending          *)
(* unblocks, and every layout of memory.                                   *)
(***************************************************************************)
EXTENDS BaseKernel, QueueLemmas

-----------------------------------------------------------------------------
(* The inductive invariant: the properties, and what they lean on.         *)

\* Idle has the processor only when nobody is ready, and has never blocked.
IdleWaits ==
  /\ running = idle_task => readyqueue = <<>>
  /\ idle_task \notin Range(blocked)

\* A slot that exit lost is on blocked, where nobody reaches it.
LostAreBlocked == lost \subseteq Range(blocked)

\* A new PID is larger than all before.
PIDsGrow == \A t \in Task : PID[t] <= starting_pid

\* Every process but the first has page 0 mapped, by the fork that made it.
MappedOrFirst ==
  \A t \in Task \ (Range(freequeue) \cup {idle_task}) :
     t \in null_mapped \/ (t = task1 /\ PID[t] = 1)

Queues == SlotInOnePlace /\ StateTellsList /\ IdleWaits

IInv ==
  /\ TypeOK
  /\ Queues
  /\ LostAreBlocked /\ PIDsGrow /\ MappedOrFirst
  /\ NoUnblockLost
  /\ ChildrenAreLive
  /\ OnlyTask1Hangs

\* The two tasks of the boot are slots, and the states are different.
LEMMA TaskFacts ==
  /\ idle_task \in Task /\ task1 \in Task /\ idle_task # task1
  /\ {ST_RUN, ST_READY, ST_BLOCKED} \subseteq state_t
  /\ ST_RUN # ST_READY /\ ST_RUN # ST_BLOCKED /\ ST_READY # ST_BLOCKED
BY BaseAssumption
   DEF Task, idle_task, task1, ST_RUN, ST_READY, ST_BLOCKED, state_t

\* list_del takes a slot out of a list, wherever it is on it.
LEMMA ListDel ==
  ASSUME NEW q \in Seq(Task), IsInjective(q), NEW t \in Task
  PROVE  /\ list_del(t, q) \in Seq(Task)
         /\ IsInjective(list_del(t, q))
         /\ Range(list_del(t, q)) = Range(q) \ {t}
<1>1. CASE t \notin Range(q)
  BY <1>1 DEF list_del
<1>2. CASE t \in Range(q)
  <2> DEFINE at == CHOOSE i \in DOMAIN q : q[i] = t
  <2>1. at \in DOMAIN q /\ q[at] = t
    BY <1>2 DEF Range
  <2>2. at \in 1 .. Len(q)
    BY <2>1, LenProperties
  <2> DEFINE r == [i \in 1 .. Len(q) - 1 |-> IF i < at THEN q[i] ELSE q[i + 1]]
  <2>3. list_del(t, q) = r
    BY <1>2 DEF list_del
  <2> HIDE DEF at
  <2>4. r \in Seq(Task) /\ IsInjective(r) /\ Range(r) = Range(q) \ {q[at]}
    BY <2>2, TakeAnywhere
  <2> HIDE DEF r
  <2>5. QED
    BY <2>1, <2>3, <2>4
<1>3. QED
  BY <1>1, <1>2

\* Moving a slot to the tail of a list, or adding it there.
LEMMA MoveToTail ==
  ASSUME NEW q \in Seq(Task), IsInjective(q), NEW t \in Task
  PROVE  /\ list_add_tail(t, list_del(t, q)) \in Seq(Task)
         /\ IsInjective(list_add_tail(t, list_del(t, q)))
         /\ Range(list_add_tail(t, list_del(t, q))) = Range(q) \cup {t}
<1> DEFINE r == list_del(t, q)
<1>1. r \in Seq(Task) /\ IsInjective(r) /\ Range(r) = Range(q) \ {t}
  BY ListDel
<1> HIDE DEF r
<1>2. IsInjective(Append(r, t)) /\ Range(Append(r, t)) = Range(r) \cup {t}
      /\ Append(r, t) \in Seq(Task)
  BY <1>1, AddTailRange, AddTailInjective
<1>3. QED
  BY <1>1, <1>2 DEF list_add_tail, r
-----------------------------------------------------------------------------
(* The switch.                                                             *)

\* What sched_next_rr needs of the lists and the states it is handed: whoever
\* gives up the processor is on one of them by then, idle excepted.
Handover(free, ready, waiting, st) ==
  /\ {free, ready, waiting} \subseteq Seq(Task)
  /\ IsInjective(free) /\ IsInjective(ready) /\ IsInjective(waiting)
  /\ Range(free) \cap Range(ready) = {}
  /\ Range(free) \cap Range(waiting) = {}
  /\ Range(ready) \cap Range(waiting) = {}
  /\ idle_task \notin Range(free) \cup Range(ready) \cup Range(waiting)
  /\ Task = Range(free) \cup Range(ready) \cup Range(waiting) \cup {idle_task}
  /\ st \in [Task -> state_t]
  /\ \A t \in Range(ready) : st[t] = ST_READY
  /\ \A t \in Range(waiting) : st[t] = ST_BLOCKED

\* sched_next_rr takes its task off the ready queue, and every slot is in one
\* place again.
LEMMA SwitchSafe ==
  ASSUME NEW ready, NEW st,
         Handover(freequeue', ready, blocked', st),
         sched_next_rr(ready, st)
  PROVE  /\ readyqueue' \in Seq(Task)
         /\ running' \in Task
         /\ state' \in [Task -> state_t]
         /\ ticks_since_cpu' \in Int
         /\ Queues'
         /\ running' \in Range(ready) \cup {idle_task}
<1>1. ready \in Seq(Task) /\ IsInjective(ready)
  BY DEF Handover
<1>2. ticks_since_cpu' \in Int
  BY BaseAssumption DEF sched_next_rr
<1>3. CASE ready # <<>>
  <2> DEFINE t == Head(ready)
  <2>1. running' = t /\ readyqueue' = Tail(ready) /\ state' = [st EXCEPT ![t] = ST_RUN]
    BY <1>3 DEF sched_next_rr
  <2>2. /\ t \in Range(ready) /\ t \in Task
        /\ Tail(ready) \in Seq(Task) /\ IsInjective(Tail(ready))
        /\ Range(Tail(ready)) = Range(ready) \ {t}
    BY <1>1, <1>3, TakeFirst
  <2> HIDE DEF t
  <2>3. state' \in [Task -> state_t] /\ state'[t] = ST_RUN
        /\ \A u \in Task \ {t} : state'[u] = st[u]
    BY <2>1, <2>2, TaskFacts DEF Handover
  <2>4. t # idle_task /\ t \notin Range(blocked') /\ t \notin Range(freequeue')
    BY <2>2 DEF Handover
  <2>5. SlotInOnePlace'
    BY <2>1, <2>2, <2>4 DEF Handover, SlotInOnePlace
  <2>6. Range(readyqueue') \cup Range(blocked') \subseteq Task \ {t}
    BY <2>1, <2>2, <2>4 DEF Handover
  <2>7. /\ \A u \in Range(readyqueue') : state'[u] = ST_READY
        /\ \A u \in Range(blocked') : state'[u] = ST_BLOCKED
    BY <2>1, <2>2, <2>3, <2>6 DEF Handover
  <2>8. StateTellsList'
    BY <2>1, <2>3, <2>4, <2>7 DEF StateTellsList
  <2>9. IdleWaits'
    BY <2>1, <2>4 DEF Handover, IdleWaits
  <2>10. QED
    BY <1>2, <2>1, <2>2, <2>3, <2>5, <2>8, <2>9 DEF Queues
<1>4. CASE ready = <<>>
  <2>1. /\ running' = idle_task /\ readyqueue' = ready
        /\ state' = [st EXCEPT ![idle_task] = ST_RUN]
    BY <1>4 DEF sched_next_rr
  <2>2. Range(ready) = {}
    BY <1>1, <1>4, EmptyRange
  <2>3. state' \in [Task -> state_t] /\ state'[idle_task] = ST_RUN
        /\ \A u \in Task \ {idle_task} : state'[u] = st[u]
    BY <2>1, TaskFacts DEF Handover
  <2>4. SlotInOnePlace'
    BY <2>1, <2>2 DEF Handover, SlotInOnePlace
  <2>5. \A u \in Range(blocked') : state'[u] = ST_BLOCKED
    BY <2>3 DEF Handover
  <2>6. StateTellsList'
    BY <2>1, <2>2, <2>3, <2>5 DEF Handover, StateTellsList
  <2>7. IdleWaits'
    BY <1>4, <2>1 DEF Handover, IdleWaits
  <2>8. QED
    BY <1>1, <1>2, <2>1, <2>3, <2>4, <2>6, <2>7, TaskFacts DEF Queues
<1>5. QED
  BY <1>3, <1>4

\* schedule keeps the lists right when it is handed lists and states that are
\* right but for the running task, which waits on blocked if it has blocked.
LEMMA ScheduleSafe ==
  ASSUME IInv, NEW st \in [Task -> state_t], ~hung, hung' = FALSE,
         UNCHANGED freequeue,
         blocked' \in Seq(Task), IsInjective(blocked'),
         \/ blocked' = blocked /\ st = state
         \/ /\ Range(blocked') = Range(blocked) \cup {running}
            /\ running # idle_task
            /\ st = [state EXCEPT ![running] = ST_BLOCKED],
         schedule(st)
  PROVE  /\ readyqueue' \in Seq(Task)
         /\ running' \in Task
         /\ state' \in [Task -> state_t]
         /\ ticks_since_cpu' \in Int
         /\ Queues'
         /\ running' # running => running' \notin Range(blocked)
<1> DEFINE ticks == ticks_since_cpu - 1
<1>1. /\ {freequeue, readyqueue, blocked} \subseteq Seq(Task)
      /\ running \in Task /\ state \in [Task -> state_t]
      /\ ticks_since_cpu \in Int
      /\ SlotInOnePlace /\ StateTellsList /\ IdleWaits
  BY DEF IInv, TypeOK, Queues
<1>2. /\ \A t \in Range(readyqueue) : st[t] = ST_READY
      /\ \A t \in Range(blocked') : st[t] = ST_BLOCKED
      /\ \/ st[running] = ST_RUN /\ running \notin Range(blocked')
         \/ st[running] = ST_BLOCKED /\ running \in Range(blocked')
      /\ Range(blocked') \subseteq Range(blocked) \cup {running}
      /\ Range(blocked) \subseteq Range(blocked')
      /\ idle_task \notin Range(blocked')
  <2>1. CASE blocked' = blocked /\ st = state
    BY <1>1, <2>1 DEF StateTellsList, IdleWaits
  <2>2. CASE /\ Range(blocked') = Range(blocked) \cup {running}
             /\ running # idle_task
             /\ st = [state EXCEPT ![running] = ST_BLOCKED]
    <3>1. \A t \in Task \ {running} : st[t] = state[t]
      BY <1>1, <2>2
    <3>2. st[running] = ST_BLOCKED
      BY <1>1, <2>2
    <3>3. Range(blocked) \subseteq Task /\ Range(readyqueue) \subseteq Task \ {running}
      BY <1>1 DEF SlotInOnePlace
    <3>4. QED
      BY <1>1, <2>2, <3>1, <3>2, <3>3 DEF StateTellsList, IdleWaits
  <2>3. QED
    BY <2>1, <2>2
<1>3. CASE needs_sched_rr(ticks)
  <2> DEFINE ready == update_process_state_rr(readyqueue, st)
             out == IF st[running] = ST_BLOCKED THEN st
                    ELSE [st EXCEPT ![running] = ST_READY]
  <2>1. sched_next_rr(ready, out)
    BY <1>3 DEF schedule
  <2>2. readyqueue # <<>> /\ running # idle_task
    BY <1>1, <1>3 DEF needs_sched_rr, IdleWaits
  <2>3. Handover(freequeue', ready, blocked', out)
    <3>1. CASE st[running] = ST_BLOCKED
      <4>1. ready = readyqueue /\ out = st /\ running \in Range(blocked')
        BY <1>2, <3>1, TaskFacts DEF update_process_state_rr
      <4>2. QED
        BY <1>1, <1>2, <2>2, <4>1 DEF Handover, SlotInOnePlace, IdleWaits
    <3>2. CASE st[running] # ST_BLOCKED
      <4>1. st[running] = ST_RUN /\ running \notin Range(blocked')
        BY <1>2, <3>2
      <4>2. ready = Append(readyqueue, running)
            /\ out = [st EXCEPT ![running] = ST_READY]
        BY <4>1, TaskFacts DEF update_process_state_rr, list_add_tail
      <4>3. running \notin Range(readyqueue)
        BY <1>1 DEF SlotInOnePlace
      <4>4. ready \in Seq(Task) /\ IsInjective(ready)
            /\ Range(ready) = Range(readyqueue) \cup {running}
        BY <1>1, <4>2, <4>3, AddTailRange, AddTailInjective DEF SlotInOnePlace
      <4>5. out \in [Task -> state_t] /\ out[running] = ST_READY
            /\ \A t \in Task \ {running} : out[t] = st[t]
        BY <1>1, <4>2, TaskFacts
      <4> HIDE DEF ready, out
      <4>6. Range(readyqueue) \cup Range(blocked') \subseteq Task \ {running}
        BY <1>1, <1>2, <4>1, <4>3 DEF SlotInOnePlace
      <4>7. /\ \A t \in Range(ready) : out[t] = ST_READY
            /\ \A t \in Range(blocked') : out[t] = ST_BLOCKED
        BY <1>2, <4>4, <4>5, <4>6
      <4>8. QED
        BY <1>1, <1>2, <2>2, <4>1, <4>4, <4>5, <4>7
           DEF Handover, SlotInOnePlace, IdleWaits
    <3>3. QED
      BY <3>1, <3>2
  <2> HIDE DEF ready, out
  <2>4. running' \notin Range(blocked)
    BY <1>1, <1>2, <2>1, <2>3, SwitchSafe DEF Handover
  <2>5. QED
    BY <2>1, <2>3, <2>4, SwitchSafe
<1>4. CASE ~needs_sched_rr(ticks)
  <2>1. /\ ticks_since_cpu' = IF ticks > 0 THEN ticks ELSE QUANTUM
        /\ state' = st
        /\ UNCHANGED <<readyqueue, running>>
    BY <1>4 DEF schedule
  <2>2. ticks_since_cpu' \in Int
    BY <1>1, <2>1, BaseAssumption
  <2>3. SlotInOnePlace'
    <3>1. Range(blocked') \cap (Range(freequeue) \cup Range(readyqueue)) = {}
      BY <1>1, <1>2 DEF SlotInOnePlace
    <3>2. Task = Range(freequeue) \cup Range(readyqueue) \cup Range(blocked')
                   \cup {running, idle_task}
      BY <1>1, <1>2 DEF SlotInOnePlace
    <3>3. QED
      BY <1>1, <2>1, <3>1, <3>2 DEF SlotInOnePlace
  <2>4. StateTellsList'
    BY <1>2, <2>1 DEF StateTellsList
  <2>5. IdleWaits'
    BY <1>1, <1>2, <2>1 DEF IdleWaits
  <2>6. QED
    BY <1>1, <2>1, <2>2, <2>3, <2>4, <2>5 DEF Queues
<1>5. QED
  BY <1>3, <1>4
-----------------------------------------------------------------------------
(* Every handler preserves the invariant.                                  *)

\* init_sched, init_idle and init_task1 leave the lists and the family right.
LEMMA InitSafe == Init => IInv
<1> SUFFICES ASSUME Init PROVE IInv
  OBVIOUS
<1> DEFINE n == NR_TASKS - 2
<1>1. n \in Nat /\ \A i \in 1 .. n : n - i \in Task /\ n - i < n
  BY BaseAssumption DEF Task
<1>2. /\ freequeue \in [1 .. n -> Task]
      /\ freequeue \in Seq(Task)
      /\ DOMAIN freequeue = 1 .. n
      /\ \A i \in 1 .. n : freequeue[i] = n - i
  BY <1>1 DEF Init
<1>3. Range(freequeue) = 0 .. n - 1
  <2>1. \A x \in Range(freequeue) : x \in 0 .. n - 1
    BY <1>1, <1>2 DEF Range
  <2>2. ASSUME NEW x \in 0 .. n - 1
        PROVE  x \in Range(freequeue)
    <3>1. n - x \in 1 .. n /\ freequeue[n - x] = n - (n - x) /\ n - (n - x) = x
      BY <1>1, <1>2
    <3>2. QED
      BY <1>2, <3>1 DEF Range
  <2>3. QED
    BY <2>1, <2>2
<1>4. /\ readyqueue = <<>> /\ blocked = <<>>
      /\ Range(readyqueue) = {} /\ Range(blocked) = {}
  BY DEF Init, Range
<1>5. TypeOK
  <2>1. state \in [Task -> state_t] /\ PID \in [Task -> 0 .. MaxPID]
    BY TaskFacts, BaseAssumption DEF Init
  <2>2. pending_unblocks \in [Task -> Nat] /\ childs \in [Task -> SUBSET Task]
    BY DEF Init
  <2>3. {freequeue, readyqueue, blocked} \subseteq Seq(Task)
    BY <1>2, <1>4
  <2>4. starting_pid \in 1000 .. MaxPID /\ ticks_since_cpu \in Int
    BY BaseAssumption DEF Init
  <2>5. QED
    BY <2>1, <2>2, <2>3, <2>4, TaskFacts DEF Init, TypeOK
<1>6. SlotInOnePlace
  <2>1. IsInjective(freequeue)
    BY <1>1, <1>2 DEF IsInjective
  <2>2. IsInjective(readyqueue) /\ IsInjective(blocked)
    BY <1>4 DEF IsInjective
  <2>3. Task = Range(freequeue) \cup {task1, idle_task}
    BY <1>3, BaseAssumption DEF Task, task1, idle_task
  <2>4. {task1, idle_task} \cap Range(freequeue) = {}
    BY <1>3, BaseAssumption DEF task1, idle_task
  <2>5. QED
    BY <1>4, <2>1, <2>2, <2>3, <2>4 DEF Init, SlotInOnePlace
<1>7. Queues
  BY <1>4, <1>6, TaskFacts DEF Init, Queues, StateTellsList, IdleWaits
<1>8. LostAreBlocked /\ NoUnblockLost
  BY <1>4 DEF Init, LostAreBlocked, NoUnblockLost
<1>9. PIDsGrow
  BY DEF Init, PIDsGrow
<1>10. MappedOrFirst
  <2>1. \A t \in Task \ (Range(freequeue) \cup {idle_task}) : t = task1
    BY <1>4, <1>6 DEF Init, SlotInOnePlace
  <2>2. PID[task1] = 1
    BY TaskFacts DEF Init
  <2>3. QED
    BY <2>1, <2>2 DEF MappedOrFirst
<1>11. ChildrenAreLive
  BY DEF Init, ChildrenAreLive
<1>12. OnlyTask1Hangs
  BY DEF Init, OnlyTask1Hangs
<1>13. QED
  BY <1>5, <1>7, <1>8, <1>9, <1>10, <1>11, <1>12 DEF IInv

\* A step that leaves the children, their PIDs, the unblocks and what is free,
\* blocked or lost alone leaves what is said of them alone.
LEMMA SameFamilies ==
  ASSUME IInv, ~hung', UNCHANGED <<PID, pending_unblocks, childs, starting_pid,
                                   null_mapped, lost>>,
         Range(freequeue') = Range(freequeue), Range(blocked') = Range(blocked)
  PROVE  /\ LostAreBlocked' /\ PIDsGrow' /\ MappedOrFirst'
         /\ NoUnblockLost' /\ ChildrenAreLive' /\ OnlyTask1Hangs'
<1>1. LostAreBlocked' /\ PIDsGrow' /\ MappedOrFirst'
  BY DEF IInv, LostAreBlocked, PIDsGrow, MappedOrFirst
<1>2. NoUnblockLost'
  BY DEF IInv, NoUnblockLost
<1>3. ChildrenAreLive'
  BY DEF IInv, ChildrenAreLive
<1>4. QED
  BY <1>1, <1>2, <1>3 DEF OnlyTask1Hangs

\* A tick keeps the invariant, whether it preempts or not.
LEMMA ClockSafe ==
  ASSUME IInv, clock_routine
  PROVE  IInv'
<1>1. /\ ~hung /\ hung' = hung /\ schedule(state)
      /\ UNCHANGED <<freequeue, blocked, PID, pending_unblocks, childs,
                     starting_pid, null_mapped, lost>>
  BY DEF clock_routine
<1>2. /\ state \in [Task -> state_t] /\ blocked' \in Seq(Task)
      /\ IsInjective(blocked') /\ hung' = FALSE
  BY <1>1 DEF IInv, TypeOK, Queues, SlotInOnePlace
<1>3. /\ readyqueue' \in Seq(Task) /\ running' \in Task
      /\ state' \in [Task -> state_t] /\ ticks_since_cpu' \in Int
      /\ Queues'
  BY <1>1, <1>2, ScheduleSafe
<1>4. TypeOK'
  BY <1>1, <1>3 DEF IInv, TypeOK
<1>5. QED
  BY <1>1, <1>2, <1>3, <1>4, SameFamilies DEF IInv

\* A fork makes a child of the running process out of a free slot.
LEMMA ForkSafe ==
  ASSUME IInv, sys_fork
  PROVE  IInv'
<1> DEFINE u == Head(freequeue)
<1>1. /\ ~hung /\ hung' = hung
      /\ running # idle_task /\ freequeue # <<>> /\ starting_pid < MaxPID
      /\ freequeue' = Tail(freequeue)
      /\ null_mapped' = null_mapped \cup {u}
      /\ PID' = [PID EXCEPT ![u] = starting_pid + 1]
      /\ state' = [state EXCEPT ![u] = ST_READY]
      /\ pending_unblocks' = [pending_unblocks EXCEPT ![u] = 0]
      /\ childs' = [childs EXCEPT ![u] = {}, ![running] = childs[running] \cup {u}]
      /\ readyqueue' = Append(readyqueue, u)
      /\ starting_pid' = starting_pid + 1
      /\ UNCHANGED <<blocked, running, ticks_since_cpu, lost>>
  BY DEF sys_fork, calls, list_add_tail
<1>2. /\ {freequeue, readyqueue, blocked} \subseteq Seq(Task)
      /\ running \in Task /\ SlotInOnePlace /\ StateTellsList /\ IdleWaits
      /\ lost \subseteq Range(blocked)
  BY DEF IInv, TypeOK, Queues, LostAreBlocked
<1>3. /\ u \in Range(freequeue) /\ u \in Task
      /\ freequeue' \in Seq(Task) /\ IsInjective(freequeue')
      /\ Range(freequeue') = Range(freequeue) \ {u}
  BY <1>1, <1>2, TakeFirst DEF SlotInOnePlace
<1>4. u \notin Range(readyqueue) \cup Range(blocked) \cup lost \cup {running, idle_task}
  BY <1>2, <1>3 DEF SlotInOnePlace
<1>5. /\ readyqueue' \in Seq(Task) /\ IsInjective(readyqueue')
      /\ Range(readyqueue') = Range(readyqueue) \cup {u}
  BY <1>1, <1>2, <1>3, <1>4, AddTailRange, AddTailInjective DEF SlotInOnePlace
<1> HIDE DEF u
<1>6. /\ starting_pid \in Int /\ starting_pid >= 1000
      /\ starting_pid' \in 1000 .. MaxPID /\ starting_pid + 1 \in 0 .. MaxPID
  BY <1>1, BaseAssumption DEF IInv, TypeOK
<1>7. /\ PID' \in [Task -> 0 .. MaxPID] /\ PID'[u] = starting_pid + 1
      /\ \A t \in Task \ {u} : PID'[t] = PID[t]
  BY <1>1, <1>3, <1>6 DEF IInv, TypeOK
<1>8. /\ state' \in [Task -> state_t] /\ state'[u] = ST_READY
      /\ \A t \in Task \ {u} : state'[t] = state[t]
  BY <1>1, <1>3, TaskFacts DEF IInv, TypeOK
<1>9. /\ childs' \in [Task -> SUBSET Task] /\ childs'[u] = {}
      /\ childs'[running] = childs[running] \cup {u}
      /\ \A t \in Task \ {u, running} : childs'[t] = childs[t]
  <2>1. u # running /\ u \in Task /\ running \in Task /\ childs \in [Task -> SUBSET Task]
    BY <1>2, <1>3, <1>4 DEF IInv, TypeOK
  <2>2. QED
    BY <1>1, <2>1
<1>10. pending_unblocks' \in [Task -> Nat]
       /\ \A t \in Task \ {u} : pending_unblocks'[t] = pending_unblocks[t]
  BY <1>1, <1>3 DEF IInv, TypeOK
<1>11. TypeOK'
  <2>1. null_mapped' \subseteq Task
    BY <1>1, <1>3 DEF IInv, TypeOK
  <2>2. {freequeue', readyqueue', blocked'} \subseteq Seq(Task)
    BY <1>1, <1>2, <1>3, <1>5
  <2>3. /\ running' \in Task /\ ticks_since_cpu' \in Int
        /\ lost' \subseteq Task /\ hung' \in BOOLEAN
    BY <1>1 DEF IInv, TypeOK
  <2>4. QED
    BY <1>6, <1>7, <1>8, <1>9, <1>10, <2>1, <2>2, <2>3 DEF TypeOK
<1>12. Queues'
  <2>1. SlotInOnePlace'
    BY <1>1, <1>2, <1>3, <1>4, <1>5 DEF SlotInOnePlace
  <2>2. StateTellsList'
    <3>1. Range(readyqueue) \cup Range(blocked) \cup {running} \subseteq Task \ {u}
      BY <1>2, <1>4 DEF SlotInOnePlace
    <3>2. QED
      BY <1>1, <1>2, <1>5, <1>8, <3>1 DEF StateTellsList
  <2>3. IdleWaits'
    BY <1>1, <1>2 DEF IdleWaits
  <2>4. QED
    BY <2>1, <2>2, <2>3 DEF Queues
<1>13. LostAreBlocked' /\ NoUnblockLost'
  <2>1. Range(blocked) \subseteq Task \ {u}
    BY <1>2, <1>4 DEF SlotInOnePlace
  <2>2. QED
    BY <1>1, <1>2, <1>10, <2>1 DEF IInv, LostAreBlocked, NoUnblockLost
<1>14. PIDsGrow'
  BY <1>1, <1>6, <1>7, SMTT(30) DEF IInv, TypeOK, PIDsGrow
<1>15. MappedOrFirst'
  BY <1>1, <1>3, <1>7 DEF IInv, MappedOrFirst
<1>16. ChildrenAreLive'
  <2>1. \A t \in Task : u \notin childs[t]
    BY <1>3 DEF IInv, ChildrenAreLive
  <2>2. \A t \in Task : childs'[t] \subseteq Task
    BY <1>9
  <2>3. ASSUME NEW t \in Task, NEW v \in Task, t # v
        PROVE  childs'[t] \cap childs'[v] = {}
    <3>1. childs[t] \cap childs[v] = {}
      BY <2>3 DEF IInv, ChildrenAreLive
    <3>2. childs'[t] \subseteq childs[t] \cup {u} /\ childs'[v] \subseteq childs[v] \cup {u}
      BY <1>9
    <3>3. u \in childs'[t] => t = running
      BY <1>9, <2>1
    <3>4. u \in childs'[v] => v = running
      BY <1>9, <2>1
    <3>5. QED
      BY <2>1, <2>3, <3>1, <3>2, <3>3, <3>4
  <2>4. ASSUME NEW t \in Task, NEW c \in childs'[t]
        PROVE  /\ c \notin Range(freequeue') \cup lost' \cup {t, idle_task}
               /\ PID'[c] > 1000
    <3>1. CASE c = u
      <4>1. t = running
        BY <1>9, <2>1, <2>4, <3>1
      <4>2. QED
        BY <1>1, <1>3, <1>4, <1>6, <1>7, <3>1, <4>1
    <3>2. CASE c # u
      <4>1. c \in childs[t] /\ c \in Task
        BY <1>9, <2>2, <2>4, <3>2
      <4>2. c \notin Range(freequeue) \cup lost \cup {t, idle_task} /\ PID[c] > 1000
        BY <4>1 DEF IInv, ChildrenAreLive
      <4>3. QED
        BY <1>1, <1>3, <1>7, <3>2, <4>1, <4>2
    <3>3. QED
      BY <3>1, <3>2
  <2>5. ASSUME NEW t \in Task, NEW c \in childs'[t], NEW d \in childs'[t],
               PID'[c] = PID'[d]
        PROVE  c = d
    <3>1. c \in Task /\ d \in Task
      BY <2>2
    <3>2. \A x \in Task \ {u} : PID'[x] # PID'[u]
      BY <1>6, <1>7 DEF IInv, TypeOK, PIDsGrow
    <3>3. CASE c # u /\ d # u
      <4>1. c \in childs[t] /\ d \in childs[t] /\ PID[c] = PID[d]
        BY <1>7, <1>9, <2>5, <3>1, <3>3
      <4>2. QED
        BY <3>1, <4>1 DEF IInv, ChildrenAreLive
    <3>4. CASE c = u \/ d = u
      BY <2>5, <3>1, <3>2, <3>4
    <3>5. QED
      BY <3>3, <3>4
  <2>6. QED
    BY <2>3, <2>4, <2>5 DEF ChildrenAreLive
<1>17. OnlyTask1Hangs'
  BY <1>1 DEF OnlyTask1Hangs
<1>18. QED
  BY <1>11, <1>12, <1>13, <1>14, <1>15, <1>16, <1>17 DEF IInv

\* A fork that fails leaves the parent's PID, state and unblocks in a slot that
\* stays free, where nobody looks.
LEMMA FailedForkSafe ==
  ASSUME IInv, sys_fork_EAGAIN
  PROVE  IInv'
<1> DEFINE u == Head(freequeue)
           rest == Tail(freequeue)
<1>1. /\ ~hung /\ hung' = hung /\ freequeue # <<>>
      /\ freequeue' = Append(rest, u)
      /\ PID' = [PID EXCEPT ![u] = PID[running]]
      /\ state' = [state EXCEPT ![u] = state[running]]
      /\ pending_unblocks' = [pending_unblocks EXCEPT ![u] = pending_unblocks[running]]
      /\ UNCHANGED <<readyqueue, blocked, running, childs, ticks_since_cpu,
                     starting_pid, null_mapped, lost>>
  BY DEF sys_fork_EAGAIN, calls, list_add_tail
<1>2. /\ {freequeue, readyqueue, blocked} \subseteq Seq(Task)
      /\ running \in Task /\ SlotInOnePlace /\ StateTellsList /\ IdleWaits
      /\ lost \subseteq Range(blocked)
  BY DEF IInv, TypeOK, Queues, LostAreBlocked
<1>3. /\ u \in Range(freequeue) /\ u \in Task
      /\ rest \in Seq(Task) /\ IsInjective(rest)
      /\ Range(rest) = Range(freequeue) \ {u}
  BY <1>1, <1>2, TakeFirst DEF SlotInOnePlace
<1> HIDE DEF u, rest
<1>4. Append(rest, u) \in Seq(Task) /\ IsInjective(Append(rest, u))
      /\ Range(Append(rest, u)) = Range(rest) \cup {u}
  BY <1>3, AddTailRange, AddTailInjective
<1>5. /\ freequeue' \in Seq(Task) /\ IsInjective(freequeue')
      /\ Range(freequeue') = Range(freequeue)
  BY <1>1, <1>3, <1>4
<1>6. /\ PID' \in [Task -> 0 .. MaxPID] /\ PID'[u] = PID[running]
      /\ state' \in [Task -> state_t] /\ pending_unblocks' \in [Task -> Nat]
      /\ \A t \in Task \ {u} : /\ PID'[t] = PID[t] /\ state'[t] = state[t]
                              /\ pending_unblocks'[t] = pending_unblocks[t]
  BY <1>1, <1>2, <1>3 DEF IInv, TypeOK
<1>7. Range(readyqueue) \cup Range(blocked) \cup {running} \subseteq Task \ {u}
  BY <1>2, <1>3 DEF SlotInOnePlace
<1>8. TypeOK'
  BY <1>1, <1>5, <1>6, SMTT(30) DEF IInv, TypeOK
<1>9. Queues'
  <2>1. SlotInOnePlace'
    BY <1>1, <1>2, <1>5 DEF SlotInOnePlace
  <2>2. StateTellsList'
    BY <1>1, <1>2, <1>6, <1>7 DEF StateTellsList
  <2>3. QED
    BY <1>1, <1>2, <2>1, <2>2 DEF Queues, IdleWaits
<1>10. LostAreBlocked' /\ NoUnblockLost'
  BY <1>1, <1>2, <1>6, <1>7 DEF IInv, LostAreBlocked, NoUnblockLost
<1>11. PIDsGrow'
  BY <1>1, <1>2, <1>6 DEF IInv, PIDsGrow
<1>12. MappedOrFirst'
  BY <1>1, <1>3, <1>5, <1>6 DEF IInv, MappedOrFirst
<1>13. ChildrenAreLive'
  <2>1. \A t \in Task : childs[t] \subseteq Task \ {u}
    BY <1>3 DEF IInv, TypeOK, ChildrenAreLive
  <2>2. \A t, v \in Task : t # v => childs'[t] \cap childs'[v] = {}
    BY <1>1 DEF IInv, ChildrenAreLive
  <2>3. ASSUME NEW t \in Task, NEW c \in Task, NEW d \in Task, c \in childs'[t]
        PROVE  /\ c \notin Range(freequeue') \cup lost' \cup {t, idle_task}
               /\ PID'[c] > 1000
               /\ d \in childs'[t] /\ PID'[c] = PID'[d] => c = d
    <3>1. PID'[c] = PID[c] /\ (d \in childs[t] => PID'[d] = PID[d])
      BY <1>1, <1>6, <2>1, <2>3
    <3>2. QED
      BY <1>1, <1>5, <2>3, <3>1 DEF IInv, ChildrenAreLive
  <2>4. QED
    BY <2>2, <2>3 DEF ChildrenAreLive
<1>14. OnlyTask1Hangs'
  BY <1>1 DEF OnlyTask1Hangs
<1>15. QED
  BY <1>8, <1>9, <1>10, <1>11, <1>12, <1>13, <1>14 DEF IInv

\* An exit frees the slot, or loses it on blocked; either way no process has it
\* as a child any more, and its own children have no parent.
LEMMA ExitSafe ==
  ASSUME IInv, sys_exit
  PROVE  IInv'
<1>1. /\ ~hung /\ hung' = hung /\ running # idle_task
      /\ childs' = [t \in Task |-> IF t = running THEN {} ELSE childs[t] \ {running}]
      /\ freequeue' = update_process_state_rr(freequeue, state)
      /\ lost' = IF state[running] = ST_BLOCKED THEN lost \cup {running} ELSE lost
      /\ sched_next_rr(readyqueue, state)
      /\ UNCHANGED <<blocked, PID, pending_unblocks, starting_pid, null_mapped>>
  BY DEF sys_exit, calls
<1>2. /\ {freequeue, readyqueue, blocked} \subseteq Seq(Task)
      /\ running \in Task /\ state \in [Task -> state_t]
      /\ childs \in [Task -> SUBSET Task]
      /\ SlotInOnePlace /\ StateTellsList /\ IdleWaits
      /\ lost \subseteq Range(blocked)
  BY DEF IInv, TypeOK, Queues, LostAreBlocked
<1>3. /\ freequeue' \in Seq(Task) /\ IsInjective(freequeue')
      /\ Range(freequeue) \subseteq Range(freequeue')
      /\ Range(freequeue') \subseteq Range(freequeue) \cup {running}
      /\ Range(freequeue') \cap Range(blocked) = {}
      /\ running \in Range(freequeue') \cup Range(blocked)
      /\ lost \subseteq lost' /\ lost' \subseteq lost \cup {running}
      /\ lost' \subseteq Range(blocked)
  <2>1. CASE state[running] = ST_BLOCKED
    <3>1. freequeue' = freequeue /\ running \in Range(blocked)
          /\ lost' = lost \cup {running}
      BY <1>1, <1>2, <2>1, TaskFacts DEF update_process_state_rr, StateTellsList
    <3>2. QED
      BY <1>2, <3>1 DEF SlotInOnePlace
  <2>2. CASE state[running] # ST_BLOCKED
    <3>1. freequeue' = Append(freequeue, running) /\ lost' = lost
          /\ running \notin Range(blocked)
      BY <1>1, <1>2, <2>2
         DEF update_process_state_rr, StateTellsList, list_add_tail
    <3>2. running \notin Range(freequeue)
      BY <1>2 DEF SlotInOnePlace
    <3>3. /\ Append(freequeue, running) \in Seq(Task)
          /\ IsInjective(Append(freequeue, running))
          /\ Range(Append(freequeue, running)) = Range(freequeue) \cup {running}
      BY <1>2, <3>2, AddTailRange, AddTailInjective DEF SlotInOnePlace
    <3>4. QED
      BY <1>2, <3>1, <3>3 DEF SlotInOnePlace
  <2>3. QED
    BY <2>1, <2>2
<1>4. Handover(freequeue', readyqueue, blocked', state)
  <2>1. Range(freequeue') \cap Range(readyqueue) = {}
    BY <1>2, <1>3 DEF SlotInOnePlace
  <2>2. idle_task \notin Range(freequeue') \cup Range(readyqueue) \cup Range(blocked)
    BY <1>1, <1>2, <1>3 DEF SlotInOnePlace, IdleWaits
  <2>3. Task = Range(freequeue') \cup Range(readyqueue) \cup Range(blocked)
                 \cup {idle_task}
    BY <1>2, <1>3, TaskFacts DEF SlotInOnePlace
  <2>4. QED
    BY <1>1, <1>2, <1>3, <2>1, <2>2, <2>3
       DEF Handover, SlotInOnePlace, StateTellsList
<1>5. /\ readyqueue' \in Seq(Task) /\ running' \in Task
      /\ state' \in [Task -> state_t] /\ ticks_since_cpu' \in Int
      /\ Queues'
  BY <1>1, <1>4, SwitchSafe
<1>6. childs' \in [Task -> SUBSET Task]
      /\ \A t \in Task : childs'[t] = IF t = running THEN {} ELSE childs[t] \ {running}
  BY <1>1, <1>2
<1>7. TypeOK'
  <2>1. {freequeue', readyqueue', blocked'} \subseteq Seq(Task)
    BY <1>1, <1>2, <1>3, <1>5
  <2>2. lost' \subseteq Task
    BY <1>2, <1>3 DEF IInv, TypeOK
  <2>3. QED
    BY <1>1, <1>5, <1>6, <2>1, <2>2 DEF IInv, TypeOK
<1>8. LostAreBlocked' /\ PIDsGrow' /\ OnlyTask1Hangs'
  BY <1>1, <1>3 DEF IInv, LostAreBlocked, PIDsGrow, OnlyTask1Hangs
<1>9. MappedOrFirst'
  BY <1>1, <1>3 DEF IInv, MappedOrFirst
<1>10. NoUnblockLost'
  BY <1>1, <1>3 DEF IInv, NoUnblockLost
<1>11. ChildrenAreLive'
  <2>1. \A t \in Task : childs'[t] \subseteq childs[t] \ {running}
    BY <1>6
  <2>2. QED
    BY <1>1, <1>3, <2>1 DEF IInv, ChildrenAreLive
<1>12. QED
  BY <1>5, <1>7, <1>8, <1>9, <1>10, <1>11 DEF IInv

\* A block keeps the invariant: it takes an unblock only from a process that
\* has one, queues the process only when it has none, and faults only in the
\* first process, whose page 0 nobody mapped.
LEMMA BlockSafe ==
  ASSUME IInv, sys_block
  PROVE  IInv'
<1>1. /\ {freequeue, readyqueue, blocked} \subseteq Seq(Task)
      /\ running \in Task /\ state \in [Task -> state_t]
      /\ pending_unblocks \in [Task -> Nat]
      /\ SlotInOnePlace /\ StateTellsList /\ IdleWaits
      /\ lost \subseteq Range(blocked)
  BY DEF IInv, TypeOK, Queues, LostAreBlocked
<1>2. ~hung /\ running # idle_task
  BY DEF sys_block, sys_block_pending, sys_block_waits, sys_block_faults, calls
<1>3. CASE sys_block_pending
  <2>1. /\ pending_unblocks[running] # 0
        /\ pending_unblocks' = [pending_unblocks EXCEPT ![running] = @ - 1]
        /\ UNCHANGED <<freequeue, readyqueue, blocked, running, state, PID, childs,
                       ticks_since_cpu, starting_pid, null_mapped, lost, hung>>
    BY <1>3 DEF sys_block_pending
  <2>2. pending_unblocks' \in [Task -> Nat]
        /\ \A t \in Task \ {running} : pending_unblocks'[t] = pending_unblocks[t]
    BY <1>1, <2>1
  <2>3. TypeOK'
    BY <2>1, <2>2 DEF IInv, TypeOK
  <2>4. running \notin Range(blocked) \ lost
    BY <2>1 DEF IInv, NoUnblockLost
  <2>5. Range(blocked) \subseteq Task
    BY <1>1 DEF SlotInOnePlace
  <2>6. NoUnblockLost'
    BY <2>1, <2>2, <2>4, <2>5 DEF IInv, NoUnblockLost
  <2>7. Queues'
    BY <2>1 DEF IInv, Queues, SlotInOnePlace, StateTellsList, IdleWaits
  <2>8. LostAreBlocked' /\ PIDsGrow' /\ MappedOrFirst' /\ ChildrenAreLive'
        /\ OnlyTask1Hangs'
    BY <1>2, <2>1 DEF IInv, LostAreBlocked, PIDsGrow, MappedOrFirst,
                      ChildrenAreLive, OnlyTask1Hangs
  <2>9. QED
    BY <2>3, <2>6, <2>7, <2>8 DEF IInv
<1>4. CASE sys_block_waits
  <2> DEFINE st == [state EXCEPT ![running] = ST_BLOCKED]
  <2>1. /\ pending_unblocks[running] = 0
        /\ blocked' = list_add_tail(running, list_del(running, blocked))
        /\ schedule(st)
        /\ UNCHANGED <<freequeue, PID, pending_unblocks, childs, starting_pid,
                       null_mapped, lost, hung>>
    BY <1>4 DEF sys_block_waits
  <2>2. /\ blocked' \in Seq(Task) /\ IsInjective(blocked')
        /\ Range(blocked') = Range(blocked) \cup {running}
    BY <1>1, <2>1, MoveToTail DEF SlotInOnePlace
  <2>3. st \in [Task -> state_t] /\ hung' = FALSE
    BY <1>1, <1>2, <2>1, TaskFacts
  <2>4. /\ readyqueue' \in Seq(Task) /\ running' \in Task
        /\ state' \in [Task -> state_t] /\ ticks_since_cpu' \in Int
        /\ Queues'
    BY <1>2, <2>1, <2>2, <2>3, ScheduleSafe
  <2>5. TypeOK'
    <3>1. {freequeue', readyqueue', blocked'} \subseteq Seq(Task)
      BY <1>1, <2>1, <2>2, <2>4
    <3>2. QED
      BY <2>1, <2>4, <3>1 DEF IInv, TypeOK
  <2>6. NoUnblockLost'
    BY <2>1, <2>2 DEF IInv, NoUnblockLost
  <2>7. LostAreBlocked' /\ PIDsGrow' /\ MappedOrFirst' /\ ChildrenAreLive'
        /\ OnlyTask1Hangs'
    BY <2>1, <2>2, <2>3 DEF IInv, LostAreBlocked, PIDsGrow, MappedOrFirst,
                            ChildrenAreLive, OnlyTask1Hangs
  <2>8. QED
    BY <2>4, <2>5, <2>6, <2>7 DEF IInv
<1>5. CASE sys_block_faults
  <2>1. /\ unlink_faults /\ hung' = TRUE
        /\ state' = [state EXCEPT ![running] = ST_BLOCKED]
        /\ UNCHANGED <<freequeue, readyqueue, blocked, running, PID, childs,
                       pending_unblocks, ticks_since_cpu, starting_pid,
                       null_mapped, lost>>
    BY <1>5 DEF sys_block_faults
  <2>2. running = task1 /\ PID[running] = 1
    BY <1>1, <1>2, <2>1
       DEF unlink_faults, IInv, MappedOrFirst, SlotInOnePlace
  <2>3. /\ state' \in [Task -> state_t] /\ state'[running] = ST_BLOCKED
        /\ \A t \in Task \ {running} : state'[t] = state[t]
    BY <1>1, <2>1, TaskFacts
  <2>4. TypeOK'
    BY <2>1, <2>3 DEF IInv, TypeOK
  <2>5. Range(readyqueue) \cup Range(blocked) \subseteq Task \ {running}
    BY <1>1, <2>1 DEF SlotInOnePlace, StateTellsList, unlink_faults
  <2>6. Queues'
    BY <1>1, <2>1, <2>3, <2>5 DEF Queues, SlotInOnePlace, StateTellsList, IdleWaits
  <2>7. LostAreBlocked' /\ PIDsGrow' /\ MappedOrFirst' /\ ChildrenAreLive'
        /\ NoUnblockLost'
    BY <2>1 DEF IInv, LostAreBlocked, PIDsGrow, MappedOrFirst,
                ChildrenAreLive, NoUnblockLost
  <2>8. OnlyTask1Hangs'
    BY <2>1, <2>2 DEF OnlyTask1Hangs
  <2>9. QED
    BY <2>4, <2>6, <2>7, <2>8 DEF IInv
<1>6. QED
  BY <1>3, <1>4, <1>5 DEF sys_block

\* An unblock finds the child on blocked if its state is ST_BLOCKED, and finds
\* it elsewhere if it is not.
LEMMA UnblockSafe ==
  ASSUME IInv, NEW pid, sys_unblock(pid)
  PROVE  /\ IInv'
         /\ \A t \in Range(blocked) \ Range(blocked') :
               t \in childs[running] /\ t \in Range(readyqueue')
<1>1. /\ {freequeue, readyqueue, blocked} \subseteq Seq(Task)
      /\ running \in Task /\ state \in [Task -> state_t]
      /\ pending_unblocks \in [Task -> Nat] /\ childs \in [Task -> SUBSET Task]
      /\ SlotInOnePlace /\ StateTellsList /\ IdleWaits
      /\ lost \subseteq Range(blocked)
  BY DEF IInv, TypeOK, Queues, LostAreBlocked
<1>2. ~hung
      /\ UNCHANGED <<freequeue, running, PID, childs, ticks_since_cpu,
                     starting_pid, null_mapped, lost, hung>>
  BY DEF sys_unblock, calls
<1>3. PICK c \in childs[running] :
        \/ /\ state[c] = ST_BLOCKED
           /\ state' = [state EXCEPT ![c] = ST_READY]
           /\ blocked' = list_del(c, blocked)
           /\ readyqueue' = list_add_tail(c, readyqueue)
           /\ UNCHANGED pending_unblocks
        \/ /\ state[c] # ST_BLOCKED
           /\ pending_unblocks' = [pending_unblocks EXCEPT ![c] = @ + 1]
           /\ UNCHANGED <<state, blocked, readyqueue>>
  BY DEF sys_unblock
<1>4. c \in Task /\ c \notin Range(freequeue) \cup lost \cup {running, idle_task}
  BY <1>1 DEF IInv, ChildrenAreLive
<1>5. CASE /\ state[c] = ST_BLOCKED
           /\ state' = [state EXCEPT ![c] = ST_READY]
           /\ blocked' = list_del(c, blocked)
           /\ readyqueue' = list_add_tail(c, readyqueue)
           /\ UNCHANGED pending_unblocks
  <2>1. c \in Range(blocked) /\ c \notin Range(readyqueue)
    BY <1>1, <1>4, <1>5, TaskFacts DEF SlotInOnePlace, StateTellsList
  <2>2. /\ blocked' \in Seq(Task) /\ IsInjective(blocked')
        /\ Range(blocked') = Range(blocked) \ {c}
    BY <1>1, <1>4, <1>5, ListDel DEF SlotInOnePlace
  <2>3. readyqueue' = Append(readyqueue, c)
    BY <1>5 DEF list_add_tail
  <2>4. /\ readyqueue' \in Seq(Task) /\ IsInjective(readyqueue')
        /\ Range(readyqueue') = Range(readyqueue) \cup {c}
    BY <1>1, <1>4, <2>1, <2>3, AddTailRange, AddTailInjective DEF SlotInOnePlace
  <2>5. /\ state' \in [Task -> state_t] /\ state'[c] = ST_READY
        /\ \A t \in Task \ {c} : state'[t] = state[t]
    BY <1>1, <1>4, <1>5, TaskFacts
  <2>6. TypeOK'
    <3>1. {freequeue', readyqueue', blocked'} \subseteq Seq(Task)
      BY <1>1, <1>2, <2>2, <2>4
    <3>2. QED
      BY <1>2, <1>5, <2>5, <3>1 DEF IInv, TypeOK
  <2>7. SlotInOnePlace'
    BY <1>1, <1>2, <1>4, <2>1, <2>2, <2>4 DEF SlotInOnePlace
  <2>8. StateTellsList'
    <3>1. Range(readyqueue) \cup (Range(blocked) \ {c}) \cup {running}
            \subseteq Task \ {c}
      BY <1>1, <1>4, <2>1 DEF SlotInOnePlace
    <3>2. QED
      BY <1>1, <1>2, <1>4, <2>2, <2>4, <2>5, <3>1 DEF StateTellsList
  <2>9. IdleWaits'
    <3>1. running # idle_task
      BY DEF sys_unblock, calls
    <3>2. QED
      BY <1>1, <1>2, <2>2, <3>1 DEF IdleWaits
  <2>10. LostAreBlocked' /\ NoUnblockLost'
    BY <1>1, <1>2, <1>4, <1>5, <2>2 DEF IInv, LostAreBlocked, NoUnblockLost
  <2>11. PIDsGrow' /\ MappedOrFirst' /\ ChildrenAreLive' /\ OnlyTask1Hangs'
    BY <1>2 DEF IInv, PIDsGrow, MappedOrFirst, ChildrenAreLive, OnlyTask1Hangs
  <2>12. QED
    BY <2>2, <2>4, <2>6, <2>7, <2>8, <2>9, <2>10, <2>11 DEF IInv, Queues
<1>6. CASE /\ state[c] # ST_BLOCKED
           /\ pending_unblocks' = [pending_unblocks EXCEPT ![c] = @ + 1]
           /\ UNCHANGED <<state, blocked, readyqueue>>
  <2>1. c \notin Range(blocked)
    BY <1>1, <1>6 DEF StateTellsList
  <2>2. pending_unblocks' \in [Task -> Nat]
        /\ \A t \in Task \ {c} : pending_unblocks'[t] = pending_unblocks[t]
    BY <1>1, <1>4, <1>6
  <2>3. TypeOK'
    BY <1>2, <1>6, <2>2 DEF IInv, TypeOK
  <2>4. Range(blocked) \subseteq Task \ {c}
    BY <1>1, <2>1 DEF SlotInOnePlace
  <2>5. NoUnblockLost'
    BY <1>2, <1>6, <2>2, <2>4 DEF IInv, NoUnblockLost
  <2>6. Queues'
    BY <1>2, <1>6 DEF IInv, Queues, SlotInOnePlace, StateTellsList, IdleWaits
  <2>7. LostAreBlocked' /\ PIDsGrow' /\ MappedOrFirst' /\ ChildrenAreLive'
        /\ OnlyTask1Hangs'
    BY <1>2, <1>6 DEF IInv, LostAreBlocked, PIDsGrow, MappedOrFirst,
                      ChildrenAreLive, OnlyTask1Hangs
  <2>8. QED
    BY <1>6, <2>3, <2>5, <2>6, <2>7 DEF IInv
<1>7. QED
  BY <1>3, <1>5, <1>6

\* Every step of the kernel keeps the invariant.
LEMMA NextSafe ==
  ASSUME IInv, [Next]_vars
  PROVE  IInv'
<1>1. CASE clock_routine
  BY <1>1, ClockSafe
<1>2. CASE sys_fork
  BY <1>2, ForkSafe
<1>3. CASE sys_fork_EAGAIN
  BY <1>3, FailedForkSafe
<1>4. CASE sys_exit
  BY <1>4, ExitSafe
<1>5. CASE sys_block
  BY <1>5, BlockSafe
<1>6. CASE \E pid \in 1001 .. starting_pid : sys_unblock(pid)
  BY <1>6, UnblockSafe
<1>7. CASE UNCHANGED vars
  BY <1>7 DEF vars, IInv, TypeOK, Queues, SlotInOnePlace, StateTellsList,
              IdleWaits, LostAreBlocked, PIDsGrow, MappedOrFirst,
              NoUnblockLost, ChildrenAreLive, OnlyTask1Hangs
<1>8. QED
  BY <1>1, <1>2, <1>3, <1>4, <1>5, <1>6, <1>7 DEF Next
-----------------------------------------------------------------------------
(* The theorems.                                                           *)

\* The inductive invariant holds in every state of every behaviour.
THEOREM Invariance == Spec => []IInv
<1>1. Init => IInv
  BY InitSafe
<1>2. IInv /\ [Next]_vars => IInv'
  BY NextSafe
<1>3. QED
  BY <1>1, <1>2, PTL DEF Spec

\* Every variable always has its type.
THEOREM TypeCorrect == Spec => []TypeOK
<1>1. IInv => TypeOK
  BY DEF IInv
<1>2. QED
  BY <1>1, Invariance, PTL

\* No handler loses a slot or leaves one on two lists, and the state field tells
\* where a slot is, although sys_block unlinks a task that is on no list.
THEOREM ListsAreRight == Spec => []QueuesAgree
<1>1. IInv => QueuesAgree
  BY DEF IInv, Queues, QueuesAgree
<1>2. QED
  BY <1>1, Invariance, PTL

\* Nobody sleeps who has an unblock to take, in whatever order they come.
THEOREM UnblocksAreKept == Spec => []NoUnblockLost
<1>1. IInv => NoUnblockLost
  BY DEF IInv
<1>2. QED
  BY <1>1, Invariance, PTL

\* The children of a process are processes, its own, with PIDs that differ.
THEOREM FamiliesAreRight == Spec => []ChildrenAreLive
<1>1. IInv => ChildrenAreLive
  BY DEF IInv
<1>2. QED
  BY <1>1, Invariance, PTL

\* Only the first process can hang the kernel in sys_block.
THEOREM ForkedNeverHang == Spec => []OnlyTask1Hangs
<1>1. IInv => OnlyTask1Hangs
  BY DEF IInv
<1>2. QED
  BY <1>1, Invariance, PTL

\* Once idle runs nothing that waits is ever woken.
THEOREM IdleIsFinal == Spec => IdleIsTheEnd
<1>1. ASSUME IInv, [Next]_vars, running = idle_task
      PROVE  readyqueue = <<>> /\ UNCHANGED <<running, readyqueue, blocked>>
  <2>1. readyqueue = <<>>
    BY <1>1 DEF IInv, Queues, IdleWaits
  <2>2. CASE clock_routine
    BY <2>1, <2>2 DEF clock_routine, schedule, needs_sched_rr
  <2>3. CASE UNCHANGED vars
    BY <2>1, <2>3 DEF vars
  <2>4. QED
    BY <1>1, <2>2, <2>3
       DEF Next, sys_fork, sys_fork_EAGAIN, sys_exit, sys_block,
           sys_block_pending, sys_block_waits, sys_block_faults, sys_unblock, calls
<1>2. IInv /\ [Next]_vars =>
        [running = idle_task =>
           readyqueue = <<>> /\ UNCHANGED <<running, readyqueue, blocked>>]_vars
  BY <1>1
<1>3. QED
  BY <1>2, Invariance, PTL DEF Spec, IdleIsTheEnd

\* A step that takes t off blocked is the unblock of its parent, and none gives
\* t the processor before.
LEMMA StillWaits ==
  ASSUME IInv, [Next]_vars, NEW t \in Range(blocked) \ {running}
  PROVE  /\ running' # t
         /\ t \notin Range(blocked') =>
              t \in childs[running] /\ t \in Range(readyqueue')
<1>1. /\ SlotInOnePlace /\ StateTellsList /\ IdleWaits /\ t # idle_task
      /\ {freequeue, readyqueue, blocked} \subseteq Seq(Task)
      /\ running \in Task /\ state \in [Task -> state_t]
  BY DEF IInv, TypeOK, Queues, IdleWaits
<1>2. CASE clock_routine
  <2>1. /\ ~hung /\ hung' = FALSE /\ schedule(state)
        /\ UNCHANGED <<freequeue, blocked>>
    BY <1>2 DEF clock_routine, IInv, TypeOK
  <2>2. running' # running => running' \notin Range(blocked)
    BY <1>1, <2>1, ScheduleSafe DEF SlotInOnePlace
  <2>3. QED
    BY <2>1, <2>2
<1>3. CASE sys_exit
  <2>1. /\ sched_next_rr(readyqueue, state) /\ blocked' = blocked
    BY <1>3 DEF sys_exit
  <2>2. running' \in Range(readyqueue) \cup {idle_task}
    BY <1>1, <2>1, TakeFirst DEF sched_next_rr, SlotInOnePlace
  <2>3. QED
    BY <1>1, <2>1, <2>2 DEF SlotInOnePlace
<1>4. CASE sys_block_waits
  <2> DEFINE st == [state EXCEPT ![running] = ST_BLOCKED]
  <2>1. /\ blocked' = list_add_tail(running, list_del(running, blocked))
        /\ schedule(st) /\ ~hung /\ hung' = FALSE /\ running # idle_task
        /\ UNCHANGED freequeue
    BY <1>4 DEF sys_block_waits, calls, IInv, TypeOK
  <2>2. /\ blocked' \in Seq(Task) /\ IsInjective(blocked')
        /\ Range(blocked') = Range(blocked) \cup {running}
    BY <1>1, <2>1, MoveToTail DEF SlotInOnePlace
  <2>3. st \in [Task -> state_t]
    BY <1>1, TaskFacts
  <2>4. running' # running => running' \notin Range(blocked)
    BY <2>1, <2>2, <2>3, ScheduleSafe
  <2>5. QED
    BY <2>2, <2>4
<1>5. CASE sys_block_pending \/ sys_block_faults \/ sys_fork \/ sys_fork_EAGAIN
  BY <1>5 DEF sys_block_pending, sys_block_faults, sys_fork, sys_fork_EAGAIN
<1>6. CASE \E pid \in 1001 .. starting_pid : sys_unblock(pid)
  <2>1. running' = running
    BY <1>6 DEF sys_unblock
  <2>2. QED
    BY <1>6, <2>1, UnblockSafe
<1>7. CASE UNCHANGED vars
  BY <1>7 DEF vars
<1>8. QED
  BY <1>2, <1>3, <1>4, <1>5, <1>6, <1>7 DEF Next, sys_block

\* Whoever waits on blocked is woken by its parent or not at all.
THEOREM ParentsWake == Spec => OnlyParentWakes
<1>1. IInv /\ [Next]_vars =>
        [\A t \in Range(blocked) \ {running} :
            /\ running' # t
            /\ t \notin Range(blocked') =>
                 t \in childs[running] /\ t \in Range(readyqueue')]_vars
  BY StillWaits
<1>2. QED
  BY <1>1, Invariance, PTL DEF Spec, OnlyParentWakes
-----------------------------------------------------------------------------
(* The kernel as a whole.                                                  *)

\* A step of the kernel is one of the scheduler, or none to it.
LEMMA KernelStep ==
  ASSUME [KernelNext]_kernel_vars
  PROVE  [Next]_vars
<1>1. CASE fork \/ fork_EAGAIN \/ exit
  BY <1>1 DEF fork, fork_EAGAIN, exit, Next
<1>2. CASE store \/ UNCHANGED kernel_vars
  BY <1>2 DEF store, kernel_vars
<1>3. CASE no_memory(clock_routine) \/ no_memory(sys_block)
  BY <1>3 DEF no_memory, Next
<1>4. CASE \E pid \in 1001 .. starting_pid : no_memory(sys_unblock(pid))
  BY <1>4 DEF no_memory, Next
<1>5. QED
  BY <1>1, <1>2, <1>3, <1>4 DEF KernelNext

\* Every behaviour of the kernel is one of module BaseScheduler: the memory
\* decides which forks fail, and stores change no task.
THEOREM KernelIsBaseScheduler == KernelSpec => Spec
<1>1. KernelInit => Init
  BY DEF KernelInit
<1>2. [KernelNext]_kernel_vars => [Next]_vars
  BY KernelStep
<1>3. QED
  BY <1>1, <1>2, PTL DEF KernelSpec, Spec

\* So what holds of the scheduler alone holds when the memory is there, too: no
\* unblock is lost, whatever forks fail for want of frames.
THEOREM KernelLosesNoUnblock == KernelSpec => []NoUnblockLost
BY KernelIsBaseScheduler, UnblocksAreKept, PTL
-----------------------------------------------------------------------------
(* The memory: the inductive invariant.                                    *)

StackPage == PAG_LOG_INIT_DATA + NUM_PAG_DATA - 1

MemoryTypes ==
  /\ pagusr_table \in [Slot -> [Page -> Frame \cup {Absent}]]
  /\ phys_mem \subseteq Frame
  /\ content \in [Frame -> Value]
  /\ exited \in BOOLEAN

\* The first frame of code is allocated for good: free_frame passes over it.
FirstFrameKept == NUM_PAG_KERNEL \in phys_mem

\* No table has an entry left where fork maps the child's frames, so taking them
\* out again leaves the parent as it was.
CopyWindowEmpty ==
  \A t \in Slot, p \in Page :
     p - NUM_PAG_DATA \in LoopPage => pagusr_table[t][p] = Absent

\* Until exit frees frames of code, what a process maps is allocated, so fork
\* never gives it out again.
MappedIsTaken ==
  ~exited => \A t \in Process, p \in DataPage \cup CodePage :
               get_frame(t, p) \in phys_mem

\* Exit makes a process of nobody, and nobody it has made lost runs.
RunningNotLost == running \notin lost

MInv ==
  /\ MemoryTypes /\ FirstFrameKept /\ CopyWindowEmpty /\ MappedIsTaken
  /\ RunningNotLost /\ PartsAgree /\ ForksShareNoFrame

\* The sizes are positive numbers, and the boot's frames exist.
LEMMA MemorySizes ==
  /\ NUM_PAG_KERNEL \in Nat \ {0} /\ NUM_PAG_CODE \in Nat \ {0}
  /\ NUM_PAG_DATA \in Nat \ {0} /\ TOTAL_FRAMES \in Nat \ {0}
  /\ NUM_PAG_CODE < NUM_PAG_DATA
  /\ NUM_PAG_KERNEL + 2 * (NUM_PAG_CODE + NUM_PAG_DATA) <= TOTAL_FRAMES
BY BaseMemoryAssumption DEF BootFrame

\* The parts of the address space, and where the loops of fork and exit run: over
\* the stack, and over nothing but data and code.
LEMMA Layout ==
  /\ KernelPage \cup DataPage \cup CodePage \cup LoopPage \subseteq Page
  /\ KernelPage \cap (DataPage \cup CodePage) = {}
  /\ DataPage \cap CodePage = {}
  /\ LoopPage \subseteq DataPage \cup CodePage
  /\ StackPage \in DataPage \cap LoopPage
  /\ 0 \in KernelPage /\ 0 \notin LoopPage
  /\ \A p \in Page : p - NUM_PAG_DATA \in LoopPage =>
                        p \notin KernelPage \cup DataPage \cup CodePage
BY MemorySizes
   DEF KernelPage, DataPage, CodePage, LoopPage, Page, StackPage,
       PAG_LOG_INIT_DATA, PAG_LOG_INIT_CODE

\* Absent is no frame.
LEMMA NoFrame == Absent \notin Frame /\ 0 \in Frame /\ Frame \subseteq Nat
                 /\ NUM_PAG_KERNEL \in Frame /\ IsFiniteSet(Frame)
BY MemorySizes, FS_Interval DEF Absent, Frame

\* Every page is on some frame, frame 0 when it maps nothing.
LEMMA FramesOfPages ==
  ASSUME MemoryTypes, NEW t \in Slot, NEW p \in Page
  PROVE  /\ get_frame(t, p) \in Frame
         /\ pagusr_table[t][p] = Absent \/ pagusr_table[t][p] = get_frame(t, p)
BY NoFrame DEF MemoryTypes, get_frame

\* What alloc_frame gives out is behind the kernel, free, and not the first
\* frame of code.
LEMMA FreeFrames ==
  ASSUME MemoryTypes, FirstFrameKept
  PROVE  /\ \A f \in free_frames : /\ f \in Frame \ phys_mem
                                   /\ f > NUM_PAG_KERNEL /\ f # 0
         /\ freeable(free_frames) = free_frames
<1>1. ASSUME NEW f \in free_frames
      PROVE  f \in Frame \ phys_mem /\ f > NUM_PAG_KERNEL /\ f # 0 /\ f < TOTAL_FRAMES
  <2>1. f \in Frame \ phys_mem /\ f >= NUM_PAG_KERNEL /\ f # NUM_PAG_KERNEL
    BY DEF free_frames, FirstFrameKept
  <2>2. QED
    BY <2>1, MemorySizes DEF Frame
<1>2. QED
  BY <1>1 DEF freeable

\* The table fork builds: the parent's kernel and code, new frames for data, one
\* for every page, and above them what the slot had.
LEMMA ChildTable ==
  ASSUME MemoryTypes, FirstFrameKept, frames_suffice,
         NEW t \in Slot, NEW c \in Slot
  PROVE  /\ child_PT(t, c) \in [Page -> Frame \cup {Absent}]
         /\ \A p \in KernelPage \cup CodePage : child_PT(t, c)[p] = get_frame(t, p)
         /\ \A p \in DataPage :
               /\ child_PT(t, c)[p] \in first_free(NUM_PAG_DATA)
               /\ child_PT(t, c)[p] \in free_frames
         /\ \A p, q \in DataPage :
               child_PT(t, c)[p] = child_PT(t, c)[q] => p = q
         /\ \A p \in Page \ (KernelPage \cup CodePage \cup DataPage) :
               child_PT(t, c)[p] = pagusr_table[c][p]
<1> DEFINE rank(f) == Cardinality({g \in free_frames : g < f})
           PT == child_PT(t, c)
           nth(p) == CHOOSE f \in first_free(NUM_PAG_DATA) :
                       rank(f) = p - PAG_LOG_INIT_DATA
<1>1. /\ free_frames \in SUBSET Nat /\ IsFiniteSet(free_frames)
      /\ free_frames \subseteq Frame
  BY NoFrame, FS_Subset DEF free_frames
<1>2. Cardinality(free_frames) >= NUM_PAG_DATA /\ Cardinality(free_frames) \in Nat
  BY <1>1, FS_CardinalityType DEF frames_suffice
<1>3. ASSUME NEW p \in DataPage
      PROVE  /\ nth(p) \in first_free(NUM_PAG_DATA)
             /\ rank(nth(p)) = p - PAG_LOG_INIT_DATA
  <2> DEFINE k == p - PAG_LOG_INIT_DATA
  <2>1. k \in Nat /\ k < NUM_PAG_DATA
    BY MemorySizes DEF DataPage, PAG_LOG_INIT_DATA
  <2>2. k < Cardinality(free_frames)
    BY <1>2, <2>1, MemorySizes
  <2>3. \E f \in free_frames : rank(f) = k
    BY <1>1, <2>1, <2>2, KthLowest
  <2>4. \E f \in first_free(NUM_PAG_DATA) : rank(f) = k
    BY <2>1, <2>3 DEF first_free
  <2>5. QED
    BY <2>4
<1>4. first_free(NUM_PAG_DATA) \subseteq free_frames
  BY DEF first_free
<1> HIDE DEF nth, rank
<1>5. \A p \in Page :
        PT[p] = IF p \in KernelPage \cup CodePage THEN get_frame(t, p)
                ELSE IF p \in DataPage THEN nth(p) ELSE pagusr_table[c][p]
  BY DEF child_PT, nth, rank
<1>6. \A p \in DataPage : PT[p] = nth(p)
  BY <1>5, Layout
<1>7. PT \in [Page -> Frame \cup {Absent}]
  <2>1. ASSUME NEW p \in Page
        PROVE  PT[p] \in Frame \cup {Absent}
    <3>1. get_frame(t, p) \in Frame /\ pagusr_table[c][p] \in Frame \cup {Absent}
      BY FramesOfPages DEF MemoryTypes
    <3>2. p \in DataPage => nth(p) \in Frame
      BY <1>1, <1>3, <1>4
    <3>3. QED
      BY <1>5, <3>1, <3>2
  <2>2. PT = [p \in Page |-> PT[p]]
    BY DEF child_PT
  <2> HIDE DEF PT
  <2>3. QED
    BY <2>1, <2>2
<1>8. ASSUME NEW p \in DataPage, NEW q \in DataPage, PT[p] = PT[q]
      PROVE  p = q
  <2>1. p - PAG_LOG_INIT_DATA = q - PAG_LOG_INIT_DATA
    BY <1>3, <1>6, <1>8
  <2>2. QED
    BY <2>1, MemorySizes DEF DataPage, PAG_LOG_INIT_DATA
<1>9. \A p \in KernelPage \cup CodePage : PT[p] = get_frame(t, p)
  BY <1>5, Layout
<1>10. QED
  BY <1>3, <1>4, <1>5, <1>6, <1>7, <1>8, <1>9, Layout
-----------------------------------------------------------------------------
(* The memory: every handler preserves the invariant.                      *)

\* Boot gives task 1 frames for code and data, each its own, and nobody else any.
LEMMA MemoryInitSafe == KernelInit => MInv
<1> SUFFICES ASSUME KernelInit PROVE MInv
  OBVIOUS
<1>1. /\ IInv /\ Init /\ exited = FALSE
      /\ pagusr_table = [t \in Slot |-> IF t = task1 THEN Task1Table ELSE InitTable]
      /\ phys_mem = 0 .. NUM_PAG_KERNEL - 1
           \cup {BootFrame(n) : n \in 0 .. NUM_PAG_CODE + NUM_PAG_DATA - 1}
      /\ content = [f \in Frame |-> 0]
  BY InitSafe DEF KernelInit, MemoryInit
<1>2. \A n \in 0 .. NUM_PAG_CODE + NUM_PAG_DATA - 1 :
         BootFrame(n) \in Frame /\ BootFrame(n) \in phys_mem /\ BootFrame(n) # 0
  BY <1>1, MemorySizes DEF BootFrame, Frame
<1>3. /\ InitTable \in [Page -> Frame \cup {Absent}]
      /\ \A p \in DataPage \cup CodePage : InitTable[p] = Absent
      /\ \A p \in Page : p \notin KernelPage => InitTable[p] = Absent
      /\ InitTable[0] = Absent
  <2>1. KernelPage \subseteq Frame
    BY MemorySizes DEF KernelPage, Frame
  <2>2. QED
    BY <2>1, Layout DEF InitTable
<1> DEFINE nth(p) == IF p \in CodePage THEN p - PAG_LOG_INIT_CODE
                     ELSE NUM_PAG_CODE + p - PAG_LOG_INIT_DATA
<1>4. \A p \in DataPage \cup CodePage :
        nth(p) \in 0 .. NUM_PAG_CODE + NUM_PAG_DATA - 1
  BY MemorySizes DEF DataPage, CodePage, PAG_LOG_INIT_CODE, PAG_LOG_INIT_DATA
<1>5. \A p, q \in DataPage \cup CodePage : nth(p) = nth(q) => p = q
  BY MemorySizes DEF DataPage, CodePage, PAG_LOG_INIT_CODE, PAG_LOG_INIT_DATA
<1>6. /\ \A p \in DataPage \cup CodePage : Task1Table[p] = BootFrame(nth(p))
      /\ \A p \in Page \ (DataPage \cup CodePage) : Task1Table[p] = InitTable[p]
      /\ Task1Table = [p \in Page |-> Task1Table[p]]
  BY Layout DEF Task1Table
<1> HIDE DEF nth
<1>7. Task1Table \in [Page -> Frame \cup {Absent}]
  <2>1. \A p \in Page : Task1Table[p] \in Frame \cup {Absent}
    BY <1>2, <1>3, <1>4, <1>6
  <2> DEFINE T == Task1Table
  <2>2. T = [p \in Page |-> T[p]]
    BY <1>6
  <2> HIDE DEF T
  <2>3. QED
    BY <2>1, <2>2 DEF T
<1>8. task1 \in Slot /\ Slot = Task
  BY SlotsAreTasks, TaskFacts
<1>9. \A t \in Slot : pagusr_table[t] = IF t = task1 THEN Task1Table ELSE InitTable
  BY <1>1
<1>10. MemoryTypes
  <2>1. phys_mem \subseteq Frame
    BY <1>1, <1>2, MemorySizes DEF Frame
  <2>2. QED
    BY <1>1, <1>3, <1>7, <2>1, BaseMemoryAssumption DEF MemoryTypes
<1>11. FirstFrameKept
  <2>1. 0 \in 0 .. NUM_PAG_CODE + NUM_PAG_DATA - 1 /\ BootFrame(0) = NUM_PAG_KERNEL
    BY MemorySizes DEF BootFrame
  <2>2. QED
    BY <1>2, <2>1 DEF FirstFrameKept
<1>12. CopyWindowEmpty
  BY <1>3, <1>6, <1>9, Layout DEF CopyWindowEmpty
<1>13. Process = {task1}
  <2>1. lost = {} /\ blocked = <<>> /\ readyqueue = <<>> /\ running = task1
    BY <1>1 DEF Init
  <2>2. Range(blocked) = {} /\ Range(readyqueue) = {}
    BY <2>1 DEF Range
  <2>3. QED
    BY <1>1, <2>1, <2>2, TaskFacts
       DEF Process, IInv, Queues, SlotInOnePlace
<1>14. \A p \in DataPage \cup CodePage :
          get_frame(task1, p) = BootFrame(nth(p))
  BY <1>2, <1>4, <1>6, <1>8, <1>9, NoFrame DEF get_frame
<1>15. MappedIsTaken
  BY <1>2, <1>4, <1>13, <1>14 DEF MappedIsTaken
<1>16. ForksShareNoFrame
  <2> SUFFICES ASSUME NEW p \in DataPage, NEW q \in DataPage \cup CodePage, p # q
               PROVE  get_frame(task1, p) # get_frame(task1, q)
    BY <1>13 DEF ForksShareNoFrame
  <2>1. nth(p) # nth(q)
    BY <1>5
  <2>2. BootFrame(nth(p)) # BootFrame(nth(q))
    BY <1>4, <2>1, MemorySizes DEF BootFrame
  <2>3. QED
    BY <1>14, <2>2
<1>17. PartsAgree
  <2>1. get_frame(task1, StackPage) # 0
    BY <1>2, <1>4, <1>14, Layout
  <2>2. \A t \in Slot \ {task1} : get_frame(t, StackPage) = 0
    BY <1>3, <1>9, Layout DEF get_frame
  <2>3. \A t \in Slot : pagusr_table[t][0] = Absent
    BY <1>3, <1>6, <1>9, Layout
  <2>4. null_mapped = {}
    BY <1>1 DEF Init
  <2>5. QED
    BY <1>13, <2>1, <2>2, <2>3, <2>4 DEF PartsAgree, StackPage
<1>18. RunningNotLost
  BY <1>1 DEF Init, RunningNotLost
<1>19. QED
  BY <1>10, <1>11, <1>12, <1>15, <1>16, <1>17, <1>18 DEF MInv

\* Fork adds its child to the processes, exit takes out its caller, and no other
\* call changes who is one.
LEMMA ProcessesChange ==
  ASSUME IInv, RunningNotLost
  PROVE  /\ calls => running \in Process
         /\ sys_fork => /\ Head(freequeue) \in Task \ Process
                        /\ Head(freequeue) # running
                        /\ Process' = Process \cup {Head(freequeue)}
         /\ sys_fork_EAGAIN => Process' = Process
         /\ sys_exit => Process' = Process \ {running}
         /\ clock_routine \/ sys_block => Process' = Process
         /\ \A pid : sys_unblock(pid) => Process' = Process
<1>1. /\ freequeue \in Seq(Task) /\ IsInjective(freequeue) /\ running \in Task
      /\ SlotInOnePlace /\ StateTellsList /\ lost \subseteq Range(blocked)
  BY DEF IInv, TypeOK, Queues, SlotInOnePlace, LostAreBlocked
<1>2. calls => running \in Process
  BY <1>1 DEF Process, SlotInOnePlace, RunningNotLost, calls
<1>3. ASSUME freequeue # <<>>
      PROVE  /\ Head(freequeue) \in Task \ Process /\ Head(freequeue) # running
             /\ Head(freequeue) \notin lost /\ Head(freequeue) # idle_task
             /\ Tail(freequeue) \in Seq(Task)
             /\ Range(Tail(freequeue)) = Range(freequeue) \ {Head(freequeue)}
  BY <1>1, <1>3, TakeFirst DEF Process, SlotInOnePlace
<1>4. sys_fork => Process' = Process \cup {Head(freequeue)}
  <2> SUFFICES ASSUME sys_fork PROVE Process' = Process \cup {Head(freequeue)}
    OBVIOUS
  <2>1. freequeue # <<>> /\ freequeue' = Tail(freequeue) /\ lost' = lost
    BY DEF sys_fork
  <2>2. QED
    BY <1>3, <2>1 DEF Process
<1>5. sys_fork_EAGAIN => Process' = Process
  <2> SUFFICES ASSUME sys_fork_EAGAIN PROVE Process' = Process
    OBVIOUS
  <2>1. /\ freequeue # <<>> /\ lost' = lost
        /\ freequeue' = Append(Tail(freequeue), Head(freequeue))
    BY DEF sys_fork_EAGAIN, list_add_tail
  <2>2. Range(freequeue') = Range(Tail(freequeue)) \cup {Head(freequeue)}
    <3> DEFINE q == Tail(freequeue)
               h == Head(freequeue)
    <3>1. q \in Seq(Task) /\ h \in Task /\ freequeue' = Append(q, h)
      BY <1>3, <2>1
    <3> HIDE DEF q, h
    <3>2. Range(freequeue') = Range(q) \cup {h}
      BY <3>1, AddTailRange
    <3>3. QED
      BY <3>2 DEF q, h
  <2>3. Head(freequeue) \in Range(freequeue)
    BY <1>1, <2>1, TakeFirst
  <2>4. QED
    BY <1>3, <2>1, <2>2, <2>3 DEF Process
<1>6. sys_exit => Process' = Process \ {running}
  <2> SUFFICES ASSUME sys_exit PROVE Process' = Process \ {running}
    OBVIOUS
  <2>1. /\ freequeue' = update_process_state_rr(freequeue, state)
        /\ lost' = IF state[running] = ST_BLOCKED THEN lost \cup {running} ELSE lost
    BY DEF sys_exit
  <2>2. CASE state[running] = ST_BLOCKED
    BY <2>1, <2>2 DEF Process, update_process_state_rr
  <2>3. CASE state[running] # ST_BLOCKED
    <3>1. freequeue' = Append(freequeue, running) /\ lost' = lost
      BY <1>1, <2>1, <2>3, TaskFacts
         DEF StateTellsList, update_process_state_rr, list_add_tail
    <3>2. QED
      BY <1>1, <3>1, AddTailRange DEF Process
  <2>4. QED
    BY <2>2, <2>3
<1>7. clock_routine \/ sys_block => Process' = Process
  BY DEF clock_routine, sys_block, sys_block_pending, sys_block_waits,
         sys_block_faults, Process
<1>8. \A pid : sys_unblock(pid) => Process' = Process
  BY DEF sys_unblock, Process
<1>9. QED
  BY <1>2, <1>3, <1>4, <1>5, <1>6, <1>7, <1>8 DEF sys_fork

\* Nobody that exit lost gets the processor.
LEMMA NotLostSafe ==
  ASSUME IInv, RunningNotLost, [Next]_vars
  PROVE  RunningNotLost'
<1>1. lost \subseteq Range(blocked)
  BY DEF IInv, LostAreBlocked
<1>2. running' \notin lost
  BY <1>1, StillWaits DEF RunningNotLost
<1>3. CASE sys_exit
  <2>1. sched_next_rr(readyqueue, state) /\ running # idle_task
        /\ lost' \in {lost, lost \cup {running}}
    BY <1>3 DEF sys_exit, calls
  <2>2. /\ readyqueue \in Seq(Task) /\ IsInjective(readyqueue)
        /\ running \notin Range(readyqueue)
    BY DEF IInv, TypeOK, Queues, SlotInOnePlace
  <2>3. running' # running
    BY <2>1, <2>2, TakeFirst DEF sched_next_rr
  <2>4. QED
    BY <1>2, <2>1, <2>3 DEF RunningNotLost
<1>4. CASE ~sys_exit
  <2>1. lost' = lost
    BY <1>4 DEF Next, vars, clock_routine, sys_fork, sys_fork_EAGAIN, sys_block,
                sys_block_pending, sys_block_waits, sys_block_faults, sys_unblock
  <2>2. QED
    BY <1>2, <2>1 DEF RunningNotLost
<1>5. QED
  BY <1>3, <1>4

\* What copied is computed by: after[n] is what the frames hold after n turns.
Turn(n) == NUM_PAG_KERNEL + NUM_PAG_CODE + n - 1
Copies(after, t, PT) ==
  /\ after \in [0 .. NUM_PAG_DATA -> [Frame -> Value]]
  /\ after[0] = content
  /\ \A n \in 1 .. NUM_PAG_DATA :
        after[n] = [after[n - 1] EXCEPT ![PT[Turn(n)]] =
                                          after[n - 1][get_frame(t, Turn(n))]]

\* The turns of the loop go over its pages.
LEMMA Turns ==
  \A n \in 1 .. NUM_PAG_DATA : Turn(n) \in LoopPage
BY MemorySizes DEF Turn, LoopPage

\* The definition of copied has a solution.
LEMMA CopyComputed ==
  ASSUME content \in [Frame -> Value], NEW t, NEW PT,
         \A p \in LoopPage : get_frame(t, p) \in Frame
  PROVE  \E f : Copies(f, t, PT) /\ copied(t, PT) = f[NUM_PAG_DATA]
<1> DEFINE S == 0 .. NUM_PAG_DATA
           V == [Frame -> Value]
           turn(g, n) == [g EXCEPT ![PT[Turn(n)]] = g[get_frame(t, Turn(n))]]
           body(f, n) == IF n = 0 THEN content ELSE turn(f[n - 1], n)
           m == [n \in S |-> n]
           D == [p \in S \X [S -> V] |-> body(p[2], p[1])]
           of == CHOOSE f : f = [n \in S |-> body(f, n)]
<1>1. NUM_PAG_DATA \in Nat
  BY MemorySizes
<1>2. ASSUME NEW g \in V, NEW n \in 1 .. NUM_PAG_DATA
      PROVE  turn(g, n) \in V
  <2>1. g[get_frame(t, Turn(n))] \in Value
    BY Turns
  <2>2. QED
    BY <2>1
<1>3. ASSUME NEW f \in [S -> V], NEW n \in S
      PROVE  body(f, n) \in V
  <2>1. CASE n = 0
    BY <2>1
  <2>2. CASE n # 0
    <3>1. n - 1 \in S /\ n \in 1 .. NUM_PAG_DATA
      BY <1>1, <2>2
    <3>2. f[n - 1] \in V
      BY <3>1
    <3> HIDE DEF turn, V, S
    <3>3. QED
      BY <1>2, <2>2, <3>1, <3>2
  <2>3. QED
    BY <2>1, <2>2
<1> HIDE DEF turn, V
<1>4. /\ D \in [S \X [S -> V] -> V]
      /\ \A n \in S, f \in [S -> V] : D[<<n, f>>] = body(f, n)
  <2> HIDE DEF body, S
  <2>1. QED
    BY <1>3
<1>5. m \in [S -> Nat] /\ \A n \in S : m[n] = n
  BY <1>1
<1>6. ASSUME NEW n \in S, NEW f \in [S -> V], NEW g \in [S -> V],
             \A k \in S : m[k] < m[n] => f[k] = g[k]
      PROVE  body(f, n) = body(g, n)
  <2>1. n # 0 => n - 1 \in S /\ n - 1 < n
    BY <1>1
  <2>2. n # 0 => f[n - 1] = g[n - 1]
    BY <1>5, <1>6, <2>1
  <2>3. QED
    BY <2>2
<1>7. \A n \in S : \A f, g \in [S -> V] :
        (\A k \in S : m[k] < m[n] => f[k] = g[k]) => D[<<n, f>>] = D[<<n, g>>]
  <2> HIDE DEF body, D, m, S
  <2> SUFFICES ASSUME NEW n \in S, NEW f \in [S -> V], NEW g \in [S -> V],
                      \A k \in S : m[k] < m[n] => f[k] = g[k]
               PROVE  D[<<n, f>>] = D[<<n, g>>]
    OBVIOUS
  <2>1. D[<<n, f>>] = body(f, n) /\ D[<<n, g>>] = body(g, n)
    BY <1>4
  <2>2. body(f, n) = body(g, n)
    BY <1>6
  <2>3. QED
    BY <2>1, <2>2
<1> HIDE DEF body, D, m
<1>8. PICK f \in [S -> V] : \A n \in S : f[n] = D[<<n, f>>]
  <2> HIDE DEF S
  <2>1. LooksBelow(S, V, m, D)
    BY <1>7 DEF LooksBelow
  <2>2. V # {}
    BY DEF V
  <2>3. Solvable(S, V, D)
    BY <1>4, <1>5, <2>1, <2>2, Recursion, Zenon
  <2>4. QED
    BY <2>3 DEF Solvable
<1>9. f = [n \in S |-> body(f, n)]
  BY <1>4, <1>8
<1>10. of = [n \in S |-> body(of, n)]
  BY <1>9
<1>11. copied(t, PT) = of[NUM_PAG_DATA]
  BY DEF copied, body, turn, Turn
<1> HIDE DEF of
<1>12. \A n \in S : of[n] = body(of, n)
  <2> HIDE DEF S
  <2>1. QED
    BY <1>10
<1>13. of[0] = content
  <2>1. 0 \in S
    BY <1>1
  <2>2. of[0] = body(of, 0)
    BY <1>12, <2>1, Zenon
  <2>3. QED
    BY <2>2 DEF body
<1>14. ASSUME NEW n \in 1 .. NUM_PAG_DATA
       PROVE  of[n] = turn(of[n - 1], n)
  <2>1. n \in S /\ n # 0
    BY <1>1
  <2>2. of[n] = body(of, n)
    BY <1>12, <2>1, Zenon
  <2>3. body(of, n) = turn(of[n - 1], n)
    BY <2>1, Zenon DEF body
  <2>4. QED
    BY <2>2, <2>3, Zenon
<1>15. ASSUME NEW n \in S
       PROVE  of[n] \in V
  <2> DEFINE T == {k \in Nat : k \in S => of[k] \in V}
  <2>1. 0 \in T
    BY <1>13 DEF V
  <2>2. ASSUME NEW k \in T
        PROVE  k + 1 \in T
    <3> SUFFICES ASSUME k + 1 \in S PROVE of[k + 1] \in V
      OBVIOUS
    <3>1. k \in S /\ k + 1 \in 1 .. NUM_PAG_DATA /\ (k + 1) - 1 = k
      BY <1>1
    <3>2. of[k + 1] = turn(of[k], k + 1)
      BY <1>14, <3>1
    <3>3. QED
      BY <1>2, <3>1, <3>2
  <2>3. T = Nat
    <3>1. T \in SUBSET Nat
      OBVIOUS
    <3> HIDE DEF T
    <3>2. QED
      BY <2>1, <2>2, <3>1, SetInduction
  <2>4. QED
    BY <1>1, <2>3
<1>16. of \in [S -> V]
  BY <1>10, <1>15
<1>17. QED
  BY <1>11, <1>13, <1>14, <1>16 DEF Copies, V, turn

\* A fork's copies are contents, and a frame that no page of the loop is copied to
\* keeps its own.
LEMMA CopiedElsewhere ==
  ASSUME content \in [Frame -> Value], NEW t, NEW PT,
         \A p \in LoopPage : get_frame(t, p) \in Frame
  PROVE  /\ copied(t, PT) \in [Frame -> Value]
         /\ \A f \in Frame : (\A q \in LoopPage : PT[q] # f)
                             => copied(t, PT)[f] = content[f]
<1>1. PICK g : Copies(g, t, PT) /\ copied(t, PT) = g[NUM_PAG_DATA]
  BY CopyComputed
<1>2. NUM_PAG_DATA \in Nat /\ NUM_PAG_DATA \in 0 .. NUM_PAG_DATA
  BY MemorySizes
<1>3. copied(t, PT) \in [Frame -> Value]
  BY <1>1, <1>2 DEF Copies
<1>4. ASSUME NEW f \in Frame, \A q \in LoopPage : PT[q] # f
      PROVE  copied(t, PT)[f] = content[f]
  <2> DEFINE T == {n \in Nat : n <= NUM_PAG_DATA => g[n][f] = content[f]}
  <2>1. 0 \in T
    BY <1>1 DEF Copies
  <2>2. ASSUME NEW n \in T
        PROVE  n + 1 \in T
    <3> SUFFICES ASSUME n + 1 <= NUM_PAG_DATA
                 PROVE  g[n + 1][f] = content[f]
      OBVIOUS
    <3>1. /\ n + 1 \in 1 .. NUM_PAG_DATA /\ (n + 1) - 1 = n /\ n \in 0 .. NUM_PAG_DATA
          /\ g[n][f] = content[f]
      BY <1>2
    <3>2. PT[Turn(n + 1)] # f
      BY <1>4, <3>1, Turns
    <3>3. g[n] \in [Frame -> Value]
      BY <1>1, <3>1 DEF Copies
    <3>4. g[n + 1] = [g[n] EXCEPT ![PT[Turn(n + 1)]] =
                                    g[n][get_frame(t, Turn(n + 1))]]
      BY <1>1, <3>1 DEF Copies
    <3>5. QED
      BY <3>1, <3>2, <3>3, <3>4
  <2>3. T = Nat
    <3>1. T \in SUBSET Nat
      OBVIOUS
    <3> HIDE DEF T
    <3>2. QED
      BY <2>1, <2>2, <3>1, SetInduction
  <2>4. QED
    BY <1>1, <1>2, <2>3
<1>5. QED
  BY <1>3, <1>4

\* Fork: the child's data are on frames nobody had, so the child and its parent
\* share code alone, and nothing anybody holds is copied over.
LEMMA ForkPagesSafe ==
  ASSUME IInv, MInv, fork, RunningNotLost'
  PROVE  /\ MInv'
         /\ pagusr_table'[running] = pagusr_table[running]
         /\ ~exited => \A t \in Process, p \in DataPage :
               content'[get_frame(t, p)] = content[get_frame(t, p)]
<1>0. PICK c : c = Head(freequeue)
  OBVIOUS
<1> DEFINE PT == child_PT(running, c)
<1>1. /\ sys_fork /\ frames_suffice /\ exited' = exited
      /\ phys_mem' = phys_mem \cup first_free(NUM_PAG_DATA)
      /\ content' = copied(running, PT)
      /\ null_mapped' = null_mapped \cup {c}
  BY <1>0 DEF fork, fork_pages, sys_fork
<1>2. /\ running \in Process /\ c \in Slot \ Process /\ c # running
      /\ Process' = Process \cup {c} /\ running \in Slot /\ Process \subseteq Slot
  BY <1>0, <1>1, ProcessesChange, SlotsAreTasks DEF MInv, Process, sys_fork
<1>3. /\ MemoryTypes /\ FirstFrameKept /\ CopyWindowEmpty /\ MappedIsTaken
      /\ PartsAgree /\ ForksShareNoFrame
  BY DEF MInv
<1>4. /\ PT \in [Page -> Frame \cup {Absent}]
      /\ \A p \in KernelPage \cup CodePage : PT[p] = get_frame(running, p)
      /\ \A p \in DataPage : PT[p] \in first_free(NUM_PAG_DATA) /\ PT[p] \in free_frames
      /\ \A p, q \in DataPage : PT[p] = PT[q] => p = q
      /\ \A p \in Page \ (KernelPage \cup CodePage \cup DataPage) :
            PT[p] = pagusr_table[c][p]
  BY <1>1, <1>2, <1>3, ChildTable
<1>5. pagusr_table' = [pagusr_table EXCEPT ![c] = PT]
  <2> DEFINE cleared == [p \in Page |-> IF p - NUM_PAG_DATA \in LoopPage
                                        THEN Absent ELSE pagusr_table[running][p]]
  <2>1. cleared = pagusr_table[running]
    BY <1>2, <1>3 DEF CopyWindowEmpty, MemoryTypes
  <2>2. pagusr_table' = [pagusr_table EXCEPT ![c] = PT, ![running] = cleared]
    BY <1>0, <1>2, <1>3 DEF fork, fork_pages, MemoryTypes
  <2> HIDE DEF cleared, PT
  <2>3. QED
    BY <1>2, <1>3, <2>1, <2>2 DEF MemoryTypes
<1> HIDE DEF PT
<1>6. /\ pagusr_table'[c] = PT
      /\ \A t \in Slot \ {c} : pagusr_table'[t] = pagusr_table[t]
  BY <1>2, <1>3, <1>5 DEF MemoryTypes
<1>7. \A p \in DataPage : PT[p] \in Frame \ phys_mem /\ PT[p] # 0
  BY <1>3, <1>4, FreeFrames
<1>8. \A p \in KernelPage \cup DataPage \cup CodePage : PT[p] \in Frame
  BY <1>2, <1>3, <1>4, <1>7, FramesOfPages, Layout
<1>9. /\ \A t \in Slot \ {c}, p \in Page : get_frame(t, p)' = get_frame(t, p)
      /\ \A p \in KernelPage \cup DataPage \cup CodePage : get_frame(c, p)' = PT[p]
  BY <1>6, <1>8, NoFrame DEF get_frame
<1>10. \A p \in LoopPage : get_frame(running, p) \in Frame
  BY <1>2, <1>3, FramesOfPages, Layout
<1>11. MemoryTypes' /\ FirstFrameKept'
  <2>1. first_free(NUM_PAG_DATA) \subseteq Frame
    BY DEF first_free, free_frames
  <2>2. content' \in [Frame -> Value]
    BY <1>1, <1>3, <1>10, CopiedElsewhere DEF MemoryTypes
  <2>3. QED
    BY <1>1, <1>2, <1>3, <1>4, <1>5, <2>1, <2>2 DEF MemoryTypes, FirstFrameKept
<1>12. CopyWindowEmpty'
  BY <1>2, <1>3, <1>4, <1>6, Layout DEF CopyWindowEmpty
<1>13. MappedIsTaken'
  <2> SUFFICES ASSUME ~exited, NEW t \in Process \cup {c},
                      NEW p \in DataPage \cup CodePage
               PROVE  get_frame(t, p)' \in phys_mem'
    BY <1>1, <1>2 DEF MappedIsTaken
  <2>1. CASE t # c
    BY <1>1, <1>2, <1>3, <1>9, <2>1, Layout DEF MappedIsTaken
  <2>2. CASE t = c /\ p \in DataPage
    BY <1>1, <1>4, <1>9, <2>2
  <2>3. CASE t = c /\ p \in CodePage
    BY <1>1, <1>2, <1>3, <1>4, <1>9, <2>3 DEF MappedIsTaken
  <2>4. QED
    BY <2>1, <2>2, <2>3
<1>14. ForksShareNoFrame'
  <2> SUFFICES ASSUME ~exited, NEW t \in Process \cup {c}, NEW u \in Process \cup {c},
                      NEW p \in DataPage, NEW q \in DataPage \cup CodePage,
                      <<t, p>> # <<u, q>>
               PROVE  get_frame(t, p)' # get_frame(u, q)'
    BY <1>1, <1>2 DEF ForksShareNoFrame
  <2>1. CASE t # c /\ u # c
    BY <1>2, <1>3, <1>9, <2>1, Layout DEF ForksShareNoFrame
  <2>2. CASE t # c /\ u = c
    <3>1. get_frame(t, p)' \in phys_mem /\ get_frame(t, p)' = get_frame(t, p)
      BY <1>2, <1>3, <1>9, <2>2, Layout DEF MappedIsTaken
    <3>2. CASE q \in DataPage
      BY <1>7, <1>9, <2>2, <3>1, <3>2
    <3>3. CASE q \in CodePage
      <4>1. get_frame(u, q)' = get_frame(running, q) /\ p # q
        BY <1>4, <1>9, <2>2, <3>3, Layout
      <4>2. QED
        BY <1>2, <1>3, <2>2, <3>1, <3>3, <4>1 DEF ForksShareNoFrame
    <3>4. QED
      BY <3>2, <3>3
  <2>3. CASE t = c /\ u # c
    <3>1. get_frame(u, q)' \in phys_mem
      BY <1>2, <1>3, <1>9, <2>3, Layout DEF MappedIsTaken
    <3>2. QED
      BY <1>7, <1>9, <2>3, <3>1
  <2>4. CASE t = c /\ u = c
    <3>1. CASE q \in DataPage
      BY <1>4, <1>9, <2>4, <3>1
    <3>2. CASE q \in CodePage
      <4>1. get_frame(u, q)' \in phys_mem
        BY <1>2, <1>3, <1>4, <1>9, <2>4, <3>2 DEF MappedIsTaken
      <4>2. QED
        BY <1>7, <1>9, <2>4, <4>1
    <3>3. QED
      BY <3>1, <3>2
  <2>5. QED
    BY <2>1, <2>2, <2>3, <2>4
<1>15. PartsAgree'
  <2>1. ASSUME NEW t \in Slot
        PROVE  t \in Process' <=> get_frame(t, StackPage)' # 0
    BY <1>2, <1>3, <1>7, <1>9, Layout DEF PartsAgree, StackPage
  <2>2. \A t \in Slot : t \in null_mapped' <=> pagusr_table'[t][0] # Absent
    <3>1. pagusr_table'[c][0] # Absent
      BY <1>6, <1>8, Layout, NoFrame
    <3>2. QED
      BY <1>1, <1>2, <1>3, <1>6, <3>1 DEF PartsAgree
  <2>3. null_mapped' \subseteq Slot
    BY <1>1, <1>2, <1>3 DEF PartsAgree
  <2>4. QED
    BY <2>1, <2>2, <2>3 DEF PartsAgree, StackPage
<1>16. ASSUME ~exited, NEW t \in Process, NEW p \in DataPage
       PROVE  content'[get_frame(t, p)] = content[get_frame(t, p)]
  <2> DEFINE f == get_frame(t, p)
  <2>1. f \in Frame /\ f \in phys_mem
    BY <1>2, <1>3, <1>16, FramesOfPages, Layout DEF MappedIsTaken
  <2>2. ASSUME NEW q \in LoopPage
        PROVE  PT[q] # f
    <3>1. CASE q \in DataPage
      BY <1>7, <2>1, <3>1
    <3>2. CASE q \in CodePage
      <4>1. PT[q] = get_frame(running, q) /\ p # q
        BY <1>4, <3>2, Layout
      <4>2. QED
        BY <1>2, <1>3, <1>16, <3>2, <4>1 DEF ForksShareNoFrame
    <3>3. QED
      BY <3>1, <3>2, Layout
  <2> HIDE DEF f
  <2>3. content'[f] = content[f]
    BY <1>1, <1>3, <1>10, <2>1, <2>2, CopiedElsewhere DEF MemoryTypes
  <2>4. QED
    BY <2>3 DEF f
<1>17. pagusr_table'[running] = pagusr_table[running]
  BY <1>2, <1>6
<1>18. QED
  BY <1>3, <1>11, <1>12, <1>13, <1>14, <1>15, <1>16, <1>17 DEF MInv

\* A fork that fails takes all free frames and gives the same ones back.
LEMMA FailedForkPagesSafe ==
  ASSUME IInv, MInv, fork_EAGAIN, RunningNotLost'
  PROVE  MInv' /\ UNCHANGED phys_mem
<1>1. /\ sys_fork_EAGAIN /\ UNCHANGED <<pagusr_table, content, exited, null_mapped>>
      /\ phys_mem' = (phys_mem \cup free_frames) \ freeable(free_frames)
  BY DEF fork_EAGAIN, fork_pages_EAGAIN, sys_fork_EAGAIN
<1>2. phys_mem' = phys_mem
  BY <1>1, FreeFrames DEF MInv
<1>3. Process' = Process
  BY <1>1, ProcessesChange DEF MInv
<1>4. QED
  BY <1>1, <1>2, <1>3
     DEF MInv, MemoryTypes, FirstFrameKept, CopyWindowEmpty, MappedIsTaken,
         PartsAgree, ForksShareNoFrame, get_frame

\* Exit gives up the stack, which is in the part of the data its loop reaches,
\* and so the process is none any more.
LEMMA ExitPagesSafe ==
  ASSUME IInv, MInv, exit, RunningNotLost'
  PROVE  MInv'
<1>0. PICK t : t = running
  OBVIOUS
<1> DEFINE T == [p \in Page |-> IF p \in LoopPage THEN Absent
                                ELSE pagusr_table[t][p]]
<1>1. /\ sys_exit /\ exited' = TRUE /\ UNCHANGED <<null_mapped, content>>
      /\ phys_mem' = phys_mem \ freeable({get_frame(t, p) : p \in LoopPage})
      /\ pagusr_table' = [pagusr_table EXCEPT ![t] = T]
  BY <1>0 DEF exit, exit_pages, sys_exit
<1>2. /\ t \in Process /\ Process' = Process \ {t}
      /\ t \in Slot /\ Process \subseteq Slot
  BY <1>0, <1>1, ProcessesChange, SlotsAreTasks DEF MInv, Process, sys_exit
<1>3. MemoryTypes /\ FirstFrameKept /\ CopyWindowEmpty /\ PartsAgree
  BY DEF MInv
<1>4. /\ T \in [Page -> Frame \cup {Absent}]
      /\ \A p \in Page : p \in LoopPage => T[p] = Absent
      /\ \A p \in Page : p \notin LoopPage => T[p] = pagusr_table[t][p]
  BY <1>2, <1>3 DEF MemoryTypes
<1> HIDE DEF T
<1>5. /\ pagusr_table'[t] = T
      /\ \A u \in Slot \ {t} : pagusr_table'[u] = pagusr_table[u]
  BY <1>1, <1>2, <1>3 DEF MemoryTypes
<1>6. MemoryTypes' /\ FirstFrameKept'
  <2>1. pagusr_table' \in [Slot -> [Page -> Frame \cup {Absent}]]
    BY <1>1, <1>3, <1>4 DEF MemoryTypes
  <2>2. \A F : NUM_PAG_KERNEL \notin freeable(F)
    BY MemorySizes DEF freeable
  <2>3. QED
    BY <1>1, <1>3, <2>1, <2>2 DEF MemoryTypes, FirstFrameKept
<1>7. CopyWindowEmpty'
  BY <1>2, <1>3, <1>4, <1>5 DEF CopyWindowEmpty
<1>8. PartsAgree'
  <2>1. get_frame(t, StackPage)' = 0
    BY <1>4, <1>5, Layout DEF get_frame
  <2>2. \A u \in Slot \ {t} : get_frame(u, StackPage)' = get_frame(u, StackPage)
    BY <1>5 DEF get_frame
  <2>3. \A u \in Slot : pagusr_table'[u][0] = pagusr_table[u][0]
    BY <1>2, <1>4, <1>5, Layout
  <2>4. QED
    BY <1>1, <1>2, <1>3, <2>1, <2>2, <2>3 DEF PartsAgree, StackPage
<1>9. MappedIsTaken' /\ ForksShareNoFrame'
  BY <1>1 DEF MappedIsTaken, ForksShareNoFrame
<1>10. QED
  BY <1>6, <1>7, <1>8, <1>9 DEF MInv
-----------------------------------------------------------------------------
(* The memory: the theorems.                                               *)

\* Every step of the kernel keeps both invariants.
LEMMA KernelNextSafe ==
  ASSUME IInv, MInv, [KernelNext]_kernel_vars
  PROVE  IInv' /\ MInv'
<1>1. [Next]_vars
  BY KernelStep
<1>2. IInv' /\ RunningNotLost'
  BY <1>1, NextSafe, NotLostSafe DEF MInv
<1>3. CASE fork \/ fork_EAGAIN \/ exit
  BY <1>2, <1>3, ForkPagesSafe, FailedForkPagesSafe, ExitPagesSafe
<1>4. ASSUME UNCHANGED <<pagusr_table, phys_mem, exited, null_mapped>>,
             Process' = Process, content' \in [Frame -> Value]
      PROVE  MInv'
  BY <1>2, <1>4
     DEF MInv, MemoryTypes, FirstFrameKept, CopyWindowEmpty, MappedIsTaken,
         PartsAgree, ForksShareNoFrame, get_frame
<1>5. CASE store
  <2>1. UNCHANGED <<vars, pagusr_table, phys_mem, exited>>
    BY <1>5 DEF store, user_store
  <2>2. content' \in [Frame -> Value]
    BY <1>5 DEF store, user_store, MInv, MemoryTypes
  <2>3. QED
    BY <1>2, <1>4, <2>1, <2>2 DEF vars, Process
<1>6. CASE no_memory(clock_routine) \/ no_memory(sys_block)
  <2>1. /\ UNCHANGED <<pagusr_table, phys_mem, exited, null_mapped>>
        /\ content' \in [Frame -> Value]
    BY <1>6 DEF no_memory, memory_vars, clock_routine, sys_block, MInv, MemoryTypes,
                sys_block_pending, sys_block_waits, sys_block_faults
  <2>2. Process' = Process
    BY <1>6, ProcessesChange DEF no_memory, MInv
  <2>3. QED
    BY <1>2, <1>4, <2>1, <2>2
<1>7. CASE \E pid \in 1001 .. starting_pid : no_memory(sys_unblock(pid))
  <2>1. /\ UNCHANGED <<pagusr_table, phys_mem, exited, null_mapped>>
        /\ content' \in [Frame -> Value]
    BY <1>7 DEF no_memory, memory_vars, sys_unblock, MInv, MemoryTypes
  <2>2. Process' = Process
    BY <1>7, ProcessesChange DEF no_memory, MInv
  <2>3. QED
    BY <1>2, <1>4, <2>1, <2>2
<1>8. CASE UNCHANGED kernel_vars
  BY <1>2, <1>4, <1>8 DEF kernel_vars, vars, memory_vars, Process, MInv, MemoryTypes
<1>9. QED
  BY <1>2, <1>3, <1>5, <1>6, <1>7, <1>8 DEF KernelNext

\* Both inductive invariants hold in every state of the kernel.
THEOREM KernelInvariance == KernelSpec => [](IInv /\ MInv)
<1>1. KernelInit => IInv /\ MInv
  BY InitSafe, MemoryInitSafe DEF KernelInit
<1>2. (IInv /\ MInv) /\ [KernelNext]_kernel_vars => (IInv /\ MInv)'
  BY KernelNextSafe
<1>3. QED
  BY <1>1, <1>2, PTL DEF KernelSpec

\* Scheduler and memory agree on who is a process, and on whose page 0 is mapped:
\* no call, and no fork that fails half way, updates one and not the other.
THEOREM SchedulerAndMemoryAgree == KernelSpec => []PartsAgree
<1>1. MInv => PartsAgree
  BY DEF MInv
<1>2. QED
  BY <1>1, KernelInvariance, PTL

\* Until the first exit no two processes share a frame of data.
THEOREM ForksAreApart == KernelSpec => []ForksShareNoFrame
<1>1. MInv => ForksShareNoFrame
  BY DEF MInv
<1>2. QED
  BY <1>1, KernelInvariance, PTL

\* A fork that fails takes nothing, and one that succeeds leaves its parent's
\* table alone and, before the first exit, everybody's data.
THEOREM ForksAreClean == KernelSpec => ForkLeavesNoTrace
<1> DEFINE clean ==
      /\ fork_EAGAIN => UNCHANGED phys_mem
      /\ fork => /\ pagusr_table'[running] = pagusr_table[running]
                 /\ \A t \in Process, p \in DataPage :
                       ~exited => content'[get_frame(t, p)]
                                    = content[get_frame(t, p)]
<1>1. ASSUME IInv, MInv, [KernelNext]_kernel_vars
      PROVE  clean
  <2>1. MInv'
    BY <1>1, KernelNextSafe
  <2>2. RunningNotLost'
    BY <2>1 DEF MInv
  <2>3. QED
    BY <1>1, <2>2, ForkPagesSafe, FailedForkPagesSafe
<1>2. (IInv /\ MInv) /\ [KernelNext]_kernel_vars => [clean]_kernel_vars
  BY <1>1
<1>3. QED
  BY <1>2, KernelInvariance, PTL DEF KernelSpec, ForkLeavesNoTrace
=============================================================================
