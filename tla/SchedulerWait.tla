---------------------------- MODULE SchedulerWait ----------------------------
(***************************************************************************)
(* Scheduler with a history variable: how many clock ticks each ready      *)
(* process has waited since it was last queued.  The kernel has no such    *)
(* counter; it is there to state how long a process can wait.              *)
(***************************************************************************)
EXTENDS Scheduler

VARIABLE waited

wvars == <<freequeue, readyqueue, running, state, PID, remaining_quantum,
           global_PID, waited>>

\* Waiting starts when a task is queued; only a tick makes it longer.
Wait(tick) ==
  waited' = [t \in Task |->
               IF t \in Range(readyqueue) /\ t \in Range(readyqueue')
               THEN waited[t] + tick ELSE 0]

WInit == Init /\ waited = [t \in Task |-> 0]

WNext ==
  \/ clock_routine /\ Wait(1)
  \/ (sys_fork \/ sys_fork_EAGAIN \/ sys_exit \/ sys_yield) /\ Wait(0)

WSpec == WInit /\ [][WNext]_wvars

\* The timer interrupts for ever, and user code runs with interrupts enabled.
FairSpec == WSpec /\ WF_wvars(clock_routine /\ Wait(1))
-----------------------------------------------------------------------------
\* One slot is idle's and one is running, so at most NR_TASKS - 2 can wait.
MaxWait == (NR_TASKS - 2) * DEFAULT_QUANTUM

\* What a process has waited, what is left of the running quantum and a whole
\* quantum for everyone ahead of it never add up to more than MaxWait.
WaitBudget ==
  \A i \in DOMAIN readyqueue :
     waited[readyqueue[i]] + remaining_quantum + (i - 1) * DEFAULT_QUANTUM
        <= MaxWait

\* A process is never left waiting for a whole round of the other slots, however
\* often the others fork, exit and yield: fork queues the child at the tail
\* and every switch starts a fresh quantum (sched.c:142).
WaitBounded == \A t \in Range(readyqueue) : waited[t] < MaxWait
=============================================================================
