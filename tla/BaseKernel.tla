----------------------------- MODULE BaseKernel ------------------------------
(***************************************************************************)
(* The base kernel as a whole: the scheduler of module BaseScheduler and   *)
(* the memory of module BaseMemory over one task table.  A call is made by *)
(* the running process, fork takes the first free slot in both, and fails  *)
(* when there are too few frames.                                          *)
(***************************************************************************)
EXTENDS BaseScheduler, BaseMemory

ASSUME SlotsAreTasks == Slot = Task

VARIABLE exited  \* history: whether any process has exited

kernel_vars == <<vars, memory_vars, exited>>

\* The processes: neither free, nor idle, nor left behind by exit.
Process == Task \ (Range(freequeue) \cup lost \cup {idle_task})

KernelInit ==
  /\ Init
  /\ MemoryInit(task1)
  /\ exited = FALSE

fork == sys_fork /\ fork_pages(running, Head(freequeue)) /\ UNCHANGED exited

fork_EAGAIN == sys_fork_EAGAIN /\ fork_pages_EAGAIN /\ UNCHANGED exited

exit == sys_exit /\ exit_pages(running) /\ exited' = TRUE

no_memory(Action) == Action /\ UNCHANGED <<memory_vars, exited>>

store ==
  /\ calls
  /\ \E p \in UserPages, v \in Value : user_store(running, p, v)
  /\ UNCHANGED <<vars, exited>>

KernelNext ==
  \/ fork \/ fork_EAGAIN \/ exit \/ store
  \/ no_memory(clock_routine)
  \/ no_memory(sys_block)
  \/ \E pid \in 1001 .. starting_pid : no_memory(sys_unblock(pid))

KernelSpec ==
  KernelInit /\ [][KernelNext]_kernel_vars
             /\ WF_kernel_vars(no_memory(clock_routine))
-----------------------------------------------------------------------------
(* Properties.                                                             *)

\* Both parts agree on who is a process: those have a stack, the free slots and
\* the ones exit left on blocked have none.  And they agree on page 0, which
\* decides whether a block comes back.
PartsAgree ==
  /\ \A t \in Slot : t \in Process
       <=> get_frame(t, PAG_LOG_INIT_DATA + NUM_PAG_DATA - 1) # 0
  /\ null_mapped = {t \in Slot : pagusr_table[t][0] # Absent}

\* Until the first exit every data frame belongs to one process, and none is
\* code: forks share no page, and failed ones leave no frame in two hands.
ForksShareNoFrame ==
  ~exited => \A t, u \in Process, p \in DataPage, q \in DataPage \cup CodePage :
               <<t, p>> # <<u, q>> => get_frame(t, p) # get_frame(u, q)

\* A fork that fails leaves the byte map as it was (sys.c:75); one that succeeds
\* leaves no page of the child in its parent, and until the first exit it changes
\* nobody's data: the code frames it copies over one another stay as they are.
ForkLeavesNoTrace ==
  [][/\ fork_EAGAIN => UNCHANGED phys_mem
     /\ fork => /\ pagusr_table'[running] = pagusr_table[running]
                /\ \A t \in Process, p \in DataPage :
                      ~exited => content'[get_frame(t, p)]
                                   = content[get_frame(t, p)]]_kernel_vars

\* "The contents of data are copied to the frames we found before" (sys.c:94):
\* the child starts with its parent's data.  It does not hold: see README,
\* divergences.
ForkCopiesData ==
  [][\A c \in Slot : fork /\ c = Head(freequeue) =>
        \A p \in DataPage :
           content'[pagusr_table'[c][p]] = content[get_frame(running, p)]]_kernel_vars

\* "No need to remove the link to the kernel or the code" (sys.c:137): exit gives
\* back data, and the code every process runs stays allocated.  It does not hold:
\* see README, divergences.
CodeFramesKept ==
  \A t \in Process, p \in CodePage : get_frame(t, p) \in phys_mem
=============================================================================
