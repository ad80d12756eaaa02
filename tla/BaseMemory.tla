----------------------------- MODULE BaseMemory ------------------------------
(***************************************************************************)
(* Memory of the processes of the base kernel: page tables, the byte map   *)
(* of frames (zeos/mm.c), the copy at fork and what exit gives back        *)
(* (zeos/sys.c).  The actions are composed with the scheduler's in module  *)
(* BaseKernel; here t is the process that calls and c its new child.       *)
(*                                                                         *)
(* An entry is the frame it maps; its protection is left out.  A page's    *)
(* contents are one value.                                                 *)
(***************************************************************************)
EXTENDS Integers, FiniteSets

CONSTANTS
  Slot,            \* slots in the task table
  NUM_PAG_KERNEL,  \* pages, and frames, of the kernel
  NUM_PAG_CODE,    \* pages of user code
  NUM_PAG_DATA,    \* pages of user data and stack
  TOTAL_FRAMES,    \* length of phys_mem (TOTAL_PAGES in the code)
  Value,           \* what a page can hold
  UserPages        \* bound: data pages that user code stores to

Frame == 0 .. TOTAL_FRAMES - 1

\* mm_address.h:10-13: data comes before code.
PAG_LOG_INIT_DATA == NUM_PAG_KERNEL
PAG_LOG_INIT_CODE == PAG_LOG_INIT_DATA + NUM_PAG_DATA
KernelPage == 0 .. NUM_PAG_KERNEL - 1
DataPage == PAG_LOG_INIT_DATA .. PAG_LOG_INIT_DATA + NUM_PAG_DATA - 1
CodePage == PAG_LOG_INIT_CODE .. PAG_LOG_INIT_CODE + NUM_PAG_CODE - 1

\* The pages over which fork copies and exit deletes: both loops start at
\* NUM_PAG_KERNEL + NUM_PAG_CODE, as if code came first.
LoopPage == NUM_PAG_KERNEL + NUM_PAG_CODE ..
              NUM_PAG_KERNEL + NUM_PAG_CODE + NUM_PAG_DATA - 1

\* Fork maps the child's frames into the parent this far up.
Page == 0 .. NUM_PAG_KERNEL + NUM_PAG_CODE + 2 * NUM_PAG_DATA - 1
Absent == -1

BootFrame(n) == NUM_PAG_KERNEL + 2 * n

ASSUME BaseMemoryAssumption ==
  /\ {NUM_PAG_KERNEL, NUM_PAG_CODE, NUM_PAG_DATA, TOTAL_FRAMES}
       \subseteq Nat \ {0}
  /\ NUM_PAG_CODE < NUM_PAG_DATA
  /\ BootFrame(NUM_PAG_CODE + NUM_PAG_DATA) <= TOTAL_FRAMES
  /\ 0 \in Value
  /\ UserPages \subseteq DataPage

VARIABLES
  pagusr_table,  \* page table of every slot
  phys_mem,      \* frames marked USED_FRAME
  content        \* what every frame holds

memory_vars == <<pagusr_table, phys_mem, content>>
-----------------------------------------------------------------------------
(* Frames and entries, mm.c.                                               *)

\* An absent entry is 0, and so is its frame number.
get_frame(t, p) == IF pagusr_table[t][p] = Absent THEN 0 ELSE pagusr_table[t][p]

\* alloc_frame looks at every other frame from NUM_PAG_KERNEL up; n calls take
\* the n lowest free ones.
free_frames ==
  {f \in Frame \ phys_mem : f >= NUM_PAG_KERNEL /\ (f - NUM_PAG_KERNEL) % 2 = 0}
first_free(n) ==
  {f \in free_frames : Cardinality({g \in free_frames : g < f}) < n}

\* free_frame ignores the frames of the kernel, and one more.
freeable(F) == {f \in F : f > NUM_PAG_KERNEL /\ f < TOTAL_FRAMES}

\* init_table_pages: the kernel one to one, except page 0.
InitTable == [p \in Page |-> IF p \in KernelPage \ {0} THEN p ELSE Absent]

\* set_user_pages: frames are given out to code first.
Task1Table ==
  [p \in Page |-> IF p \in CodePage THEN BootFrame(p - PAG_LOG_INIT_CODE)
                  ELSE IF p \in DataPage
                  THEN BootFrame(NUM_PAG_CODE + p - PAG_LOG_INIT_DATA)
                  ELSE InitTable[p]]

MemoryInit(t1) ==
  /\ pagusr_table = [t \in Slot |-> IF t = t1 THEN Task1Table ELSE InitTable]
  /\ phys_mem = 0 .. NUM_PAG_KERNEL - 1
                  \cup {BootFrame(n) : n \in 0 .. NUM_PAG_CODE + NUM_PAG_DATA - 1}
  /\ content = [f \in Frame |-> 0]
-----------------------------------------------------------------------------
(* What the calls do to memory, sys.c.                                     *)

frames_suffice == Cardinality(free_frames) >= NUM_PAG_DATA

\* The child's table: kernel and code are the parent's frames, data are new
\* ones, the lowest first.  The rest is what the slot had before.
child_PT(t, c) ==
  [p \in Page |->
     IF p \in KernelPage \cup CodePage THEN get_frame(t, p)
     ELSE IF p \in DataPage
     THEN CHOOSE f \in first_free(NUM_PAG_DATA) :
            Cardinality({g \in free_frames : g < f}) = p - PAG_LOG_INIT_DATA
     ELSE pagusr_table[c][p]]

\* Frame by frame: every turn of the loop reads what the turns before have left,
\* which is not the old contents where a frame given to the child is one of the
\* parent's code that an exit has freed.
copied(t, PT) ==
  LET page(n) == NUM_PAG_KERNEL + NUM_PAG_CODE + n - 1
      after[n \in 0 .. NUM_PAG_DATA] ==
        IF n = 0 THEN content
        ELSE [after[n - 1] EXCEPT ![PT[page(n)]] =
                                    after[n - 1][get_frame(t, page(n))]]
  IN  after[NUM_PAG_DATA]

\* Mutated forms of the operators below; only the mutant runs use them.
fork_pages_takes_one_less(t, c) ==
  /\ frames_suffice
  /\ phys_mem' = phys_mem \cup first_free(NUM_PAG_DATA - 1)
  /\ content' = copied(t, child_PT(t, c))
  /\ pagusr_table' = [pagusr_table EXCEPT ![c] = child_PT(t, c)]

fork_pages_EAGAIN_keeps ==
  /\ ~frames_suffice
  /\ phys_mem' = phys_mem \cup free_frames
  /\ UNCHANGED <<pagusr_table, content>>

exit_pages_late(t) ==
  /\ phys_mem' = phys_mem \ freeable({get_frame(t, p + 1) : p \in LoopPage})
  /\ pagusr_table' = [pagusr_table EXCEPT
                        ![t] = [p \in Page |-> IF p - 1 \in LoopPage THEN Absent
                                               ELSE @[p]]]
  /\ UNCHANGED content

\* The child's frames are in the parent's table only while they are copied to.
fork_pages(t, c) ==
  /\ frames_suffice
  /\ LET PT == child_PT(t, c)
     IN  /\ phys_mem' = phys_mem \cup first_free(NUM_PAG_DATA)
         /\ content' = copied(t, PT)
         /\ pagusr_table' =
              [pagusr_table EXCEPT
                 ![c] = PT,
                 ![t] = [p \in Page |-> IF p - NUM_PAG_DATA \in LoopPage
                                        THEN Absent ELSE @[p]]]

\* Too few frames: it takes all there are and frees them again.
fork_pages_EAGAIN ==
  /\ ~frames_suffice
  /\ phys_mem' = (phys_mem \cup free_frames) \ freeable(free_frames)
  /\ UNCHANGED <<pagusr_table, content>>

exit_pages(t) ==
  /\ phys_mem' = phys_mem \ freeable({get_frame(t, p) : p \in LoopPage})
  /\ pagusr_table' = [pagusr_table EXCEPT
                        ![t] = [p \in Page |-> IF p \in LoopPage THEN Absent
                                               ELSE @[p]]]
  /\ UNCHANGED content

user_store(t, p, v) ==
  /\ content' = [content EXCEPT ![get_frame(t, p)] = v]
  /\ UNCHANGED <<pagusr_table, phys_mem>>
=============================================================================
