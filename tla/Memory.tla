------------------------------- MODULE Memory --------------------------------
(***************************************************************************)
(* Memory of the processes of practica/zeos: page tables, the byte map of  *)
(* frames (mm.c), copy-on-write after fork (sys.c, interrupt.c) and the    *)
(* shared regions (sys.c).  Slots are those of module Scheduler; here any  *)
(* live one may be running, and a handler is one action.  Page table 0 is  *)
(* idle's: it maps no user page and no operation changes it.               *)
(*                                                                         *)
(* A page's contents are one value.  Page numbers stay below TOTAL_PAGES:  *)
(* an address above would be looked up in the next process's table.        *)
(***************************************************************************)
EXTENDS Integers, FiniteSets

CONSTANTS
  NR_TASKS,        \* slots in the task table
  NUM_PAG_KERNEL,  \* pages, and frames, of the kernel
  NUM_PAG_CODE,    \* pages of user code
  NUM_PAG_DATA,    \* pages of user data and stack
  TOTAL_PAGES,     \* pages of a process; 1024 in the code, and so is
  TOTAL_FRAMES,    \* the number of frames: a bound of its own in the model
  NSHM,            \* length of shm_mem, 10 in the code
  GuardPages,      \* pages around the task table (mm.c:73-74)
  Value,           \* what a page can hold
  UserPages,       \* bound: pages user code touches
  ShmatPages,      \* bound: pages shmat and shmdt are called with, any page
  RefSlack         \* bound: how far below zero a count of references may go

Slot == 1 .. NR_TASKS - 1
task1 == 1

Page == 0 .. TOTAL_PAGES - 1
KernelPage == 0 .. NUM_PAG_KERNEL - 1
PAG_LOG_INIT_CODE == NUM_PAG_KERNEL
CodePage == PAG_LOG_INIT_CODE .. PAG_LOG_INIT_CODE + NUM_PAG_CODE - 1
PAG_LOG_INIT_DATA == PAG_LOG_INIT_CODE + NUM_PAG_CODE
DataPage == PAG_LOG_INIT_DATA .. PAG_LOG_INIT_DATA + NUM_PAG_DATA - 1
UpperPage == PAG_LOG_INIT_DATA + NUM_PAG_DATA .. TOTAL_PAGES - 1
pagina_a_usar == PAG_LOG_INIT_DATA + NUM_PAG_DATA + 1
NullPage == 0

Frame == 0 .. TOTAL_FRAMES - 1
NoFrame == 1048575  \* alloc_frame's -1 in the 20 bits of pbase_addr
Shm == 0 .. NSHM - 1

ASSUME MemoryAssumption ==
  /\ {NR_TASKS, NUM_PAG_KERNEL, NUM_PAG_CODE, NUM_PAG_DATA, TOTAL_PAGES,
      TOTAL_FRAMES, NSHM} \subseteq Nat \ {0}
  /\ NR_TASKS >= 2
  /\ NSHM <= NUM_PAG_KERNEL
  /\ pagina_a_usar \in UpperPage
  /\ GuardPages \subseteq KernelPage \ {NullPage}
  /\ 0 \in Value
  /\ UserPages \subseteq Page
  /\ ShmatPages \subseteq Page
  /\ RefSlack \in Nat
  /\ NUM_PAG_KERNEL + 2 * (NUM_PAG_CODE + NUM_PAG_DATA + NSHM) <= TOTAL_FRAMES
  /\ TOTAL_FRAMES <= NoFrame
  /\ Cardinality(Slot \X DataPage) <= 255  \* 9 * 20 users fit a Byte

VARIABLES
  live,          \* slots that hold a process
  pagusr_table,  \* page table of every slot
  phys_mem,      \* Byte per frame: 0 free, else how many processes use it
  referencias,   \* count of every shared region
  a_borrar,      \* regions that shmrm marked
  content,       \* what every frame holds
  status,        \* "running", or how the kernel went wrong for good
  freed_shared,  \* history: frames exit freed while others mapped them
  left_attached  \* history: regions exit left attached below the data

vars == <<live, pagusr_table, phys_mem, referencias, a_borrar, content,
          status, freed_shared, left_attached>>
-----------------------------------------------------------------------------
(* Page table entries and frames, mm.c.                                    *)

Entry == [frame : Frame \cup {NoFrame}, present : BOOLEAN, user : BOOLEAN, rw : BOOLEAN]

Absent == [frame |-> 0, present |-> FALSE, user |-> FALSE, rw |-> FALSE]

\* The entry set_ss_pag writes, and what it writes when rw is cleared after.
Mapped(f) == [frame |-> f, present |-> TRUE, user |-> TRUE, rw |-> TRUE]
ReadOnly(e) == [e EXCEPT !.rw = FALSE]

get_frame(t, p) == pagusr_table[t][p].frame

\* alloc_frame looks at every other frame from NUM_PAG_KERNEL up and takes the
\* first free one; n calls take the n lowest.
free_frames(pm) ==
  {f \in Frame : f >= NUM_PAG_KERNEL /\ (f - NUM_PAG_KERNEL) % 2 = 0
                 /\ pm[f] = 0}
alloc_frames(pm, n) ==
  {f \in free_frames(pm) : Cardinality({g \in free_frames(pm) : g < f}) < n}

\* free_frame ignores the kernel's frames and the first one after them.
freeable(F) == {f \in F : f > NUM_PAG_KERNEL /\ f < TOTAL_FRAMES}

\* Frames are given out at boot in this order: code, data, shared regions.
BootFrame(n) == NUM_PAG_KERNEL + 2 * n
shm_frame(id) == BootFrame(NUM_PAG_CODE + NUM_PAG_DATA + id)
CodeFrame == {BootFrame(n) : n \in 0 .. NUM_PAG_CODE - 1}
ShmFrame == {shm_frame(id) : id \in Shm}

\* init_table_pages: kernel pages are mapped one to one, the first and the
\* guard pages are not present; a guard page keeps its frame number.
InitTable ==
  [p \in Page |->
     IF p \in KernelPage \ {NullPage}
     THEN [frame |-> p, present |-> p \notin GuardPages, user |-> FALSE,
           rw |-> TRUE]
     ELSE Absent]

\* set_user_pages: code is read only.
Task1Table ==
  [p \in Page |->
     IF p \in CodePage THEN ReadOnly(Mapped(BootFrame(p - PAG_LOG_INIT_CODE)))
     ELSE IF p \in DataPage THEN Mapped(BootFrame(p - PAG_LOG_INIT_CODE))
     ELSE InitTable[p]]

Init ==
  /\ live = {task1}
  /\ pagusr_table = [t \in Slot |-> IF t = task1 THEN Task1Table ELSE InitTable]
  /\ phys_mem = [f \in Frame |->
                   IF \/ f < NUM_PAG_KERNEL
                      \/ \E n \in 0 .. NUM_PAG_CODE + NUM_PAG_DATA + NSHM - 1 :
                            f = BootFrame(n)
                   THEN 1 ELSE 0]
  /\ referencias = [id \in Shm |-> 0]
  /\ a_borrar = [id \in Shm |-> FALSE]
  /\ content = [f \in Frame |-> 0]
  /\ status = "running"
  /\ freed_shared = {}
  /\ left_attached = {}
-----------------------------------------------------------------------------
(* Who maps what.                                                          *)

DataMappings(f) == {m \in live \X DataPage : get_frame(m[1], m[2]) = f}

\* A data page that still is what the process had there: no fault has lost it
\* and no exit has freed its frame.
kept(t, p) == get_frame(t, p) \notin freed_shared \cup {NoFrame}

\* Pages where slot t maps region id, those above the data among them, and all
\* live mappings.
AllShmPages(t, id) == {p \in Page : get_frame(t, p) = shm_frame(id)}
ShmPages(t, id) == AllShmPages(t, id) \cap UpperPage
ShmMappings(id) == {m \in live \X Page : m[2] \in AllShmPages(m[1], id)}
-----------------------------------------------------------------------------
(* Mutated forms of the operators below; only the mutant runs use them.    *)

copy_on_write_frees(t, p) ==
  LET f == get_frame(t, p)
  IN  \E new \in alloc_frames(phys_mem, 1) :
         /\ phys_mem' = [phys_mem EXCEPT ![new] = 1, ![f] = 0]
         /\ pagusr_table' = [pagusr_table EXCEPT ![t][p] = Mapped(new)]
         /\ content' = [content EXCEPT ![new] = content[f]]
         /\ UNCHANGED status

-----------------------------------------------------------------------------
(* Fork, exit and the page fault.                                          *)

child_table_keeps_kernel(t, c) ==
  [p \in Page |->
     IF p \in DataPage THEN ReadOnly(Mapped(get_frame(t, p)))
     ELSE IF p \in KernelPage \/ (p \in UpperPage /\ get_frame(t, p) = 0)
          THEN pagusr_table[c][p]
     ELSE Mapped(get_frame(t, p))]

\* The child's table, from the parent's and from what its slot last held.
child_table(t, c) ==
  [p \in Page |->
     IF p \in DataPage THEN ReadOnly(Mapped(get_frame(t, p)))
     ELSE IF p \in UpperPage /\ get_frame(t, p) = 0 THEN pagusr_table[c][p]
     ELSE Mapped(get_frame(t, p))]

\* Mutated forms of the next two operators.
parent_table_writable(t) == pagusr_table[t]

fork_counts_uncounted(t) ==
  LET allocated == alloc_frames(phys_mem, NUM_PAG_DATA)
  IN  [f \in Frame |-> IF f \in allocated THEN 1 ELSE phys_mem[f]]

\* The parent's table afterwards: its data is read only too.
parent_table(t) ==
  [p \in Page |-> IF p \in DataPage THEN ReadOnly(pagusr_table[t][p])
                                    ELSE pagusr_table[t][p]]

\* The byte map afterwards: one frame per data page is taken, and the parent's
\* frames have one more user, even those that an exit left marked free.
fork_counts(t) ==
  LET allocated == alloc_frames(phys_mem, NUM_PAG_DATA)
  IN  [f \in Frame |->
         ((IF f \in allocated THEN 1 ELSE phys_mem[f])
          + Cardinality({p \in DataPage : get_frame(t, p) = f})) % 256]

\* Process t forks into slot c.  NUM_PAG_DATA frames are allocated for the
\* child; then its data pages are mapped to the parent's frames instead.
sys_fork(t, c) ==
  /\ status = "running" /\ t \in live /\ c \in Slot \ live
  /\ Cardinality(free_frames(phys_mem)) >= NUM_PAG_DATA
  /\ \A p \in DataPage : get_frame(t, p) # NoFrame
  /\ pagusr_table' = [pagusr_table EXCEPT ![c] = child_table(t, c),
                                          ![t] = parent_table(t)]
  /\ phys_mem' = fork_counts(t)
  /\ referencias' =
       [id \in Shm |-> referencias[id] + Cardinality(ShmPages(t, id))]
  /\ live' = live \cup {c}
  /\ UNCHANGED <<a_borrar, content, status, freed_shared, left_attached>>

\* A data page that a fault has lost is counted behind the end of phys_mem.
sys_fork_out_of_bounds(t) ==
  /\ status = "running" /\ t \in live /\ Slot \ live # {}
  /\ Cardinality(free_frames(phys_mem)) >= NUM_PAG_DATA
  /\ \E p \in DataPage : get_frame(t, p) = NoFrame
  /\ status' = "out_of_bounds"
  /\ UNCHANGED <<live, pagusr_table, phys_mem, referencias, a_borrar, content,
                 freed_shared, left_attached>>

\* With too few frames for the child, those it got are freed and unmapped.
sys_fork_EAGAIN(t, c) ==
  /\ status = "running" /\ t \in live /\ c \in Slot \ live
  /\ LET n == Cardinality(free_frames(phys_mem))
     IN  /\ n < NUM_PAG_DATA
         /\ pagusr_table' =
              [pagusr_table EXCEPT
                 ![c] = [p \in Page |->
                           IF p \in PAG_LOG_INIT_DATA .. PAG_LOG_INIT_DATA + n - 1
                           THEN Absent ELSE @[p]]]
  /\ UNCHANGED <<live, phys_mem, referencias, a_borrar, content, status,
                 freed_shared, left_attached>>

\* Mutated form: exit drops no reference.
shared_pages_dropped_none(t) == [id \in Shm |-> 0]

\* How many references to every region an exit of t drops.
shared_pages_dropped(t) == [id \in Shm |-> Cardinality(ShmPages(t, id))]

\* Exit frees the frames of the data pages and drops the references of the
\* shared pages above them; a region attached at page 0 or a guard page keeps its
\* reference.  When a count gets to zero on the way, the entry it removes is the
\* one numbered like the region (sys.c:353 uses the inner i).
sys_exit(t) ==
  /\ status = "running" /\ t \in live
  /\ LET freed == freeable({get_frame(t, p) : p \in DataPage})
         dropped == shared_pages_dropped(t)
         cleared == {id \in Shm : referencias[id] \in 1 .. dropped[id]}
     IN  /\ \A id \in Shm : referencias[id] - dropped[id] >= -RefSlack
         /\ phys_mem' = [f \in Frame |-> IF f \in freed THEN 0 ELSE phys_mem[f]]
         /\ referencias' = [id \in Shm |-> referencias[id] - dropped[id]]
         /\ pagusr_table' =
              [pagusr_table EXCEPT
                 ![t] = [p \in Page |-> IF p \in DataPage \cup cleared
                                        THEN Absent ELSE @[p]]]
         /\ live' = live \ {t}
         /\ freed_shared' =
              freed_shared \cup {f \in freed : \E m \in DataMappings(f) : m[1] # t}
         /\ left_attached' =
              left_attached \cup {id \in Shm : AllShmPages(t, id) # ShmPages(t, id)}
  /\ UNCHANGED <<a_borrar, content, status>>

\* What a store to page p by user code needs.
Writable(t, p) ==
  LET e == pagusr_table[t][p] IN e.present /\ e.user /\ e.rw

\* The copy half of the page fault: one user less of the old frame, a new frame
\* with its contents.  The new frame is filled through page pagina_a_usar, whose
\* old translation may still be in the TLB if a region is attached there.  When
\* there is no free frame the handler goes on with -1: the copy is stored where
\* no frame is, and the page is lost.
copy_on_write(t, p) ==
  LET f == get_frame(t, p)
      pm == [phys_mem EXCEPT ![f] = (@ - 1) % 256]
      temp == pagusr_table[t][pagina_a_usar]
  IN  /\ \E new \in IF free_frames(pm) = {} THEN {NoFrame} ELSE alloc_frames(pm, 1) :
            /\ phys_mem' = [g \in Frame |-> IF g = new THEN 1 ELSE pm[g]]
            /\ pagusr_table' =
                 [pagusr_table EXCEPT
                    ![t][pagina_a_usar] = IF temp.present THEN Mapped(temp.frame)
                                                          ELSE Absent,
                    ![t][p] = Mapped(new)]
            /\ \E target \in {new} \cup (IF temp.present THEN {temp.frame}
                                                         ELSE {}) :
                  content' = [g \in Frame |-> IF g = target THEN content[f]
                                                            ELSE content[g]]
      /\ UNCHANGED status

\* Mutated form: a frame with two users is still taken as the process's own.
pagefault_routine_off_by_one(t, p) ==
  /\ status = "running" /\ t \in live /\ ~Writable(t, p)
  /\ LET value == phys_mem[get_frame(t, p)]
     IN  \/ /\ value \in 1 .. 2
            /\ pagusr_table' = [pagusr_table EXCEPT ![t][p].rw = TRUE]
            /\ UNCHANGED <<phys_mem, content, status>>
         \/ value > 2 /\ copy_on_write(t, p)
  /\ UNCHANGED <<live, referencias, a_borrar, freed_shared, left_attached>>

\* The fault of process t on page p, decided by the count of the page's frame,
\* which is frame 0 for a page that is not mapped.
pagefault_routine(t, p) ==
  /\ status = "running" /\ t \in live /\ ~Writable(t, p)
  /\ LET value == phys_mem[get_frame(t, p)]
     IN  \/ /\ value = 0
            /\ status' = "hung"
            /\ UNCHANGED <<pagusr_table, phys_mem, content>>
         \/ /\ value = 1
            /\ pagusr_table' = [pagusr_table EXCEPT ![t][p].rw = TRUE]
            /\ UNCHANGED <<phys_mem, content, status>>
         \/ value > 1 /\ copy_on_write(t, p)
  /\ UNCHANGED <<live, referencias, a_borrar, freed_shared, left_attached>>

\* A store to a lost page changes no frame.
Put(t, p, v) ==
  /\ content' = [f \in Frame |-> IF f = get_frame(t, p) THEN v ELSE content[f]]
  /\ UNCHANGED <<live, pagusr_table, phys_mem, referencias, a_borrar, status,
                 freed_shared, left_attached>>

\* User code stores v in one of its pages that the processor lets it write: data,
\* what is above, or page 0 and the like if a region is attached there.
user_store(t, p, v) ==
  /\ status = "running" /\ t \in live
  /\ p \in DataPage \cup UpperPage \/ get_frame(t, p) \in ShmFrame
  /\ Writable(t, p)
  /\ Put(t, p, v)

\* A system call stores v for the process (sys_read, sys_get_stats): access_ok
\* passes the page, and the kernel writes read-only pages too, since CR0.WP is
\* never set.  It passes pages of the kernel as well, which hold nothing here.
copy_to_user(t, p, v) ==
  /\ status = "running" /\ t \in live
  /\ \/ p \in CodePage \cup DataPage
     \/ p \in UpperPage /\ get_frame(t, p) # 0
     \/ get_frame(t, p) \in ShmFrame
  /\ Put(t, p, v)
-----------------------------------------------------------------------------
(* Shared regions.                                                         *)

\* Mutated form: the page is taken whether it is free or not.
sys_shmat_anywhere(t, id, p) ==
  /\ status = "running" /\ t \in live
  /\ pagusr_table' = [pagusr_table EXCEPT ![t][p] = Mapped(shm_frame(id))]
  /\ referencias' = [referencias EXCEPT ![id] = @ + 1]
  /\ UNCHANGED <<live, phys_mem, a_borrar, content, status, freed_shared,
                 left_attached>>

\* Region id is attached at page p, or at the first free page above it.  Page 0 and
\* the guard pages are free until a fork or an attach maps them.
sys_shmat(t, id, p) ==
  /\ status = "running" /\ t \in live
  /\ \E q \in p .. TOTAL_PAGES - 1 :
        /\ ~pagusr_table[t][q].present
        /\ \A r \in p .. q - 1 : pagusr_table[t][r].present
        /\ pagusr_table' = [pagusr_table EXCEPT ![t][q] = Mapped(shm_frame(id))]
  /\ referencias' = [referencias EXCEPT ![id] = @ + 1]
  /\ UNCHANGED <<live, phys_mem, a_borrar, content, status, freed_shared,
                 left_attached>>

\* Detaching drops a reference.  Only when the region is marked and that was the
\* last one is the page unmapped, and the start of the region cleared: whether
\* that clears what the model calls its contents is not known.
sys_shmdt(t, p) ==
  /\ status = "running" /\ t \in live /\ pagusr_table[t][p].present
  /\ \E id \in Shm :
        /\ shm_frame(id) = get_frame(t, p)
        /\ referencias[id] > -RefSlack
        /\ referencias' = [referencias EXCEPT ![id] = @ - 1]
        /\ \/ /\ ~a_borrar[id] \/ referencias'[id] # 0
              /\ UNCHANGED <<pagusr_table, a_borrar, content>>
           \/ /\ a_borrar[id] /\ referencias'[id] = 0
              /\ \E v \in {0, content[shm_frame(id)]} :
                    content' = [content EXCEPT ![shm_frame(id)] = v]
              /\ a_borrar' = [a_borrar EXCEPT ![id] = FALSE]
              /\ pagusr_table' = [pagusr_table EXCEPT ![t][p] = Absent]
  /\ UNCHANGED <<live, phys_mem, status, freed_shared, left_attached>>

\* The test of sys_shmrm lets one id too many pass: the mark is then written
\* behind the end of shm_mem.
sys_shmrm(t, id) ==
  /\ status = "running" /\ t \in live
  /\ \/ /\ id \in Shm
        /\ a_borrar' = [a_borrar EXCEPT ![id] = TRUE]
        /\ UNCHANGED status
     \/ /\ id = NSHM
        /\ status' = "out_of_bounds"
        /\ UNCHANGED a_borrar
  /\ UNCHANGED <<live, pagusr_table, phys_mem, referencias, content,
                 freed_shared, left_attached>>
-----------------------------------------------------------------------------
\* What process t asks of the kernel, and its faults.
handler(t) ==
  \/ \E c \in Slot : sys_fork(t, c) \/ sys_fork_EAGAIN(t, c)
  \/ sys_fork_out_of_bounds(t)
  \/ sys_exit(t)
  \/ \E p \in UserPages : pagefault_routine(t, p)
  \/ \E id \in Shm, p \in ShmatPages : sys_shmat(t, id, p)
  \/ \E p \in ShmatPages : sys_shmdt(t, p)
  \/ \E id \in 0 .. NSHM : sys_shmrm(t, id)

Next ==
  \E t \in Slot :
     \/ handler(t)
     \/ \E p \in UserPages, v \in Value :
           user_store(t, p, v) \/ copy_to_user(t, p, v)

Spec == Init /\ [][Next]_vars
-----------------------------------------------------------------------------
(* Properties.                                                             *)

\* Every variable has its type.
TypeOK ==
  /\ live \subseteq Slot
  /\ pagusr_table \in [Slot -> [Page -> Entry]]
  /\ phys_mem \in [Frame -> 0 .. 255]
  /\ referencias \in [Shm -> Int]
  /\ a_borrar \in [Shm -> BOOLEAN]
  /\ content \in [Frame -> Value]
  /\ status \in {"running", "hung", "out_of_bounds"}
  /\ freed_shared \subseteq Frame
  /\ left_attached \subseteq Shm

\* The byte map counts: a frame that data pages map is counted once for each,
\* unless an exit freed it under their feet.  The fault handler decides between
\* copying and keeping a page by this count, and drops it before it knows whether
\* there is a frame for the copy (interrupt.c:153).
CountIsMappings ==
  \A t \in live : \A p \in DataPage :
     kept(t, p) => phys_mem[get_frame(t, p)]
                     = Cardinality(DataMappings(get_frame(t, p)))

\* Copy-on-write: a data page its process can write is nobody else's, unless an
\* exit freed its frame while it was shared or a fault found no frame for it.
WritableIsPrivate ==
  \A t \in live : \A p \in DataPage :
     Writable(t, p) /\ kept(t, p) => DataMappings(get_frame(t, p)) = {<<t, p>>}

\* The frames of code and of the shared regions are never free for alloc_frame,
\* whatever forks, exits, attaches and detaches did to the tables.
BootFramesKept == \A f \in CodeFrame \cup ShmFrame : phys_mem[f] = 1

\* A region has no more references than live processes have pages of it, so it is
\* never kept for a process that is gone, until one exits with the region attached
\* at page 0 or at a guard page: exit's loop starts above the data (sys.c:344), and
\* that reference is nobody's for ever.
ReferencesAreMapped ==
  \A id \in Shm \ left_attached : referencias[id] <= Cardinality(ShmMappings(id))

\* Live processes run with the whole kernel mapped one to one, although an exit
\* removes kernel entries from the table it leaves behind (sys.c:353).
KernelMapped ==
  \A t \in live : \A p \in KernelPage \ (GuardPages \cup {NullPage}) :
     pagusr_table[t][p].present /\ get_frame(t, p) = p

\* No page fault hangs the kernel.  Exits that free shared frames can make it so:
\* the runs check it without them.
NeverHung == status # "hung"

\* "Deallocate all the propietary physical pages" (sys.c:337): exit frees frames
\* nobody else uses, so a frame marked free is in no live process's data.
FreeFramesUnmapped ==
  \A t \in live : \A p \in DataPage :
     get_frame(t, p) # NoFrame => phys_mem[get_frame(t, p)] # 0

\* "Allocate pages for DATA+STACK" (sys.c:88): the frames fork allocates are for
\* the child's data, so a used frame is mapped or a shared region's.  It does not
\* hold: see README, divergences.
UsedFramesMapped ==
  \A f \in Frame \ ShmFrame :
     f >= NUM_PAG_KERNEL /\ phys_mem[f] # 0 =>
        \E t \in live, p \in CodePage \cup DataPage : get_frame(t, p) = f

\* "Copy parent's SYSTEM and CODE to child" (sys.c:114): the child's entries are
\* the parent's, as protected as those; page 0, which stays "inaccessible to
\* comply with NULL convention" (mm.c:65), is one of them.  It does not hold: see
\* README, divergences.
SystemAndCodeCopied ==
  [][\A t, c \in Slot : sys_fork(t, c) =>
        \A p \in KernelPage \cup CodePage :
           pagusr_table'[c][p] = pagusr_table[t][p]]_vars
=============================================================================
