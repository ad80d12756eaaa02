---------------------------- MODULE MemoryProofs -----------------------------
(***************************************************************************)
(* Theorems about modules Memory and CowMemory, for every number of slots, *)
(* pages, frames and shared regions.                                       *)
(***************************************************************************)
EXTENDS CowMemory, FiniteSetTheorems, TLAPS

-----------------------------------------------------------------------------
(* The inductive invariant.                                                *)

\* Frames no process may take or give back: they stay counted once.  The kernel
\* is mapped one to one, so its pages number its frames.
Reserved == KernelPage \cup CodeFrame \cup ShmFrame
ReservedKept == \A f \in Reserved : phys_mem[f] = 1

\* A live process's data is all there, and never in a reserved frame: else fork
\* would count it, exit free it, and a fault copy it.
DataApart ==
  \A t \in live : \A p \in DataPage :
     pagusr_table[t][p].present /\ get_frame(t, p) \notin Reserved

\* A data page that a fault has lost can be written, so no fault comes to it again.
LostIsWritable ==
  \A t \in live : \A p \in DataPage :
     get_frame(t, p) = NoFrame => Writable(t, p)

\* Every other page is on a reserved frame, too, frame 0 when it maps nothing; a
\* free slot keeps entries above the data, which a fork may leave in place.
OthersReserved ==
  \A t \in Slot :
     /\ \A p \in UpperPage : get_frame(t, p) \in Reserved
     /\ t \in live =>
           \A p \in KernelPage \cup CodePage : get_frame(t, p) \in Reserved

IInv ==
  /\ TypeOK
  /\ ReservedKept /\ DataApart /\ LostIsWritable /\ OthersReserved
  /\ KernelMapped
-----------------------------------------------------------------------------
(* Layout.                                                                 *)

\* The sizes are positive numbers.
LEMMA Sizes ==
  /\ NR_TASKS \in Nat \ {0} /\ NUM_PAG_KERNEL \in Nat \ {0}
  /\ NUM_PAG_CODE \in Nat \ {0} /\ NUM_PAG_DATA \in Nat \ {0}
  /\ TOTAL_PAGES \in Nat \ {0} /\ TOTAL_FRAMES \in Nat \ {0}
  /\ NSHM \in Nat \ {0} /\ NSHM <= NUM_PAG_KERNEL
  /\ NUM_PAG_KERNEL + 2 * (NUM_PAG_CODE + NUM_PAG_DATA + NSHM) <= TOTAL_FRAMES
  /\ NUM_PAG_KERNEL + NUM_PAG_CODE + NUM_PAG_DATA + 1 <= TOTAL_PAGES - 1
BY MemoryAssumption
   DEF pagina_a_usar, UpperPage, PAG_LOG_INIT_DATA, PAG_LOG_INIT_CODE

\* The parts of the address space: kernel, code, data, and what is above.
LEMMA Pages ==
  /\ KernelPage \subseteq Page /\ CodePage \subseteq Page
  /\ DataPage \subseteq Page /\ UpperPage \subseteq Page
  /\ KernelPage \cap CodePage = {} /\ KernelPage \cap DataPage = {}
  /\ CodePage \cap DataPage = {} /\ DataPage \cap UpperPage = {}
  /\ KernelPage \cap UpperPage = {} /\ CodePage \cap UpperPage = {}
  /\ \A p \in Page : p \in KernelPage \cup CodePage \cup DataPage \cup UpperPage
  /\ pagina_a_usar \in UpperPage /\ NullPage \in KernelPage
  /\ Shm \subseteq KernelPage
BY Sizes, MemoryAssumption
   DEF Page, KernelPage, CodePage, DataPage, UpperPage, PAG_LOG_INIT_CODE,
       PAG_LOG_INIT_DATA, NullPage, Shm

\* The frames given out at boot are frames, behind the kernel's, and no two the
\* same; that of a lost page is none.
LEMMA BootFrames ==
  /\ KernelPage \subseteq Frame
  /\ \A n \in 0 .. NUM_PAG_CODE + NUM_PAG_DATA + NSHM - 1 :
        BootFrame(n) \in Frame \ KernelPage
  /\ \A n, m \in Nat : BootFrame(n) = BootFrame(m) => n = m
  /\ NoFrame \notin Frame
<1>1. NoFrame \notin Frame
  BY Sizes, MemoryAssumption DEF Frame, NoFrame
<1>2. QED
  BY <1>1, Sizes DEF KernelPage, Frame, BootFrame

\* The frames of the regions are boot frames.
LEMMA ShmFrames ==
  /\ \A id \in Shm : shm_frame(id) \in ShmFrame
  /\ ShmFrame \subseteq Frame /\ CodeFrame \subseteq Frame
  /\ Reserved \subseteq Frame
<1>1. \A id \in Shm : shm_frame(id) \in ShmFrame
  BY DEF ShmFrame
<1>2. \A id \in Shm : NUM_PAG_CODE + NUM_PAG_DATA + id
                        \in 0 .. NUM_PAG_CODE + NUM_PAG_DATA + NSHM - 1
  BY Sizes DEF Shm
<1>3. ShmFrame \subseteq Frame
  BY <1>2, BootFrames DEF ShmFrame, shm_frame
<1>4. CodeFrame \subseteq Frame
  BY Sizes, BootFrames DEF CodeFrame
<1>5. QED
  BY <1>1, <1>3, <1>4, BootFrames DEF Reserved

\* The frames task 1 gets for its data at boot are nobody else's.
LEMMA BootData ==
  ASSUME NEW p \in DataPage
  PROVE  BootFrame(p - PAG_LOG_INIT_CODE) \in Frame \ Reserved
<1> DEFINE n == p - PAG_LOG_INIT_CODE
<1>1. n \in NUM_PAG_CODE .. NUM_PAG_CODE + NUM_PAG_DATA - 1
  BY Sizes DEF DataPage, PAG_LOG_INIT_CODE, PAG_LOG_INIT_DATA
<1>2. n \in Nat /\ n \in 0 .. NUM_PAG_CODE + NUM_PAG_DATA + NSHM - 1
  BY <1>1, Sizes
<1> HIDE DEF n
<1>3. BootFrame(n) \in Frame \ KernelPage
  BY <1>2, BootFrames
<1>4. BootFrame(n) \notin CodeFrame
  BY <1>1, <1>2, Sizes, BootFrames DEF CodeFrame
<1>5. BootFrame(n) \notin ShmFrame
  BY <1>1, <1>2, Sizes, BootFrames DEF ShmFrame, shm_frame, Shm
<1>6. QED
  BY <1>3, <1>4, <1>5 DEF Reserved, n

\* Entries.
LEMMA Entries ==
  /\ Absent \in Entry /\ ~Absent.present
  /\ \A f \in Frame \cup {NoFrame} :
        /\ Mapped(f) \in Entry /\ Mapped(f).present /\ Mapped(f).frame = f
        /\ Mapped(f).user /\ Mapped(f).rw
  /\ \A e \in Entry : /\ ReadOnly(e) \in Entry
                      /\ ReadOnly(e).present = e.present
                      /\ ReadOnly(e).frame = e.frame
<1>1. Absent \in Entry /\ ~Absent.present
  <2>1. 0 \in Frame
    BY Sizes DEF Frame
  <2>2. QED
    BY <2>1 DEF Absent, Entry
<1>2. ASSUME NEW f \in Frame \cup {NoFrame}
      PROVE  /\ Mapped(f) \in Entry /\ Mapped(f).present /\ Mapped(f).frame = f
             /\ Mapped(f).user /\ Mapped(f).rw
  BY DEF Mapped, Entry
<1>3. ASSUME NEW e \in Entry
      PROVE  /\ ReadOnly(e) \in Entry
             /\ ReadOnly(e).present = e.present /\ ReadOnly(e).frame = e.frame
  BY DEF ReadOnly, Entry
<1>4. QED
  BY <1>1, <1>2, <1>3

\* alloc_frame gives out frames that are free, which no reserved one is.
LEMMA Allocated ==
  ASSUME NEW pm, NEW n, NEW f \in alloc_frames(pm, n)
  PROVE  f \in Frame /\ pm[f] = 0
BY DEF alloc_frames, free_frames

\* Counts of pages are numbers.
LEMMA PageCounts ==
  ASSUME NEW S, S \subseteq Page
  PROVE  Cardinality(S) \in Nat
<1>1. IsFiniteSet(Page)
  BY Sizes, FS_Interval DEF Page
<1>2. QED
  BY <1>1, FS_Subset, FS_CardinalityType
-----------------------------------------------------------------------------
(* The boot.                                                               *)

\* init_mm and init_task1 satisfy the invariant.
LEMMA InitSafe == Init => IInv
<1> SUFFICES ASSUME Init PROVE IInv
  OBVIOUS
<1>1. /\ InitTable \in [Page -> Entry]
      /\ \A p \in KernelPage : InitTable[p].frame = p
      /\ \A p \in KernelPage \ (GuardPages \cup {NullPage}) : InitTable[p].present
  <2>1. ASSUME NEW p \in Page
        PROVE  InitTable[p] \in Entry
    BY Entries, BootFrames DEF InitTable, Entry
  <2>2. ASSUME NEW p \in KernelPage
        PROVE  InitTable[p].frame = p
    BY Pages DEF InitTable, Absent, NullPage
  <2>3. ASSUME NEW p \in KernelPage \ (GuardPages \cup {NullPage})
        PROVE  InitTable[p].present
    BY Pages DEF InitTable
  <2>4. QED
    BY <2>1, <2>2, <2>3 DEF InitTable
<1>2. \A p \in CodePage \cup DataPage : BootFrame(p - PAG_LOG_INIT_CODE) \in Frame
  <2>1. ASSUME NEW p \in CodePage
        PROVE  BootFrame(p - PAG_LOG_INIT_CODE) \in Frame
    BY Sizes, BootFrames DEF CodePage, PAG_LOG_INIT_CODE
  <2>2. QED
    BY <2>1, BootData
<1>3. /\ Task1Table \in [Page -> Entry]
      /\ \A p \in KernelPage : Task1Table[p] = InitTable[p]
      /\ \A p \in DataPage : Task1Table[p] = Mapped(BootFrame(p - PAG_LOG_INIT_CODE))
  <2>1. ASSUME NEW p \in Page
        PROVE  Task1Table[p] \in Entry
    BY <1>1, <1>2, Entries DEF Task1Table
  <2>2. ASSUME NEW p \in KernelPage
        PROVE  Task1Table[p] = InitTable[p]
    BY Pages DEF Task1Table
  <2>3. ASSUME NEW p \in DataPage
        PROVE  Task1Table[p] = Mapped(BootFrame(p - PAG_LOG_INIT_CODE))
    BY Pages DEF Task1Table
  <2>4. QED
    BY <2>1, <2>2, <2>3 DEF Task1Table
<1>4. task1 \in Slot /\ live = {task1} /\ pagusr_table[task1] = Task1Table
  BY MemoryAssumption DEF Init, Slot, task1
<1>5. TypeOK
  <2>1. pagusr_table \in [Slot -> [Page -> Entry]]
    BY <1>1, <1>3 DEF Init
  <2>2. phys_mem \in [Frame -> 0 .. 255]
    BY DEF Init
  <2>3. referencias \in [Shm -> Int] /\ a_borrar \in [Shm -> BOOLEAN]
        /\ content \in [Frame -> Value]
    BY MemoryAssumption DEF Init
  <2>4. QED
    BY <1>4, <2>1, <2>2, <2>3 DEF Init, TypeOK
<1>6. ReservedKept
  <2>1. ASSUME NEW f \in Reserved
        PROVE  \/ f < NUM_PAG_KERNEL
               \/ \E n \in 0 .. NUM_PAG_CODE + NUM_PAG_DATA + NSHM - 1 :
                     f = BootFrame(n)
    <3>1. CASE f \in KernelPage
      BY <3>1, Sizes DEF KernelPage
    <3>2. CASE f \in CodeFrame
      BY <3>2, Sizes DEF CodeFrame
    <3>3. CASE f \in ShmFrame
      <4>1. PICK id \in Shm : f = BootFrame(NUM_PAG_CODE + NUM_PAG_DATA + id)
        BY <3>3 DEF ShmFrame, shm_frame
      <4>2. NUM_PAG_CODE + NUM_PAG_DATA + id
              \in 0 .. NUM_PAG_CODE + NUM_PAG_DATA + NSHM - 1
        BY Sizes DEF Shm
      <4>3. QED
        BY <4>1, <4>2
    <3>4. QED
      BY <3>1, <3>2, <3>3 DEF Reserved
  <2>2. QED
    BY <2>1, ShmFrames DEF Init, ReservedKept
<1>7. DataApart
  BY <1>3, <1>4, BootData, Entries DEF DataApart, get_frame
<1>8. KernelMapped /\ LostIsWritable
  <2>1. KernelMapped
    BY <1>1, <1>3, <1>4 DEF KernelMapped, get_frame
  <2>2. \A p \in DataPage : get_frame(task1, p) # NoFrame
    BY <1>2, <1>3, <1>4, BootFrames, Entries DEF get_frame
  <2>3. QED
    BY <1>4, <2>1, <2>2 DEF LostIsWritable
<1>9. OthersReserved
  <2>1. 0 \in Reserved
    BY Sizes DEF Reserved, KernelPage
  <2>2. \A p \in UpperPage : InitTable[p] = Absent /\ Task1Table[p] = Absent
    BY Pages DEF InitTable, Task1Table
  <2>3. \A p \in CodePage :
           Task1Table[p] = ReadOnly(Mapped(BootFrame(p - PAG_LOG_INIT_CODE)))
    BY Pages DEF Task1Table
  <2>4. \A p \in CodePage : BootFrame(p - PAG_LOG_INIT_CODE) \in CodeFrame
    BY Sizes DEF CodePage, CodeFrame, PAG_LOG_INIT_CODE
  <2>5. \A p \in CodePage : Task1Table[p].frame \in Reserved
    BY <1>2, <2>3, <2>4, Entries DEF Reserved
  <2>6. \A t \in Slot : pagusr_table[t] \in {InitTable, Task1Table}
    BY DEF Init
  <2>7. Absent.frame = 0
    BY DEF Absent
  <2>8. \A p \in KernelPage : Task1Table[p].frame \in Reserved
    BY <1>1, <1>3 DEF Reserved
  <2>9. QED
    BY <1>4, <2>1, <2>2, <2>5, <2>6, <2>7, <2>8 DEF OthersReserved, get_frame
<1>10. QED
  BY <1>5, <1>6, <1>7, <1>8, <1>9 DEF IInv
-----------------------------------------------------------------------------
(* Every operation preserves the invariant.                                *)

\* A step that keeps a process's entries for the kernel and its data, as far as
\* the invariant goes, keeps the invariant.
LEMMA TablesSafe ==
  ASSUME IInv, TypeOK', ReservedKept',
         \A t \in live' : \A p \in DataPage :
            /\ pagusr_table'[t][p].present /\ pagusr_table'[t][p].frame \notin Reserved
            /\ pagusr_table'[t][p].frame = NoFrame
                 => pagusr_table'[t][p].user /\ pagusr_table'[t][p].rw,
         \A t \in live' : \A p \in KernelPage \ (GuardPages \cup {NullPage}) :
            pagusr_table'[t][p].present /\ pagusr_table'[t][p].frame = p,
         OthersReserved'
  PROVE  IInv'
BY DEF IInv, DataApart, LostIsWritable, Writable, KernelMapped, get_frame

\* So does one that leaves those entries alone.
LEMMA SameTablesSafe ==
  ASSUME IInv, TypeOK', ReservedKept', OthersReserved',
         \A t \in live' : t \in live /\
            \A p \in DataPage \cup (KernelPage \ (GuardPages \cup {NullPage})) :
               pagusr_table'[t][p] = pagusr_table[t][p]
  PROVE  IInv'
BY DEF IInv, DataApart, LostIsWritable, Writable, KernelMapped, get_frame

\* Fork gives the child the parent's frames: the kernel one to one, and the data
\* pages, which are counted once more.
LEMMA ForkSafe ==
  ASSUME IInv, NEW t \in Slot, NEW c \in Slot, sys_fork(t, c)
  PROVE  IInv'
<1>1. /\ t \in live /\ c \in Slot \ live /\ t # c
      /\ pagusr_table' = [pagusr_table EXCEPT ![c] = child_table(t, c),
                                              ![t] = parent_table(t)]
      /\ phys_mem' = fork_counts(t)
      /\ referencias' =
           [id \in Shm |-> referencias[id] + Cardinality(ShmPages(t, id))]
      /\ live' = live \cup {c}
      /\ \A p \in DataPage : get_frame(t, p) # NoFrame
      /\ UNCHANGED <<a_borrar, content, status, freed_shared, left_attached>>
  BY DEF sys_fork
<1>2. /\ TypeOK /\ ReservedKept /\ DataApart /\ LostIsWritable /\ KernelMapped
      /\ pagusr_table \in [Slot -> [Page -> Entry]]
      /\ live \subseteq Slot
  BY DEF IInv, TypeOK
<1>3. \A s \in Slot : \A p \in Page : /\ pagusr_table[s][p] \in Entry
                                      /\ get_frame(s, p) \in Frame \cup {NoFrame}
  BY <1>2 DEF get_frame, Entry
<1>4. /\ child_table(t, c) \in [Page -> Entry]
      /\ \A p \in KernelPage : child_table(t, c)[p] = Mapped(get_frame(t, p))
      /\ \A p \in DataPage : child_table(t, c)[p] = ReadOnly(Mapped(get_frame(t, p)))
  <2>1. ASSUME NEW p \in Page
        PROVE  child_table(t, c)[p] \in Entry
    BY <1>3, Entries DEF child_table
  <2>2. ASSUME NEW p \in KernelPage
        PROVE  child_table(t, c)[p] = Mapped(get_frame(t, p))
    BY Pages DEF child_table
  <2>3. ASSUME NEW p \in DataPage
        PROVE  child_table(t, c)[p] = ReadOnly(Mapped(get_frame(t, p)))
    BY Pages DEF child_table
  <2>4. QED
    BY <2>1, <2>2, <2>3 DEF child_table
<1>5. /\ parent_table(t) \in [Page -> Entry]
      /\ \A p \in KernelPage : parent_table(t)[p] = pagusr_table[t][p]
      /\ \A p \in DataPage : parent_table(t)[p] = ReadOnly(pagusr_table[t][p])
  <2>1. ASSUME NEW p \in Page
        PROVE  parent_table(t)[p] \in Entry
    BY <1>3, Entries DEF parent_table
  <2>2. QED
    BY <2>1, Pages DEF parent_table
<1>6. /\ pagusr_table' \in [Slot -> [Page -> Entry]]
      /\ pagusr_table'[c] = child_table(t, c)
      /\ pagusr_table'[t] = parent_table(t)
      /\ \A s \in Slot \ {t, c} : pagusr_table'[s] = pagusr_table[s]
  BY <1>1, <1>2, <1>4, <1>5
<1>7. /\ phys_mem' \in [Frame -> 0 .. 255]
      /\ ReservedKept'
  <2> DEFINE allocated == alloc_frames(phys_mem, NUM_PAG_DATA)
             users(f) == {p \in DataPage : get_frame(t, p) = f}
             before(f) == IF f \in allocated THEN 1 ELSE phys_mem[f]
  <2>1. \A f \in Frame : Cardinality(users(f)) \in Nat
    BY Pages, PageCounts
  <2>2. \A f \in Frame : before(f) \in Nat
    <3>1. phys_mem \in [Frame -> 0 .. 255]
      BY <1>2 DEF TypeOK
    <3> HIDE DEF allocated
    <3>2. QED
      BY <3>1
  <2>3. phys_mem' = [f \in Frame |-> (before(f) + Cardinality(users(f))) % 256]
    BY <1>1 DEF fork_counts
  <2>4. ASSUME NEW f \in Reserved
        PROVE  users(f) = {} /\ before(f) = 1
    BY <1>1, <1>2, ShmFrames, Allocated DEF DataApart, ReservedKept
  <2>5. \A f \in Reserved : Cardinality(users(f)) = 0
    BY <2>4, FS_EmptySet
  <2> HIDE DEF users, before
  <2>6. phys_mem' \in [Frame -> 0 .. 255]
    <3>1. ASSUME NEW f \in Frame
          PROVE  (before(f) + Cardinality(users(f))) % 256 \in 0 .. 255
      <4>1. before(f) + Cardinality(users(f)) \in Nat
        BY <2>1, <2>2
      <4>2. QED
        BY <4>1
    <3>2. QED
      BY <2>3, <3>1
  <2>7. \A f \in Reserved : phys_mem'[f] = 1
    BY <2>3, <2>4, <2>5, ShmFrames
  <2>8. QED
    BY <2>6, <2>7 DEF ReservedKept
<1>8. TypeOK'
  <2>1. \A id \in Shm : referencias[id] + Cardinality(ShmPages(t, id)) \in Int
    BY <1>2, Pages, PageCounts DEF TypeOK, ShmPages
  <2>2. QED
    BY <1>1, <1>2, <1>6, <1>7, <2>1 DEF TypeOK
<1>9. \A s \in live' : s \in live \/ s = c
  BY <1>1
<1>10. ASSUME NEW s \in live', NEW p \in DataPage
       PROVE  /\ pagusr_table'[s][p].present /\ pagusr_table'[s][p].frame \notin Reserved
              /\ pagusr_table'[s][p].frame = NoFrame
                   => pagusr_table'[s][p].user /\ pagusr_table'[s][p].rw
  <2>1. \A r \in live :
           /\ pagusr_table[r][p].present /\ get_frame(r, p) \notin Reserved
           /\ get_frame(r, p) = NoFrame
                => pagusr_table[r][p].user /\ pagusr_table[r][p].rw
    BY <1>2 DEF DataApart, LostIsWritable, Writable
  <2>2. CASE s = c
    BY <1>1, <1>2, <1>3, <1>4, <1>6, <2>1, <2>2, Entries, Pages
  <2>3. CASE s = t
    BY <1>1, <1>2, <1>3, <1>5, <1>6, <2>1, <2>3, Entries, Pages DEF get_frame
  <2>4. CASE s \notin {t, c}
    BY <1>2, <1>6, <1>9, <2>1, <2>4 DEF get_frame
  <2>5. QED
    BY <2>2, <2>3, <2>4
<1>11. ASSUME NEW s \in live', NEW p \in KernelPage \ (GuardPages \cup {NullPage})
       PROVE  pagusr_table'[s][p].present /\ pagusr_table'[s][p].frame = p
  <2>1. \A r \in live : get_frame(r, p) = p /\ pagusr_table[r][p].present
    BY <1>2 DEF KernelMapped
  <2>2. CASE s = c
    BY <1>1, <1>3, <1>4, <1>6, <2>1, <2>2, Entries, Pages
  <2>3. CASE s = t
    BY <1>1, <1>5, <1>6, <2>1, <2>3 DEF get_frame
  <2>4. CASE s \notin {t, c}
    BY <1>2, <1>6, <1>9, <2>1, <2>4 DEF get_frame
  <2>5. QED
    BY <2>2, <2>3, <2>4
<1>12. OthersReserved'
  <2>1. \A p \in KernelPage \cup CodePage \cup UpperPage : p \in Page /\ p \notin DataPage
    BY Pages
  <2>2. \A p \in UpperPage : get_frame(t, p) \in Reserved /\ get_frame(c, p) \in Reserved
    BY <1>2 DEF IInv, OthersReserved
  <2>3. \A p \in KernelPage \cup CodePage : get_frame(t, p) \in Reserved
    BY <1>1, <1>2 DEF IInv, OthersReserved
  <2>4. \A p \in UpperPage : child_table(t, c)[p].frame \in Reserved
    <3>1. ASSUME NEW p \in UpperPage
          PROVE  child_table(t, c)[p]
                   = IF get_frame(t, p) = 0 THEN pagusr_table[c][p]
                                            ELSE Mapped(get_frame(t, p))
      BY <2>1 DEF child_table
    <3>2. QED
      BY <1>3, <2>1, <2>2, <3>1, Entries DEF get_frame
  <2>5. \A p \in KernelPage \cup CodePage : child_table(t, c)[p].frame \in Reserved
    <3>1. ASSUME NEW p \in KernelPage \cup CodePage
          PROVE  child_table(t, c)[p] = Mapped(get_frame(t, p))
      BY <2>1, Pages DEF child_table
    <3>2. QED
      BY <1>3, <2>1, <2>3, <3>1, Entries
  <2>6. \A p \in KernelPage \cup CodePage \cup UpperPage : parent_table(t)[p] = pagusr_table[t][p]
    BY <2>1 DEF parent_table
  <2>7. ASSUME NEW s \in Slot
        PROVE  /\ \A p \in UpperPage : pagusr_table'[s][p].frame \in Reserved
               /\ s \in live' => \A p \in KernelPage \cup CodePage :
                                    pagusr_table'[s][p].frame \in Reserved
    <3>1. CASE s = c
      BY <1>6, <2>4, <2>5, <3>1
    <3>2. CASE s = t
      BY <1>6, <2>2, <2>3, <2>6, <3>2 DEF get_frame
    <3>3. CASE s \notin {t, c}
      BY <1>6, <1>9, <3>3 DEF IInv, OthersReserved, get_frame
    <3>4. QED
      BY <3>1, <3>2, <3>3
  <2>8. QED
    BY <2>7 DEF OthersReserved, get_frame
<1>13. QED
  BY <1>7, <1>8, <1>10, <1>11, <1>12, TablesSafe

\* A fork that fails unmaps pages of a slot nobody uses.
LEMMA FailedForkSafe ==
  ASSUME IInv, NEW t \in Slot, NEW c \in Slot, sys_fork_EAGAIN(t, c)
  PROVE  IInv'
<1> DEFINE n == Cardinality(free_frames(phys_mem))
           gone == PAG_LOG_INIT_DATA .. PAG_LOG_INIT_DATA + n - 1
<1>1. /\ c \in Slot \ live
      /\ pagusr_table' =
           [pagusr_table EXCEPT
              ![c] = [p \in Page |-> IF p \in gone THEN Absent ELSE pagusr_table[c][p]]]
      /\ UNCHANGED <<live, phys_mem, referencias, a_borrar, content, status,
                     freed_shared, left_attached>>
  BY DEF sys_fork_EAGAIN
<1> HIDE DEF n, gone
<1>2. TypeOK /\ pagusr_table \in [Slot -> [Page -> Entry]] /\ live \subseteq Slot
  BY DEF IInv, TypeOK
<1>3. [p \in Page |-> IF p \in gone THEN Absent ELSE pagusr_table[c][p]]
        \in [Page -> Entry]
  BY <1>2, Entries
<1>4. /\ pagusr_table' \in [Slot -> [Page -> Entry]]
      /\ \A s \in live' : pagusr_table'[s] = pagusr_table[s]
  BY <1>1, <1>2, <1>3
<1>5. TypeOK'
  BY <1>1, <1>2, <1>4 DEF TypeOK
<1>6. OthersReserved'
  <2>1. 0 \in Reserved /\ Absent.frame = 0
    BY Sizes DEF Reserved, KernelPage, Absent
  <2>2. ASSUME NEW p \in UpperPage
        PROVE  pagusr_table'[c][p] \in {Absent, pagusr_table[c][p]}
    BY <1>1, <1>2, <1>3, Pages
  <2>3. \A s \in Slot \ {c} : pagusr_table'[s] = pagusr_table[s]
    BY <1>1, <1>2
  <2>4. QED
    BY <1>1, <2>1, <2>2, <2>3 DEF IInv, OthersReserved, get_frame
<1>7. QED
  BY <1>1, <1>4, <1>5, <1>6, SameTablesSafe DEF IInv, ReservedKept

\* A step that changes no table, nor what is counted, keeps the invariant.
LEMMA SameCountsSafe ==
  ASSUME IInv, TypeOK', live' = live, pagusr_table' = pagusr_table,
         phys_mem' = phys_mem
  PROVE  IInv'
<1>1. ReservedKept' /\ OthersReserved'
  BY DEF IInv, ReservedKept, OthersReserved, get_frame
<1>2. QED
  BY <1>1, SameTablesSafe

\* A fork that counts behind the end of the byte map stops the model.
LEMMA LostForkSafe ==
  ASSUME IInv, NEW t \in Slot, sys_fork_out_of_bounds(t)
  PROVE  IInv'
<1>1. TypeOK'
  BY DEF sys_fork_out_of_bounds, IInv, TypeOK
<1>2. QED
  BY <1>1, SameCountsSafe DEF sys_fork_out_of_bounds

\* An exit frees frames of data pages, and spoils only its own table.
LEMMA ExitSafe ==
  ASSUME IInv, NEW t \in Slot, sys_exit(t)
  PROVE  IInv'
<1> DEFINE freed == freeable({get_frame(t, p) : p \in DataPage})
           dropped == shared_pages_dropped(t)
           cleared == {id \in Shm : referencias[id] \in 1 .. dropped[id]}
           table == [p \in Page |-> IF p \in DataPage \cup cleared
                                    THEN Absent ELSE pagusr_table[t][p]]
<1>1. /\ t \in live /\ live' = live \ {t}
      /\ phys_mem' = [f \in Frame |-> IF f \in freed THEN 0 ELSE phys_mem[f]]
      /\ referencias' = [id \in Shm |-> referencias[id] - dropped[id]]
      /\ pagusr_table' = [pagusr_table EXCEPT ![t] = table]
      /\ freed_shared' =
           freed_shared \cup {f \in freed : \E m \in DataMappings(f) : m[1] # t}
      /\ left_attached' =
           left_attached \cup {id \in Shm : AllShmPages(t, id) # ShmPages(t, id)}
      /\ UNCHANGED <<a_borrar, content, status>>
  BY DEF sys_exit
<1>2. /\ TypeOK /\ ReservedKept /\ DataApart
      /\ pagusr_table \in [Slot -> [Page -> Entry]] /\ live \subseteq Slot
  BY DEF IInv, TypeOK
<1>3. \A f \in freed : f \in Frame \ Reserved
  <2>1. ASSUME NEW p \in DataPage
        PROVE  get_frame(t, p) \in (Frame \cup {NoFrame}) \ Reserved
    BY <1>1, <1>2, Pages DEF get_frame, Entry, DataApart
  <2>2. TOTAL_FRAMES <= NoFrame
    BY MemoryAssumption
  <2>3. QED
    BY <2>1, <2>2, Sizes DEF freeable, Frame, NoFrame
<1>4. \A id \in Shm : dropped[id] \in Nat
  BY Pages, PageCounts DEF shared_pages_dropped, ShmPages
<1>5. table \in [Page -> Entry]
  BY <1>2, Entries
<1> HIDE DEF freed, dropped, table
<1>6. /\ pagusr_table' \in [Slot -> [Page -> Entry]]
      /\ \A s \in live' : s \in live /\ pagusr_table'[s] = pagusr_table[s]
  BY <1>1, <1>2, <1>5
<1>7. TypeOK'
  <2>1. phys_mem' \in [Frame -> 0 .. 255] /\ referencias' \in [Shm -> Int]
    BY <1>1, <1>2, <1>4 DEF TypeOK
  <2>2. freed_shared' \subseteq Frame /\ left_attached' \subseteq Shm
    BY <1>1, <1>2, <1>3 DEF TypeOK
  <2>3. QED
    BY <1>1, <1>2, <1>6, <2>1, <2>2 DEF TypeOK
<1>8. ReservedKept'
  BY <1>1, <1>2, <1>3, ShmFrames DEF ReservedKept
<1>9. OthersReserved'
  <2>1. \A p \in UpperPage : table[p] = pagusr_table[t][p]
    <3>1. cleared \subseteq KernelPage
      BY Pages
    <3>2. QED
      BY <3>1, Pages DEF table
  <2>2. pagusr_table'[t] = table /\ \A s \in Slot \ {t} : pagusr_table'[s] = pagusr_table[s]
    BY <1>1, <1>2, <1>5
  <2>3. QED
    BY <1>1, <2>1, <2>2 DEF IInv, OthersReserved, get_frame
<1>10. QED
  BY <1>6, <1>7, <1>8, <1>9, SameTablesSafe

\* A page of a live process whose frame is not reserved is one of its data.
LEMMA OnlyDataCopied ==
  ASSUME IInv, NEW t \in live, NEW p \in Page, get_frame(t, p) \notin Reserved
  PROVE  p \in DataPage
<1>1. t \in Slot
  BY DEF IInv, TypeOK
<1>2. QED
  BY <1>1, Pages DEF IInv, OthersReserved

\* A fault is never on a lost page, so it looks at the count of a frame.
LEMMA FaultFrame ==
  ASSUME IInv, NEW t \in live, NEW p \in Page, ~Writable(t, p)
  PROVE  get_frame(t, p) \in Frame
<1>1. CASE get_frame(t, p) \in Reserved
  BY <1>1, ShmFrames
<1>2. CASE get_frame(t, p) \notin Reserved
  <2>1. p \in DataPage
    BY <1>2, OnlyDataCopied
  <2>2. get_frame(t, p) # NoFrame
    BY <2>1 DEF IInv, LostIsWritable
  <2>3. QED
    BY <2>2 DEF IInv, TypeOK, get_frame, Entry
<1>3. QED
  BY <1>1, <1>2

\* A fault copies only pages whose frame has several users, so none of a
\* reserved frame: those it makes writable where they are.
LEMMA PagefaultSafe ==
  ASSUME IInv, NEW t \in Slot, NEW p \in Page, pagefault_routine(t, p)
  PROVE  IInv'
<1> DEFINE f == get_frame(t, p)
<1>1. t \in live /\ UNCHANGED <<live, referencias, a_borrar, freed_shared, left_attached>>
  BY DEF pagefault_routine
<1>2. /\ TypeOK /\ ReservedKept /\ DataApart /\ KernelMapped
      /\ pagusr_table \in [Slot -> [Page -> Entry]] /\ live \subseteq Slot
      /\ phys_mem \in [Frame -> 0 .. 255] /\ content \in [Frame -> Value]
  BY DEF IInv, TypeOK
<1>3. pagusr_table[t] \in [Page -> Entry] /\ pagusr_table[t][p] \in Entry /\ f \in Frame
  BY <1>1, <1>2, FaultFrame DEF pagefault_routine
<1>4. CASE /\ status' = "hung"
           /\ UNCHANGED <<pagusr_table, phys_mem, content>>
  <2>1. TypeOK'
    BY <1>1, <1>2, <1>4 DEF TypeOK
  <2>2. QED
    BY <1>1, <1>4, <2>1, SameCountsSafe
<1>5. CASE /\ pagusr_table' = [pagusr_table EXCEPT ![t][p].rw = TRUE]
           /\ UNCHANGED <<phys_mem, content, status>>
  <2>1. /\ pagusr_table' \in [Slot -> [Page -> Entry]]
        /\ \A s \in Slot : \A q \in Page :
              /\ pagusr_table'[s][q].frame = pagusr_table[s][q].frame
              /\ pagusr_table'[s][q].present = pagusr_table[s][q].present
              /\ pagusr_table'[s][q].user = pagusr_table[s][q].user
              /\ pagusr_table[s][q].rw => pagusr_table'[s][q].rw
    <3> DEFINE e == [pagusr_table[t][p] EXCEPT !.rw = TRUE]
               table == [pagusr_table[t] EXCEPT ![p] = e]
    <3>1. /\ e \in Entry /\ e.frame = pagusr_table[t][p].frame
          /\ e.present = pagusr_table[t][p].present
          /\ e.user = pagusr_table[t][p].user /\ e.rw
      BY <1>3 DEF Entry
    <3>2. pagusr_table' = [pagusr_table EXCEPT ![t] = table]
      BY <1>5
    <3> HIDE DEF e
    <3>3. /\ table \in [Page -> Entry]
          /\ table[p] = e /\ \A q \in Page \ {p} : table[q] = pagusr_table[t][q]
      BY <1>3, <3>1
    <3> HIDE DEF table
    <3>4. QED
      BY <1>2, <3>1, <3>2, <3>3
  <2>2. TypeOK'
    BY <1>1, <1>2, <1>5, <2>1 DEF TypeOK
  <2>3. OthersReserved'
    <3>1. \A s \in Slot : \A q \in UpperPage \cup KernelPage \cup CodePage :
             pagusr_table'[s][q].frame = pagusr_table[s][q].frame
      BY <2>1, Pages
    <3>2. QED
      BY <1>1, <3>1 DEF IInv, OthersReserved, get_frame
  <2>4. ReservedKept'
    BY <1>2, <1>5 DEF ReservedKept
  <2>5. \A s \in live' : \A q \in DataPage :
           /\ pagusr_table'[s][q].present /\ pagusr_table'[s][q].frame \notin Reserved
           /\ pagusr_table'[s][q].frame = NoFrame
                => pagusr_table'[s][q].user /\ pagusr_table'[s][q].rw
    <3>1. ASSUME NEW s \in live, NEW q \in DataPage
          PROVE  s \in Slot /\ q \in Page
      BY <1>2, Pages
    <3>2. QED
      BY <1>1, <2>1, <3>1 DEF IInv, DataApart, LostIsWritable, Writable, get_frame
  <2>6. \A s \in live' : \A q \in KernelPage \ (GuardPages \cup {NullPage}) :
           pagusr_table'[s][q].present /\ pagusr_table'[s][q].frame = q
    <3>1. ASSUME NEW s \in live, NEW q \in KernelPage
          PROVE  s \in Slot /\ q \in Page
      BY <1>2, Pages
    <3>2. QED
      BY <1>1, <2>1, <3>1 DEF IInv, KernelMapped, get_frame
  <2>7. QED
    BY <2>2, <2>3, <2>4, <2>5, <2>6, TablesSafe
<1>6. CASE phys_mem[f] > 1 /\ copy_on_write(t, p)
  <2>1. f \notin Reserved /\ p \in DataPage /\ p # pagina_a_usar
    BY <1>1, <1>2, <1>3, <1>6, OnlyDataCopied, Pages DEF ReservedKept
  <2> DEFINE pm == [phys_mem EXCEPT ![f] = (@ - 1) % 256]
             temp == pagusr_table[t][pagina_a_usar]
  <2>2. /\ pm \in [Frame -> 0 .. 255]
        /\ \A g \in Frame \ {f} : pm[g] = phys_mem[g]
    <3> DEFINE n == (phys_mem[f] - 1) % 256
    <3>1. n \in 0 .. 255
      BY <1>2, <1>3
    <3>2. pm = [phys_mem EXCEPT ![f] = n]
      OBVIOUS
    <3> HIDE DEF n, pm
    <3>3. QED
      BY <1>2, <1>3, <3>1, <3>2
  <2>3. ASSUME NEW new \in IF free_frames(pm) = {} THEN {NoFrame}
                                                  ELSE alloc_frames(pm, 1),
               phys_mem' = [g \in Frame |-> IF g = new THEN 1 ELSE pm[g]],
               pagusr_table' =
                 [pagusr_table EXCEPT
                    ![t][pagina_a_usar] = IF temp.present THEN Mapped(temp.frame)
                                                          ELSE Absent,
                    ![t][p] = Mapped(new)],
               \E target \in {new} \cup (IF temp.present THEN {temp.frame} ELSE {}) :
                  content' = [g \in Frame |-> IF g = target THEN content[f]
                                                           ELSE content[g]],
               UNCHANGED status
        PROVE  IInv'
    <3>1. temp \in Entry /\ temp.frame \in Frame
      <4>1. temp \in Entry /\ temp.frame \in Reserved
        BY <1>3, Pages DEF IInv, OthersReserved, get_frame
      <4>2. QED
        BY <4>1, ShmFrames
    <3>2. new \in Frame \cup {NoFrame} /\ new \notin Reserved
      <4>1. CASE new \in alloc_frames(pm, 1)
        <5>1. new \in Frame /\ pm[new] = 0
          BY <4>1, Allocated
        <5>2. QED
          BY <1>2, <2>1, <2>2, <5>1, ShmFrames DEF ReservedKept
      <4>2. CASE new = NoFrame
        BY <4>2, BootFrames, ShmFrames
      <4>3. QED
        BY <2>3, <4>1, <4>2
    <3> DEFINE left == IF temp.present THEN Mapped(temp.frame) ELSE Absent
               middle == [pagusr_table[t] EXCEPT ![pagina_a_usar] = left]
               table == [middle EXCEPT ![p] = Mapped(new)]
    <3>3. left \in Entry /\ Mapped(new) \in Entry
      BY <3>1, <3>2, Entries
    <3>4. pagusr_table' = [pagusr_table EXCEPT ![t] = table]
      BY <1>2, <1>3, <2>3
    <3> HIDE DEF left
    <3>5. /\ table \in [Page -> Entry]
          /\ \A q \in Page \ {pagina_a_usar, p} : table[q] = pagusr_table[t][q]
          /\ table[p] = Mapped(new)
      BY <1>3, <3>3, Pages
    <3> HIDE DEF table
    <3>6. /\ pagusr_table' \in [Slot -> [Page -> Entry]]
          /\ pagusr_table'[t] = table
          /\ \A s \in Slot \ {t} : pagusr_table'[s] = pagusr_table[s]
      BY <1>2, <3>4, <3>5
    <3>7. phys_mem' \in [Frame -> 0 .. 255] /\ ReservedKept'
      <4>1. phys_mem' \in [Frame -> 0 .. 255]
            /\ \A g \in Frame \ {new, f} : phys_mem'[g] = phys_mem[g]
        BY <2>2, <2>3
      <4>2. QED
        BY <1>2, <2>1, <3>2, <4>1, ShmFrames DEF ReservedKept
    <3>8. content' \in [Frame -> Value]
      <4>1. content[f] \in Value
        BY <1>2, <1>3
      <4>2. QED
        BY <1>2, <2>3, <4>1
    <3>9. TypeOK'
      BY <1>1, <1>2, <2>3, <3>6, <3>7, <3>8 DEF TypeOK
    <3>10. ASSUME NEW s \in live', NEW q \in DataPage
           PROVE  /\ pagusr_table'[s][q].present
                  /\ pagusr_table'[s][q].frame \notin Reserved
                  /\ pagusr_table'[s][q].frame = NoFrame
                       => pagusr_table'[s][q].user /\ pagusr_table'[s][q].rw
      <4>1. s \in live /\ s \in Slot /\ q \in Page /\ q # pagina_a_usar
        BY <1>1, <1>2, Pages
      <4>2. CASE s = t /\ q = p
        BY <3>2, <3>5, <3>6, <4>2, Entries
      <4>3. CASE ~(s = t /\ q = p)
        <5>1. pagusr_table'[s][q] = pagusr_table[s][q]
          BY <3>5, <3>6, <4>1, <4>3
        <5>2. QED
          BY <4>1, <5>1 DEF IInv, DataApart, LostIsWritable, Writable, get_frame
      <4>4. QED
        BY <4>2, <4>3
    <3>11. ASSUME NEW s \in live', NEW q \in KernelPage
           PROVE  pagusr_table'[s][q] = pagusr_table[s][q]
      BY <1>1, <1>2, <2>1, <3>5, <3>6, Pages
    <3>12. OthersReserved'
      <4>1. p \notin UpperPage
        BY <2>1, Pages
      <4>2. 0 \in Reserved /\ Absent.frame = 0
        BY Sizes DEF Reserved, KernelPage, Absent
      <4>3. temp.frame \in Reserved
        BY Pages DEF IInv, OthersReserved, get_frame
      <4>4. left.frame \in Reserved
        BY <3>1, <4>2, <4>3, Entries DEF left
      <4>5. table[pagina_a_usar] = left
        BY <1>3, <3>3, <4>1, Pages DEF table
      <4>6. \A s \in Slot : \A q \in UpperPage \cup KernelPage \cup CodePage :
               \/ pagusr_table'[s][q] = pagusr_table[s][q]
               \/ pagusr_table'[s][q].frame \in Reserved
        BY <2>1, <3>5, <3>6, <4>4, <4>5, Pages
      <4>7. QED
        BY <1>1, <4>6 DEF IInv, OthersReserved, get_frame
    <3>13. QED
      BY <1>1, <1>2, <3>7, <3>9, <3>10, <3>11, <3>12, TablesSafe
         DEF KernelMapped, get_frame
  <2> HIDE DEF pm
  <2>4. QED
    BY <1>6, <2>3 DEF copy_on_write, pm
<1>7. QED
  BY <1>4, <1>5, <1>6 DEF pagefault_routine

\* Stores change contents only.
LEMMA StoreSafe ==
  ASSUME IInv, NEW t \in Slot, NEW p \in Page, NEW v \in Value, Put(t, p, v)
  PROVE  IInv'
<1>1. content' = [f \in Frame |-> IF f = get_frame(t, p) THEN v ELSE content[f]]
      /\ UNCHANGED <<live, pagusr_table, phys_mem, referencias, a_borrar, status,
                     freed_shared, left_attached>>
  BY DEF Put
<1>2. TypeOK'
  BY <1>1 DEF IInv, TypeOK
<1>3. QED
  BY <1>1, <1>2, SameCountsSafe

\* A region is attached only at a page that is not present, which no data page of
\* a live process is, and none of the kernel but the first and the guard pages.
LEMMA ShmatSafe ==
  ASSUME IInv, NEW t \in Slot, NEW id \in Shm, NEW p \in ShmatPages,
         sys_shmat(t, id, p)
  PROVE  IInv'
<1>1. PICK q \in p .. TOTAL_PAGES - 1 :
        /\ ~pagusr_table[t][q].present
        /\ pagusr_table' = [pagusr_table EXCEPT ![t][q] = Mapped(shm_frame(id))]
  BY DEF sys_shmat
<1>2. /\ t \in live /\ referencias' = [referencias EXCEPT ![id] = @ + 1]
      /\ UNCHANGED <<live, phys_mem, a_borrar, content, status, freed_shared,
                     left_attached>>
  BY DEF sys_shmat
<1>3. /\ TypeOK /\ DataApart /\ KernelMapped
      /\ pagusr_table \in [Slot -> [Page -> Entry]] /\ live \subseteq Slot
  BY DEF IInv, TypeOK
<1>4. /\ q \in Page /\ q \notin DataPage
      /\ q \notin KernelPage \ (GuardPages \cup {NullPage})
  <2>1. p \in Page
    BY MemoryAssumption
  <2>2. q \in Page
    BY <2>1, Sizes DEF Page
  <2>3. QED
    BY <1>1, <1>2, <1>3, <2>2 DEF DataApart, KernelMapped
<1>5. Mapped(shm_frame(id)) \in Entry
  BY ShmFrames, Entries
<1> DEFINE table == [pagusr_table[t] EXCEPT ![q] = Mapped(shm_frame(id))]
<1>6. pagusr_table' = [pagusr_table EXCEPT ![t] = table]
  BY <1>1
<1>7. table \in [Page -> Entry] /\ \A r \in Page \ {q} : table[r] = pagusr_table[t][r]
  BY <1>3, <1>4, <1>5
<1> HIDE DEF table
<1>8. /\ pagusr_table' \in [Slot -> [Page -> Entry]]
      /\ \A s \in Slot : \A r \in Page \ {q} : pagusr_table'[s][r] = pagusr_table[s][r]
  BY <1>3, <1>6, <1>7
<1>9. TypeOK'
  BY <1>2, <1>3, <1>8 DEF TypeOK
<1>10. OthersReserved'
  <2>1. pagusr_table'[t][q].frame \in Reserved
    <3>1. pagusr_table'[t][q] = Mapped(shm_frame(id))
      BY <1>1, <1>3, <1>4
    <3>2. QED
      BY <3>1, ShmFrames, Entries DEF Reserved
  <2>2. ASSUME NEW s \in Slot, NEW r \in Page
        PROVE  \/ pagusr_table'[s][r] = pagusr_table[s][r]
               \/ pagusr_table'[s][r].frame \in Reserved
    <3>1. CASE s # t
      BY <1>3, <1>6, <3>1
    <3>2. CASE s = t
      BY <1>8, <2>1, <3>2
    <3>3. QED
      BY <3>1, <3>2
  <2>3. QED
    BY <1>2, <2>2, Pages DEF IInv, OthersReserved, get_frame
<1>11. \A s \in live' : s \in live /\
          \A r \in DataPage \cup (KernelPage \ (GuardPages \cup {NullPage})) :
             pagusr_table'[s][r] = pagusr_table[s][r]
  BY <1>2, <1>3, <1>4, <1>8, Pages
<1>12. ReservedKept'
  BY <1>2 DEF IInv, ReservedKept
<1>13. QED
  BY <1>9, <1>10, <1>11, <1>12, SameTablesSafe

\* A detach unmaps at most a page of a region, which is not data, nor the kernel's own.
LEMMA ShmdtSafe ==
  ASSUME IInv, NEW t \in Slot, NEW p \in ShmatPages, sys_shmdt(t, p)
  PROVE  IInv'
<1>1. PICK id \in Shm :
        /\ shm_frame(id) = get_frame(t, p)
        /\ referencias' = [referencias EXCEPT ![id] = @ - 1]
        /\ \/ UNCHANGED <<pagusr_table, a_borrar, content>>
           \/ /\ \E v \in {0, content[shm_frame(id)]} :
                    content' = [content EXCEPT ![shm_frame(id)] = v]
              /\ a_borrar' = [a_borrar EXCEPT ![id] = FALSE]
              /\ pagusr_table' = [pagusr_table EXCEPT ![t][p] = Absent]
  BY DEF sys_shmdt
<1>2. t \in live /\ UNCHANGED <<live, phys_mem, status, freed_shared, left_attached>>
  BY DEF sys_shmdt
<1>3. /\ TypeOK /\ DataApart /\ KernelMapped
      /\ pagusr_table \in [Slot -> [Page -> Entry]] /\ live \subseteq Slot
      /\ content \in [Frame -> Value] /\ a_borrar \in [Shm -> BOOLEAN]
      /\ referencias \in [Shm -> Int]
  BY DEF IInv, TypeOK
<1>4. shm_frame(id) \in Reserved /\ shm_frame(id) \in Frame
  BY ShmFrames DEF Reserved
<1>5. /\ p \in Page /\ p \notin DataPage
      /\ p \notin KernelPage \ (GuardPages \cup {NullPage})
  <2>1. p \in Page
    BY MemoryAssumption
  <2>2. p \notin DataPage
    BY <1>1, <1>2, <1>3, <1>4 DEF DataApart
  <2>3. shm_frame(id) \notin KernelPage
    <3>1. NUM_PAG_CODE + NUM_PAG_DATA + id
            \in 0 .. NUM_PAG_CODE + NUM_PAG_DATA + NSHM - 1
      BY Sizes DEF Shm
    <3>2. QED
      BY <3>1, BootFrames DEF shm_frame
  <2>4. QED
    BY <1>1, <1>2, <1>3, <2>1, <2>2, <2>3 DEF KernelMapped
<1>6. /\ pagusr_table' \in [Slot -> [Page -> Entry]]
      /\ \A s \in Slot : \A r \in Page \ {p} : pagusr_table'[s][r] = pagusr_table[s][r]
  <2>1. CASE UNCHANGED pagusr_table
    BY <1>3, <2>1
  <2>2. CASE pagusr_table' = [pagusr_table EXCEPT ![t][p] = Absent]
    <3> DEFINE table == [pagusr_table[t] EXCEPT ![p] = Absent]
    <3>1. pagusr_table' = [pagusr_table EXCEPT ![t] = table]
      BY <2>2
    <3>2. table \in [Page -> Entry]
          /\ \A r \in Page \ {p} : table[r] = pagusr_table[t][r]
      BY <1>3, <1>5, Entries
    <3> HIDE DEF table
    <3>3. QED
      BY <1>3, <3>1, <3>2
  <2>3. QED
    BY <1>1, <2>1, <2>2
<1>7. content' \in [Frame -> Value] /\ a_borrar' \in [Shm -> BOOLEAN]
      /\ referencias' \in [Shm -> Int]
  <2>1. {0, content[shm_frame(id)]} \subseteq Value
    BY <1>3, <1>4, MemoryAssumption
  <2>2. content' \in [Frame -> Value] /\ a_borrar' \in [Shm -> BOOLEAN]
    BY <1>1, <1>3, <2>1
  <2>3. QED
    BY <1>1, <1>3, <2>2
<1>8. TypeOK'
  BY <1>2, <1>3, <1>6, <1>7 DEF TypeOK
<1>9. \A s \in live' : s \in live /\
         \A r \in DataPage \cup (KernelPage \ (GuardPages \cup {NullPage})) :
            pagusr_table'[s][r] = pagusr_table[s][r]
  BY <1>2, <1>3, <1>5, <1>6, Pages
<1>10. OthersReserved'
  <2>1. 0 \in Reserved /\ Absent.frame = 0
    BY Sizes DEF Reserved, KernelPage, Absent
  <2>2. \A s \in Slot : \A r \in Page :
           pagusr_table'[s][r] \in {Absent, pagusr_table[s][r]}
    <3>1. CASE UNCHANGED pagusr_table
      BY <3>1
    <3>2. CASE pagusr_table' = [pagusr_table EXCEPT ![t][p] = Absent]
      BY <1>3, <1>5, <3>2
    <3>3. QED
      BY <1>1, <3>1, <3>2
  <2>3. QED
    BY <1>2, <2>1, <2>2, Pages DEF IInv, OthersReserved, get_frame
<1>11. ReservedKept'
  BY <1>2 DEF IInv, ReservedKept
<1>12. QED
  BY <1>8, <1>9, <1>10, <1>11, SameTablesSafe

\* A mark changes no table and no count.
LEMMA ShmrmSafe ==
  ASSUME IInv, NEW t \in Slot, NEW id \in 0 .. NSHM, sys_shmrm(t, id)
  PROVE  IInv'
<1>1. /\ UNCHANGED <<live, pagusr_table, phys_mem, referencias, content,
                     freed_shared, left_attached>>
      /\ \/ a_borrar' = [a_borrar EXCEPT ![id] = TRUE] /\ UNCHANGED status
         \/ status' = "out_of_bounds" /\ UNCHANGED a_borrar
  BY DEF sys_shmrm
<1>2. TypeOK'
  BY <1>1 DEF IInv, TypeOK
<1>3. QED
  BY <1>1, <1>2, SameCountsSafe

\* Every step keeps the invariant.
LEMMA NextSafe ==
  ASSUME IInv, [Next]_vars
  PROVE  IInv'
<1>1. ASSUME NEW t \in Slot, NEW c \in Slot,
             sys_fork(t, c) \/ sys_fork_EAGAIN(t, c)
      PROVE  IInv'
  BY <1>1, ForkSafe, FailedForkSafe
<1>2. ASSUME NEW t \in Slot, sys_exit(t)
      PROVE  IInv'
  BY <1>2, ExitSafe
<1>3. UserPages \subseteq Page
  BY MemoryAssumption
<1>4. ASSUME NEW t \in Slot, NEW p \in UserPages, pagefault_routine(t, p)
      PROVE  IInv'
  BY <1>3, <1>4, PagefaultSafe
<1>5. ASSUME NEW t \in Slot, NEW p \in UserPages, NEW v \in Value,
             user_store(t, p, v) \/ copy_to_user(t, p, v)
      PROVE  IInv'
  BY <1>3, <1>5, StoreSafe DEF user_store, copy_to_user
<1>6. ASSUME NEW t \in Slot, NEW id \in Shm, NEW p \in ShmatPages,
             sys_shmat(t, id, p)
      PROVE  IInv'
  BY <1>6, ShmatSafe
<1>7. ASSUME NEW t \in Slot, NEW p \in ShmatPages, sys_shmdt(t, p)
      PROVE  IInv'
  BY <1>7, ShmdtSafe
<1>8. ASSUME NEW t \in Slot, NEW id \in 0 .. NSHM, sys_shmrm(t, id)
      PROVE  IInv'
  BY <1>8, ShmrmSafe
<1>9. ASSUME NEW t \in Slot, sys_fork_out_of_bounds(t)
      PROVE  IInv'
  BY <1>9, LostForkSafe
<1>10. CASE UNCHANGED vars
  <2>1. TypeOK'
    BY <1>10 DEF vars, IInv, TypeOK
  <2>2. QED
    BY <1>10, <2>1, SameCountsSafe DEF vars
<1>11. QED
  BY <1>1, <1>2, <1>4, <1>5, <1>6, <1>7, <1>8, <1>9, <1>10 DEF Next, handler
-----------------------------------------------------------------------------
(* Copy-on-write: the counts, and who may write.                           *)

\* CountIsMappings and WritableIsPrivate, frame by frame.
Mapping(f) == \E t \in live : \E p \in DataPage : get_frame(t, p) = f
Counted ==
  \A f \in Frame \ freed_shared :
     Mapping(f) => phys_mem[f] = Cardinality(DataMappings(f))
Owned ==
  \A f \in Frame \ freed_shared : \A t \in live : \A p \in DataPage :
     get_frame(t, p) = f /\ Writable(t, p) => DataMappings(f) = {<<t, p>>}

CInv == IInv /\ Counted /\ Owned

\* The frames of data pages are frames, but for the pages that were lost.
LEMMA DataFrames ==
  ASSUME IInv, NEW t \in live, NEW p \in DataPage
  PROVE  get_frame(t, p) \in (Frame \cup {NoFrame}) \ Reserved
BY Pages DEF IInv, TypeOK, DataApart, get_frame, Entry

\* Mappings are finite in number, no more than a Byte counts, and not zero for a
\* frame that a live process has its data in.
LEMMA MappingCounts ==
  ASSUME IInv, NEW f
  PROVE  /\ IsFiniteSet(DataMappings(f))
         /\ Cardinality(DataMappings(f)) \in 0 .. 255
         /\ \A t \in live : \A p \in DataPage :
               get_frame(t, p) = f => /\ <<t, p>> \in DataMappings(f)
                                      /\ Cardinality(DataMappings(f)) # 0
<1>1. IsFiniteSet(Slot \X DataPage)
  <2>1. IsFiniteSet(Slot)
    BY Sizes, FS_Interval DEF Slot
  <2>2. IsFiniteSet(DataPage)
    BY Sizes, FS_Interval DEF DataPage, PAG_LOG_INIT_DATA, PAG_LOG_INIT_CODE
  <2>3. QED
    BY <2>1, <2>2, FS_Product
<1>2. DataMappings(f) \subseteq Slot \X DataPage
  BY DEF IInv, TypeOK, DataMappings
<1>3. /\ IsFiniteSet(DataMappings(f))
      /\ Cardinality(DataMappings(f)) <= Cardinality(Slot \X DataPage)
  BY <1>1, <1>2, FS_Subset
<1>4. Cardinality(DataMappings(f)) \in 0 .. 255
  <2>1. /\ Cardinality(DataMappings(f)) \in Nat
        /\ Cardinality(Slot \X DataPage) \in Nat
    BY <1>1, <1>3, FS_CardinalityType
  <2>2. Cardinality(Slot \X DataPage) <= 255
    BY MemoryAssumption
  <2>3. QED
    BY <1>3, <2>1, <2>2
<1>5. ASSUME NEW t \in live, NEW p \in DataPage, get_frame(t, p) = f
      PROVE  <<t, p>> \in DataMappings(f) /\ Cardinality(DataMappings(f)) # 0
  <2>1. <<t, p>> \in DataMappings(f)
    BY <1>5 DEF DataMappings
  <2>2. QED
    BY <1>3, <2>1, FS_EmptySet
<1>6. QED
  BY <1>3, <1>4, <1>5

\* A step that leaves the data entries of the live processes and the byte map
\* alone leaves what is said of them alone.
LEMMA SameData ==
  ASSUME CInv, live' = live, phys_mem' = phys_mem, freed_shared' = freed_shared,
         \A t \in live : \A p \in DataPage : pagusr_table'[t][p] = pagusr_table[t][p]
  PROVE  Counted' /\ Owned'
<1>1. \A f : DataMappings(f)' = DataMappings(f)
  BY DEF DataMappings, get_frame
<1>2. \A t \in live : \A p \in DataPage :
         get_frame(t, p)' = get_frame(t, p) /\ (Writable(t, p)' <=> Writable(t, p))
  BY DEF get_frame, Writable
<1>3. Counted'
  BY <1>1, <1>2 DEF CInv, Counted, Mapping
<1>4. Owned'
  BY <1>1, <1>2 DEF CInv, Owned
<1>5. QED
  BY <1>3, <1>4

\* At boot every data page of task 1 has a frame of its own, counted once.
LEMMA InitCounts == Init => CInv
<1> SUFFICES ASSUME Init PROVE CInv
  OBVIOUS
<1>1. IInv
  BY InitSafe
<1>2. live = {task1} /\ task1 \in Slot /\ pagusr_table[task1] = Task1Table
  BY MemoryAssumption DEF Init, Slot, task1
<1>3. ASSUME NEW p \in DataPage
      PROVE  /\ get_frame(task1, p) = BootFrame(p - PAG_LOG_INIT_CODE)
             /\ p - PAG_LOG_INIT_CODE \in Nat
             /\ p - PAG_LOG_INIT_CODE \in 0 .. NUM_PAG_CODE + NUM_PAG_DATA + NSHM - 1
  <2>1. Task1Table[p] = Mapped(BootFrame(p - PAG_LOG_INIT_CODE))
    BY Pages DEF Task1Table
  <2>2. /\ p - PAG_LOG_INIT_CODE \in Nat
        /\ p - PAG_LOG_INIT_CODE \in 0 .. NUM_PAG_CODE + NUM_PAG_DATA + NSHM - 1
    BY Sizes DEF DataPage, PAG_LOG_INIT_CODE, PAG_LOG_INIT_DATA
  <2>3. QED
    BY <1>2, <2>1, <2>2 DEF get_frame, Mapped
<1>4. ASSUME NEW p \in DataPage
      PROVE  /\ DataMappings(get_frame(task1, p)) = {<<task1, p>>}
             /\ phys_mem[get_frame(task1, p)] = 1
  <2>1. \A q \in DataPage : get_frame(task1, q) = get_frame(task1, p) => q = p
    <3>1. ASSUME NEW q \in DataPage, get_frame(task1, q) = get_frame(task1, p)
          PROVE  q = p
      <4>1. q - PAG_LOG_INIT_CODE = p - PAG_LOG_INIT_CODE
        BY <1>3, <3>1, BootFrames
      <4>2. q \in Int /\ p \in Int /\ PAG_LOG_INIT_CODE \in Int
        BY Sizes DEF DataPage, PAG_LOG_INIT_CODE, PAG_LOG_INIT_DATA
      <4>3. QED
        BY <4>1, <4>2
    <3>2. QED
      BY <3>1
  <2>2. DataMappings(get_frame(task1, p)) = {<<task1, p>>}
    BY <1>2, <2>1 DEF DataMappings
  <2>3. get_frame(task1, p) \in Frame
    BY <1>3, BootFrames
  <2>4. phys_mem[get_frame(task1, p)] = 1
    BY <1>3, <2>3 DEF Init
  <2>5. QED
    BY <2>2, <2>4
<1>5. Counted
  <2>1. ASSUME NEW f, Mapping(f)
        PROVE  phys_mem[f] = Cardinality(DataMappings(f))
    <3>1. PICK p \in DataPage : get_frame(task1, p) = f
      BY <1>2, <2>1 DEF Mapping
    <3>2. DataMappings(f) = {<<task1, p>>} /\ phys_mem[f] = 1
      BY <1>4, <3>1
    <3>3. QED
      BY <3>2, FS_Singleton
  <2>2. QED
    BY <2>1 DEF Counted
<1>6. Owned
  BY <1>2, <1>4 DEF Owned
<1>7. QED
  BY <1>1, <1>5, <1>6 DEF CInv

\* What a fork does to the tables of the live processes.
LEMMA ForkTables ==
  ASSUME IInv, NEW t \in Slot, NEW c \in Slot, sys_fork(t, c)
  PROVE  /\ t \in live /\ c \notin live /\ t # c /\ live' = live \cup {c}
         /\ \A p \in DataPage :
               /\ get_frame(c, p)' = get_frame(t, p) /\ ~Writable(c, p)'
               /\ get_frame(t, p)' = get_frame(t, p) /\ ~Writable(t, p)'
         /\ \A s \in live \ {t} : pagusr_table'[s] = pagusr_table[s]
<1>1. /\ t \in live /\ c \in Slot \ live /\ live' = live \cup {c}
      /\ pagusr_table' = [pagusr_table EXCEPT ![c] = child_table(t, c),
                                              ![t] = parent_table(t)]
  BY DEF sys_fork
<1>2. pagusr_table \in [Slot -> [Page -> Entry]] /\ live \subseteq Slot
  BY DEF IInv, TypeOK
<1>3. /\ pagusr_table'[c] = child_table(t, c)
      /\ pagusr_table'[t] = parent_table(t)
      /\ \A s \in Slot \ {t, c} : pagusr_table'[s] = pagusr_table[s]
  BY <1>1, <1>2
<1>4. ASSUME NEW p \in DataPage
      PROVE  /\ child_table(t, c)[p] = ReadOnly(Mapped(get_frame(t, p)))
             /\ parent_table(t)[p] = ReadOnly(pagusr_table[t][p])
  BY Pages DEF child_table, parent_table
<1>5. ASSUME NEW p \in DataPage
      PROVE  /\ get_frame(c, p)' = get_frame(t, p) /\ ~Writable(c, p)'
             /\ get_frame(t, p)' = get_frame(t, p) /\ ~Writable(t, p)'
  <2>1. pagusr_table[t][p] \in Entry
    BY <1>2, Pages
  <2>2. \A e \in Entry : ReadOnly(e).frame = e.frame /\ ~ReadOnly(e).rw
    BY DEF ReadOnly, Entry
  <2>3. get_frame(t, p) \in Frame \cup {NoFrame}
    BY <2>1 DEF get_frame, Entry
  <2>4. Mapped(get_frame(t, p)) \in Entry /\ Mapped(get_frame(t, p)).frame = get_frame(t, p)
    BY <2>3, Entries
  <2>5. QED
    BY <1>3, <1>4, <2>1, <2>2, <2>4 DEF get_frame, Writable
<1>6. QED
  BY <1>1, <1>2, <1>3, <1>5

\* Fork adds the child's mappings to those of the parent's frames, and as many
\* users; nobody keeps a page it may write unless nobody else got it.
LEMMA ForkCounts ==
  ASSUME CInv, NEW t \in Slot, NEW c \in Slot, sys_fork(t, c)
  PROVE  CInv'
<1>1. IInv /\ IInv' /\ Counted /\ Owned
  BY ForkSafe DEF CInv
<1>2. /\ t \in live /\ c \notin live /\ t # c /\ live' = live \cup {c}
      /\ \A p \in DataPage :
            /\ get_frame(c, p)' = get_frame(t, p) /\ ~Writable(c, p)'
            /\ get_frame(t, p)' = get_frame(t, p) /\ ~Writable(t, p)'
      /\ \A s \in live \ {t} : pagusr_table'[s] = pagusr_table[s]
  BY <1>1, ForkTables
<1>3. phys_mem' = fork_counts(t) /\ freed_shared' = freed_shared
  BY DEF sys_fork
<1>4. \A s \in live : \A p \in DataPage : get_frame(s, p)' = get_frame(s, p)
  BY <1>2 DEF get_frame
<1> DEFINE users(f) == {p \in DataPage : get_frame(t, p) = f}
           copies(f) == {c} \X users(f)
<1>5. ASSUME NEW f
      PROVE  DataMappings(f)' = DataMappings(f) \cup copies(f)
  <2>1. ASSUME NEW m \in DataMappings(f)'
        PROVE  m \in DataMappings(f) \cup copies(f)
    <3>1. m \in live' \X DataPage /\ get_frame(m[1], m[2])' = f
      BY <2>1 DEF DataMappings
    <3>2. CASE m[1] = c
      <4>1. m = <<c, m[2]>> /\ m[2] \in users(f)
        BY <1>2, <3>1, <3>2
      <4>2. QED
        BY <4>1
    <3>3. CASE m[1] # c
      <4>1. m \in live \X DataPage
        BY <1>2, <3>1, <3>3
      <4>2. QED
        BY <1>4, <3>1, <4>1 DEF DataMappings
    <3>4. QED
      BY <3>2, <3>3
  <2>2. ASSUME NEW m \in DataMappings(f)
        PROVE  m \in DataMappings(f)'
    BY <1>2, <1>4, <2>2 DEF DataMappings
  <2>3. ASSUME NEW m \in copies(f)
        PROVE  m \in DataMappings(f)'
    BY <1>2, <2>3 DEF DataMappings
  <2>4. QED
    BY <2>1, <2>2, <2>3
<1>6. ASSUME NEW f
      PROVE  /\ IsFiniteSet(copies(f)) /\ DataMappings(f) \cap copies(f) = {}
             /\ Cardinality(users(f)) \in Nat
             /\ Cardinality(copies(f)) = Cardinality(users(f))
  <2>1. IsFiniteSet(users(f))
    <3>1. IsFiniteSet(DataPage)
      BY Sizes, FS_Interval DEF DataPage, PAG_LOG_INIT_DATA, PAG_LOG_INIT_CODE
    <3>2. QED
      BY <3>1, FS_Subset
  <2> HIDE DEF users
  <2>2. Cardinality(users(f)) \in Nat
    BY <2>1, FS_CardinalityType
  <2>3. IsFiniteSet({c}) /\ Cardinality({c}) = 1
    BY FS_Singleton
  <2>4. IsFiniteSet({c} \X users(f))
        /\ Cardinality({c} \X users(f)) = Cardinality({c}) * Cardinality(users(f))
    BY <2>1, <2>3, FS_Product
  <2>5. DataMappings(f) \cap copies(f) = {}
    BY <1>2 DEF DataMappings
  <2>6. QED
    BY <2>2, <2>3, <2>4, <2>5
<1> HIDE DEF copies
<1>7. ASSUME NEW f \in Frame \ freed_shared, Mapping(f)
      PROVE  phys_mem'[f] = Cardinality(DataMappings(f)')
  <2>1. PICK s \in live, p \in DataPage : get_frame(s, p) = f
    BY <1>7 DEF Mapping
  <2>2. f \in Frame
    OBVIOUS
  <2>3. /\ phys_mem[f] = Cardinality(DataMappings(f))
        /\ Cardinality(DataMappings(f)) \in 0 .. 255
        /\ Cardinality(DataMappings(f)) # 0
        /\ IsFiniteSet(DataMappings(f))
    BY <1>1, <1>7, <2>1, MappingCounts DEF Counted
  <2>4. f \notin alloc_frames(phys_mem, NUM_PAG_DATA)
    BY <2>3, Allocated
  <2>5. phys_mem'[f] = (phys_mem[f] + Cardinality(users(f))) % 256
    BY <1>3, <2>2, <2>4 DEF fork_counts
  <2>6. Cardinality(DataMappings(f)')
          = Cardinality(DataMappings(f)) + Cardinality(users(f))
    <3>1. Cardinality(DataMappings(f) \cup copies(f))
            = Cardinality(DataMappings(f)) + Cardinality(copies(f))
                - Cardinality(DataMappings(f) \cap copies(f))
      BY <1>6, <2>3, FS_Union
    <3>2. Cardinality(DataMappings(f) \cap copies(f)) = 0
      BY <1>6, FS_EmptySet
    <3>3. Cardinality(DataMappings(f) \cup copies(f))
            = Cardinality(DataMappings(f)) + Cardinality(users(f))
      BY <1>6, <2>3, <3>1, <3>2
    <3>4. QED
      BY <1>5, <3>3
  <2>7. Cardinality(DataMappings(f)') \in 0 .. 255
    <3>1. (IInv => Cardinality(DataMappings(f)) \in 0 .. 255)'
      <4>1. IInv => Cardinality(DataMappings(f)) \in 0 .. 255
        BY MappingCounts
      <4>2. QED
        BY MappingCounts, PTL
    <3>2. QED
      BY <1>1, <3>1
  <2>8. QED
    BY <1>6, <2>3, <2>5, <2>6, <2>7
<1>8. Counted'
  <2>1. ASSUME NEW f, Mapping(f)'
        PROVE  Mapping(f)
    BY <1>2, <1>4, <2>1 DEF Mapping
  <2>2. QED
    BY <1>3, <1>7, <2>1 DEF Counted
<1>9. Owned'
  <2>1. ASSUME NEW f \in Frame \ freed_shared, NEW s \in live', NEW p \in DataPage,
               Writable(s, p)', get_frame(s, p)' = f
        PROVE  DataMappings(f)' = {<<s, p>>}
    <3>1. s \in live \ {t}
      BY <1>2, <2>1
    <3>2. get_frame(s, p) = f /\ Writable(s, p)
      BY <1>2, <2>1, <3>1 DEF Writable, get_frame
    <3>3. DataMappings(f) = {<<s, p>>}
      BY <1>1, <3>1, <3>2 DEF Owned
    <3>4. users(f) = {}
      <4>1. ASSUME NEW q \in users(f)
            PROVE  FALSE
        <5>1. <<t, q>> \in DataMappings(f)
          BY <1>2, <4>1 DEF DataMappings
        <5>2. QED
          BY <3>1, <3>3, <5>1
      <4>2. QED
        BY <4>1
    <3>5. QED
      BY <1>5, <3>3, <3>4 DEF copies
  <2>2. QED
    BY <1>3, <2>1 DEF Owned
<1>10. QED
  BY <1>1, <1>8, <1>9 DEF CInv

\* An exit leaves no mapping of a frame it frees, except of those it records.
LEMMA ExitCounts ==
  ASSUME CInv, NEW t \in Slot, sys_exit(t)
  PROVE  CInv'
<1> DEFINE freed == freeable({get_frame(t, p) : p \in DataPage})
<1>1. IInv /\ IInv' /\ Counted /\ Owned
  BY ExitSafe DEF CInv
<1>2. /\ t \in live /\ live' = live \ {t}
      /\ phys_mem' = [f \in Frame |-> IF f \in freed THEN 0 ELSE phys_mem[f]]
      /\ freed_shared' =
           freed_shared \cup {f \in freed : \E m \in DataMappings(f) : m[1] # t}
  BY DEF sys_exit
<1>3. \A s \in live' : pagusr_table'[s] = pagusr_table[s]
  BY <1>1, <1>2 DEF sys_exit, IInv, TypeOK
<1>4. \A p \in DataPage : get_frame(t, p) \in Frame => get_frame(t, p) \in freed
  <2>1. ASSUME NEW p \in DataPage, get_frame(t, p) \in Frame
        PROVE  get_frame(t, p) > NUM_PAG_KERNEL /\ get_frame(t, p) < TOTAL_FRAMES
    <3>1. get_frame(t, p) \in Frame \ Reserved
      BY <1>1, <1>2, <2>1, DataFrames
    <3>2. NUM_PAG_KERNEL \in CodeFrame
      <4>1. BootFrame(0) = NUM_PAG_KERNEL /\ 0 \in 0 .. NUM_PAG_CODE - 1
        BY Sizes DEF BootFrame
      <4>2. QED
        BY <4>1 DEF CodeFrame
    <3>3. QED
      BY <3>1, <3>2, Sizes DEF Reserved, KernelPage, Frame
  <2>2. QED
    BY <2>1 DEF freeable
<1> HIDE DEF freed
<1>5. ASSUME NEW f \in Frame \ freed_shared', Mapping(f)'
      PROVE  /\ f \in Frame \ freed_shared /\ Mapping(f)
             /\ phys_mem'[f] = phys_mem[f]
             /\ DataMappings(f)' = DataMappings(f)
  <2>1. PICK s \in live', p \in DataPage : get_frame(s, p) = f
    BY <1>3, <1>5 DEF Mapping, get_frame
  <2>2. <<s, p>> \in DataMappings(f) /\ s # t /\ <<s, p>>[1] = s
    BY <1>2, <2>1 DEF DataMappings
  <2>3. f \notin freed /\ f \notin freed_shared
    BY <1>2, <2>2
  <2>4. \A q \in DataPage : get_frame(t, q) # f
    BY <1>4, <2>3
  <2>5. DataMappings(f)' = DataMappings(f)
    <3>1. \A m \in DataMappings(f) : m[1] # t
      BY <2>4 DEF DataMappings
    <3>2. QED
      BY <1>2, <1>3, <3>1 DEF DataMappings, get_frame
  <2>6. QED
    BY <1>2, <2>1, <2>3, <2>5 DEF Mapping
<1>6. Counted'
  BY <1>1, <1>5 DEF Counted
<1>7. Owned'
  <2>1. ASSUME NEW f \in Frame \ freed_shared', NEW s \in live', NEW p \in DataPage,
               get_frame(s, p)' = f, Writable(s, p)'
        PROVE  DataMappings(f)' = {<<s, p>>}
    <3>1. Mapping(f)'
      BY <2>1 DEF Mapping
    <3>2. s \in live /\ get_frame(s, p) = f /\ Writable(s, p)
      BY <1>2, <1>3, <2>1 DEF get_frame, Writable
    <3>3. QED
      BY <1>1, <1>5, <3>1, <3>2 DEF Owned
  <2>2. QED
    BY <2>1 DEF Owned
<1>8. QED
  BY <1>1, <1>6, <1>7 DEF CInv

\* What a copy does: the process gets a free frame of its own, or none if there is
\* none, and the old frame has one user less.
LEMMA CopyTables ==
  ASSUME IInv, NEW t \in live, NEW p \in Page, ~Writable(t, p),
         phys_mem[get_frame(t, p)] > 1, copy_on_write(t, p)
  PROVE  /\ p \in DataPage /\ get_frame(t, p) \in Frame
         /\ \E new \in Frame \cup {NoFrame} :
               /\ new # get_frame(t, p)
               /\ new \in Frame => phys_mem[new] = 0
               /\ new = NoFrame => free_frames(phys_mem) = {}
               /\ phys_mem' = [g \in Frame |->
                                 IF g = new THEN 1
                                 ELSE IF g = get_frame(t, p) THEN phys_mem[g] - 1
                                 ELSE phys_mem[g]]
               /\ get_frame(t, p)' = new
               /\ \E target \in {new} \cup
                        (IF pagusr_table[t][pagina_a_usar].present
                         THEN {get_frame(t, pagina_a_usar)} ELSE {}) :
                     content' = [g \in Frame |->
                                   IF g = target THEN content[get_frame(t, p)]
                                                 ELSE content[g]]
         /\ \A s \in live : \A q \in DataPage :
               s # t \/ q # p => pagusr_table'[s][q] = pagusr_table[s][q]
         /\ pagusr_table'[t][pagina_a_usar]
              = IF pagusr_table[t][pagina_a_usar].present
                THEN Mapped(get_frame(t, pagina_a_usar)) ELSE Absent
         /\ \A q \in Page \ {p, pagina_a_usar} :
               pagusr_table'[t][q] = pagusr_table[t][q]
         /\ \A s \in Slot \ {t} : pagusr_table'[s] = pagusr_table[s]
         /\ UNCHANGED status
<1> DEFINE f == get_frame(t, p)
           pm == [phys_mem EXCEPT ![f] = (@ - 1) % 256]
           temp == pagusr_table[t][pagina_a_usar]
           left == IF temp.present THEN Mapped(temp.frame) ELSE Absent
<1>1. /\ t \in Slot /\ pagusr_table \in [Slot -> [Page -> Entry]]
      /\ phys_mem \in [Frame -> 0 .. 255] /\ live \subseteq Slot
  BY DEF IInv, TypeOK
<1>2. f \in Frame /\ f \notin Reserved
  BY FaultFrame DEF IInv, ReservedKept
<1>3. p \in DataPage /\ p # pagina_a_usar /\ pagina_a_usar \in Page
      /\ pagina_a_usar \notin DataPage
  BY <1>2, OnlyDataCopied, Pages
<1>4. /\ pm = [phys_mem EXCEPT ![f] = phys_mem[f] - 1]
      /\ pm[f] # 0
  <2>1. phys_mem[f] \in 2 .. 255
    BY <1>1, <1>2
  <2>2. (phys_mem[f] - 1) % 256 = phys_mem[f] - 1
    BY <2>1
  <2>3. pm = [phys_mem EXCEPT ![f] = phys_mem[f] - 1]
    <3>1. pm = [phys_mem EXCEPT ![f] = (phys_mem[f] - 1) % 256]
      BY <1>1, <1>2
    <3>2. QED
      BY <3>1, <2>2
  <2>4. pm[f] = phys_mem[f] - 1
    BY <1>1, <1>2, <2>3
  <2>5. QED
    BY <2>1, <2>3, <2>4
<1>5. \A g \in Frame : pm[g] = (IF g = f THEN phys_mem[g] - 1 ELSE phys_mem[g])
                       /\ (pm[g] = 0 <=> phys_mem[g] = 0)
  BY <1>1, <1>2, <1>4
<1>6. free_frames(pm) = free_frames(phys_mem)
  BY <1>5 DEF free_frames
<1> HIDE DEF pm
<1>7. PICK new \in IF free_frames(pm) = {} THEN {NoFrame} ELSE alloc_frames(pm, 1) :
        /\ phys_mem' = [g \in Frame |-> IF g = new THEN 1 ELSE pm[g]]
        /\ pagusr_table' = [pagusr_table EXCEPT ![t][pagina_a_usar] = left,
                                                ![t][p] = Mapped(new)]
        /\ \E target \in {new} \cup (IF temp.present THEN {temp.frame} ELSE {}) :
              content' = [g \in Frame |-> IF g = target THEN content[f]
                                                        ELSE content[g]]
  BY DEF copy_on_write, pm
<1>8. status' = status
  BY DEF copy_on_write
<1>9. /\ new \in Frame \cup {NoFrame} /\ new # f
      /\ new \in Frame => phys_mem[new] = 0
      /\ new = NoFrame => free_frames(phys_mem) = {}
  <2>1. CASE free_frames(pm) = {}
    BY <1>2, <1>6, <1>7, <2>1, BootFrames
  <2>2. CASE free_frames(pm) # {}
    <3>1. new \in Frame /\ pm[new] = 0
      BY <1>7, <2>2, Allocated
    <3>2. QED
      BY <1>4, <1>5, <3>1, BootFrames
  <2>3. QED
    BY <2>1, <2>2
<1>10. phys_mem' = [g \in Frame |-> IF g = new THEN 1
                                    ELSE IF g = f THEN phys_mem[g] - 1
                                    ELSE phys_mem[g]]
  BY <1>5, <1>7
<1> DEFINE middle == [pagusr_table[t] EXCEPT ![pagina_a_usar] = left]
           table == [middle EXCEPT ![p] = Mapped(new)]
<1>11. pagusr_table' = [pagusr_table EXCEPT ![t] = table]
  BY <1>1, <1>7
<1> HIDE DEF left
<1>12. /\ table[p] = Mapped(new) /\ table[pagina_a_usar] = left
       /\ \A q \in Page \ {pagina_a_usar, p} : table[q] = pagusr_table[t][q]
  BY <1>1, <1>3
<1> HIDE DEF table
<1>13. /\ pagusr_table'[t] = table
       /\ \A s \in Slot \ {t} : pagusr_table'[s] = pagusr_table[s]
  BY <1>1, <1>11
<1>14. get_frame(t, p)' = new
  BY <1>9, <1>12, <1>13, Entries DEF get_frame
<1>15. \A s \in live : \A q \in DataPage :
          s # t \/ q # p => pagusr_table'[s][q] = pagusr_table[s][q]
  BY <1>1, <1>3, <1>12, <1>13, Pages
<1>16. pagusr_table'[t][pagina_a_usar]
         = IF temp.present THEN Mapped(temp.frame) ELSE Absent
  BY <1>12, <1>13 DEF left
<1>17. /\ \A q \in Page \ {p, pagina_a_usar} :
             pagusr_table'[t][q] = pagusr_table[t][q]
  BY <1>12, <1>13
<1>18. \E target \in {new} \cup (IF temp.present THEN {temp.frame} ELSE {}) :
          content' = [g \in Frame |-> IF g = target THEN content[f] ELSE content[g]]
  BY <1>7
<1>19. temp.frame = get_frame(t, pagina_a_usar)
  BY DEF get_frame
<1> HIDE DEF f, temp
<1>20. \E n \in Frame \cup {NoFrame} :
          /\ n # f
          /\ n \in Frame => phys_mem[n] = 0
          /\ n = NoFrame => free_frames(phys_mem) = {}
          /\ phys_mem' = [g \in Frame |-> IF g = n THEN 1
                                          ELSE IF g = f THEN phys_mem[g] - 1
                                          ELSE phys_mem[g]]
          /\ get_frame(t, p)' = n
          /\ \E target \in {n} \cup (IF temp.present THEN {temp.frame} ELSE {}) :
                content' = [g \in Frame |-> IF g = target THEN content[f]
                                                         ELSE content[g]]
  BY <1>9, <1>10, <1>14, <1>18
<1>21. QED
  BY <1>2, <1>3, <1>8, <1>13, <1>15, <1>16, <1>17, <1>19, <1>20 DEF f, temp

\* A fault makes a page writable only when its frame has one user, which is this
\* page, and otherwise gives the page a frame that nobody maps.
LEMMA PagefaultCounts ==
  ASSUME CInv, NEW t \in Slot, NEW p \in Page, pagefault_routine(t, p)
  PROVE  CInv'
<1> DEFINE f == get_frame(t, p)
<1>1. IInv /\ IInv' /\ Counted /\ Owned
  BY PagefaultSafe DEF CInv
<1>2. t \in live /\ live' = live /\ freed_shared' = freed_shared /\ ~Writable(t, p)
  BY DEF pagefault_routine
<1>3. /\ pagusr_table \in [Slot -> [Page -> Entry]] /\ live \subseteq Slot
      /\ phys_mem \in [Frame -> 0 .. 255]
  BY <1>1 DEF IInv, TypeOK
<1>4. f \in Frame
  BY <1>1, <1>2, FaultFrame
<1>5. CASE UNCHANGED <<pagusr_table, phys_mem, content>>
  BY <1>1, <1>2, <1>5, SameData DEF CInv
<1>6. CASE /\ phys_mem[f] = 1
           /\ pagusr_table' = [pagusr_table EXCEPT ![t][p].rw = TRUE]
           /\ UNCHANGED <<phys_mem, content, status>>
  <2>1. \A s \in Slot : \A q \in Page :
           /\ pagusr_table'[s][q].frame = pagusr_table[s][q].frame
           /\ s # t \/ q # p => pagusr_table'[s][q] = pagusr_table[s][q]
    <3> DEFINE e == [pagusr_table[t][p] EXCEPT !.rw = TRUE]
               table == [pagusr_table[t] EXCEPT ![p] = e]
    <3>1. e.frame = pagusr_table[t][p].frame
      BY <1>3 DEF Entry
    <3>2. pagusr_table' = [pagusr_table EXCEPT ![t] = table]
      BY <1>6
    <3> HIDE DEF e
    <3>3. table[p] = e /\ \A q \in Page \ {p} : table[q] = pagusr_table[t][q]
      BY <1>3
    <3> HIDE DEF table
    <3>4. QED
      BY <1>3, <3>1, <3>2, <3>3
  <2>2. \A s \in live : \A q \in DataPage : get_frame(s, q)' = get_frame(s, q)
    BY <1>3, <2>1, Pages DEF get_frame
  <2>3. \A g : DataMappings(g)' = DataMappings(g) /\ (Mapping(g)' <=> Mapping(g))
    BY <1>2, <2>2 DEF DataMappings, Mapping
  <2>4. Counted'
    BY <1>1, <1>2, <1>6, <2>3 DEF Counted
  <2>5. ASSUME NEW g \in Frame \ freed_shared, NEW s \in live, NEW q \in DataPage,
               get_frame(s, q)' = g, Writable(s, q)'
        PROVE  DataMappings(g)' = {<<s, q>>}
    <3>1. get_frame(s, q) = g
      BY <2>2, <2>5
    <3>2. CASE s = t /\ q = p
      <4>1. <<t, p>> \in DataMappings(g) /\ Mapping(g) /\ g = f
        BY <1>2, <3>1, <3>2 DEF DataMappings, Mapping
      <4>2. Cardinality(DataMappings(g)) = 1
        BY <1>1, <1>6, <4>1 DEF Counted
      <4>3. \E x : DataMappings(g) = {x}
        BY <1>1, <4>2, MappingCounts, FS_Singleton
      <4>4. QED
        BY <2>3, <3>2, <4>1, <4>3
    <3>3. CASE s # t \/ q # p
      <4>1. Writable(s, q)
        BY <1>3, <2>1, <2>5, <3>3, Pages DEF Writable
      <4>2. QED
        BY <1>1, <2>3, <3>1, <4>1 DEF Owned
    <3>4. QED
      BY <3>2, <3>3
  <2>6. Owned'
    BY <1>2, <2>5 DEF Owned
  <2>7. QED
    BY <1>1, <2>4, <2>6 DEF CInv
<1>7. CASE phys_mem[f] > 1 /\ copy_on_write(t, p)
  <2>1. p \in DataPage
    BY <1>1, <1>2, <1>7, CopyTables
  <2>2. ASSUME NEW new \in Frame \cup {NoFrame}, new # f,
               new \in Frame => phys_mem[new] = 0,
               phys_mem' = [g \in Frame |-> IF g = new THEN 1
                                            ELSE IF g = f THEN phys_mem[g] - 1
                                            ELSE phys_mem[g]],
               get_frame(t, p)' = new,
               \A s \in live : \A q \in DataPage :
                  s # t \/ q # p => pagusr_table'[s][q] = pagusr_table[s][q]
        PROVE  CInv'
    <3>1. /\ new \in Frame => phys_mem'[new] = 1
          /\ phys_mem'[f] = phys_mem[f] - 1
          /\ \A g \in Frame \ {f, new} : phys_mem'[g] = phys_mem[g]
      BY <1>3, <1>4, <2>2
    <3>2. \A s \in live : \A q \in DataPage :
             s # t \/ q # p => /\ get_frame(s, q)' = get_frame(s, q)
                               /\ Writable(s, q)' <=> Writable(s, q)
      BY <2>2 DEF get_frame, Writable
    <3>3. ASSUME NEW g
          PROVE  DataMappings(g)' = (DataMappings(g) \ {<<t, p>>})
                                      \cup IF g = new THEN {<<t, p>>} ELSE {}
      <4>1. ASSUME NEW s \in live, NEW q \in DataPage
            PROVE  get_frame(s, q)' = g <=>
                     IF s = t /\ q = p THEN g = new ELSE get_frame(s, q) = g
        BY <2>2, <3>2
      <4>2. DataMappings(g)' = {m \in live \X DataPage : get_frame(m[1], m[2])' = g}
        BY <1>2 DEF DataMappings
      <4>3. \A m \in live \X DataPage :
               get_frame(m[1], m[2])' = g <=>
                 IF m = <<t, p>> THEN g = new ELSE get_frame(m[1], m[2]) = g
        BY <1>2, <2>1, <2>2, <4>1
      <4>4. <<t, p>> \in live \X DataPage
        BY <1>2, <2>1
      <4>5. QED
        BY <4>2, <4>3, <4>4 DEF DataMappings
    <3>4. <<t, p>> \in DataMappings(f) /\ Mapping(f)
          /\ \A g : g # f => <<t, p>> \notin DataMappings(g)
      BY <1>2, <2>1 DEF DataMappings, Mapping
    <3>5. new \in Frame => new \in freed_shared \/ DataMappings(new) = {}
      <4>1. ASSUME new \in Frame, new \notin freed_shared, Mapping(new)
            PROVE  FALSE
        <5>1. Cardinality(DataMappings(new)) = 0
          BY <1>1, <2>2, <4>1 DEF Counted
        <5>2. QED
          BY <1>1, <4>1, <5>1, MappingCounts DEF Mapping
      <4>2. ~Mapping(new) => DataMappings(new) = {}
        BY DEF DataMappings, Mapping
      <4>3. QED
        BY <4>1, <4>2
    <3>6. ASSUME NEW g \in Frame \ freed_shared, Mapping(g)'
          PROVE  phys_mem'[g] = Cardinality(DataMappings(g)')
      <4>1. CASE g = new
        <5>1. DataMappings(g)' = {<<t, p>>}
          BY <3>3, <3>5, <3>6, <4>1
        <5>2. QED
          BY <3>1, <4>1, <5>1, FS_Singleton
      <4>2. CASE g = f
        <5>1. DataMappings(g)' = DataMappings(g) \ {<<t, p>>}
          BY <2>2, <3>3, <4>2
        <5>2. phys_mem[g] = Cardinality(DataMappings(g))
          BY <1>1, <3>4, <3>6, <4>2 DEF Counted
        <5>3. Cardinality(DataMappings(g) \ {<<t, p>>}) = Cardinality(DataMappings(g)) - 1
          BY <1>1, <3>4, <4>2, MappingCounts, FS_RemoveElement
        <5>4. QED
          BY <3>1, <4>2, <5>1, <5>2, <5>3
      <4>3. CASE g # new /\ g # f
        <5>1. DataMappings(g)' = DataMappings(g)
          BY <3>3, <3>4, <4>3
        <5>2. Mapping(g)
          <6>1. PICK s \in live, q \in DataPage : get_frame(s, q)' = g
            BY <1>2, <3>6 DEF Mapping
          <6>2. s # t \/ q # p
            BY <2>2, <4>3, <6>1
          <6>3. QED
            BY <3>2, <6>1, <6>2 DEF Mapping
        <5>3. QED
          BY <1>1, <3>1, <4>3, <5>1, <5>2 DEF Counted
      <4>4. QED
        BY <4>1, <4>2, <4>3
    <3>7. Counted'
      BY <1>2, <3>6 DEF Counted
    <3>8. ASSUME NEW g \in Frame \ freed_shared, NEW s \in live, NEW q \in DataPage,
                 get_frame(s, q)' = g, Writable(s, q)'
          PROVE  DataMappings(g)' = {<<s, q>>}
      <4>1. CASE s = t /\ q = p
        <5>1. g = new
          BY <2>2, <3>8, <4>1
        <5>2. QED
          BY <3>3, <3>5, <3>8, <4>1, <5>1
      <4>2. CASE s # t \/ q # p
        <5>1. get_frame(s, q) = g /\ Writable(s, q)
          BY <3>2, <3>8, <4>2
        <5>2. DataMappings(g) = {<<s, q>>}
          BY <1>1, <3>8, <5>1 DEF Owned
        <5>3. g # f
          BY <3>4, <4>2, <5>2
        <5>4. g # new
          BY <3>5, <3>8, <5>2
        <5>5. QED
          BY <3>3, <3>4, <5>2, <5>3, <5>4
      <4>3. QED
        BY <4>1, <4>2
    <3>9. Owned'
      BY <1>2, <3>8 DEF Owned
    <3>10. QED
      BY <1>1, <3>7, <3>9 DEF CInv
  <2>3. QED
    BY <1>1, <1>2, <1>7, <2>2, CopyTables
<1>8. QED
  BY <1>5, <1>6, <1>7 DEF pagefault_routine

\* The other operations leave the data entries of live processes alone.
LEMMA OtherCounts ==
  ASSUME CInv, IInv', NEW t \in Slot,
         \/ \E c \in Slot : sys_fork_EAGAIN(t, c)
         \/ sys_fork_out_of_bounds(t)
         \/ \E p \in UserPages, v \in Value :
               user_store(t, p, v) \/ copy_to_user(t, p, v)
         \/ \E id \in Shm, p \in ShmatPages : sys_shmat(t, id, p)
         \/ \E p \in ShmatPages : sys_shmdt(t, p)
         \/ \E id \in 0 .. NSHM : sys_shmrm(t, id)
  PROVE  /\ CInv'
         /\ \A s \in live : \A q \in DataPage : pagusr_table'[s][q] = pagusr_table[s][q]
<1>1. /\ IInv /\ DataApart /\ pagusr_table \in [Slot -> [Page -> Entry]]
      /\ live \subseteq Slot
  BY DEF CInv, IInv, TypeOK
<1>2. UNCHANGED <<live, phys_mem, freed_shared>>
  BY DEF sys_fork_EAGAIN, sys_fork_out_of_bounds, user_store, copy_to_user, Put,
         sys_shmat, sys_shmdt, sys_shmrm
<1>3. \A s \in live : \A q \in DataPage : pagusr_table'[s][q] = pagusr_table[s][q]
  <2>1. ASSUME NEW c \in Slot, sys_fork_EAGAIN(t, c)
        PROVE  \A s \in live : pagusr_table'[s] = pagusr_table[s]
    BY <1>1, <2>1 DEF sys_fork_EAGAIN
  <2>2. ASSUME NEW p, NEW v, Put(t, p, v)
        PROVE  pagusr_table' = pagusr_table
    BY <2>2 DEF Put
  <2>3. ASSUME NEW id \in Shm, NEW p \in ShmatPages, sys_shmat(t, id, p)
        PROVE  \A s \in live : \A q \in DataPage : pagusr_table'[s][q] = pagusr_table[s][q]
    <3>1. PICK r \in p .. TOTAL_PAGES - 1 :
            /\ ~pagusr_table[t][r].present
            /\ pagusr_table' = [pagusr_table EXCEPT ![t][r] = Mapped(shm_frame(id))]
      BY <2>3 DEF sys_shmat
    <3>2. t \in live
      BY <2>3 DEF sys_shmat
    <3>3. r \notin DataPage
      BY <1>1, <3>1, <3>2 DEF DataApart
    <3>4. QED
      BY <1>1, <3>1, <3>3
  <2>4. ASSUME NEW p \in ShmatPages, sys_shmdt(t, p)
        PROVE  \A s \in live : \A q \in DataPage : pagusr_table'[s][q] = pagusr_table[s][q]
    <3>1. /\ t \in live /\ \E id \in Shm : shm_frame(id) = get_frame(t, p)
          /\ \/ UNCHANGED pagusr_table
             \/ pagusr_table' = [pagusr_table EXCEPT ![t][p] = Absent]
      BY <2>4 DEF sys_shmdt
    <3>2. p \notin DataPage
      BY <1>1, <3>1, ShmFrames DEF DataApart, Reserved
    <3>3. CASE UNCHANGED pagusr_table
      BY <3>3
    <3>4. CASE pagusr_table' = [pagusr_table EXCEPT ![t][p] = Absent]
      <4>1. SUFFICES ASSUME NEW s \in live, NEW q \in DataPage
                     PROVE  pagusr_table'[s][q] = pagusr_table[s][q]
        OBVIOUS
      <4>2. /\ s \in Slot /\ q # p
            /\ pagusr_table[t] \in [Page -> Entry]
            /\ pagusr_table'
                 = [pagusr_table EXCEPT ![t] = [pagusr_table[t] EXCEPT ![p] = Absent]]
        BY <1>1, <3>2, <3>4
      <4>3. q \in Page
        BY Pages
      <4>4. QED
        BY <1>1, <4>2, <4>3
    <3>5. QED
      BY <3>1, <3>3, <3>4
  <2>5. ASSUME NEW id, sys_shmrm(t, id)
        PROVE  pagusr_table' = pagusr_table
    BY <2>5 DEF sys_shmrm
  <2>6. ASSUME NEW p \in UserPages, NEW v \in Value,
               user_store(t, p, v) \/ copy_to_user(t, p, v)
        PROVE  pagusr_table' = pagusr_table
    BY <2>6, <2>2 DEF user_store, copy_to_user
  <2>7. CASE \E c \in Slot : sys_fork_EAGAIN(t, c)
    BY <2>7, <2>1
  <2>8. CASE \E p \in UserPages, v \in Value : user_store(t, p, v) \/ copy_to_user(t, p, v)
    BY <2>8, <2>6
  <2>9. CASE \E id \in Shm, p \in ShmatPages : sys_shmat(t, id, p)
    BY <2>9, <2>3
  <2>10. CASE \E p \in ShmatPages : sys_shmdt(t, p)
    BY <2>10, <2>4
  <2>11. CASE \E id \in 0 .. NSHM : sys_shmrm(t, id)
    BY <2>11, <2>5
  <2>12. CASE sys_fork_out_of_bounds(t)
    BY <2>12 DEF sys_fork_out_of_bounds
  <2>13. QED
    BY <2>7, <2>8, <2>9, <2>10, <2>11, <2>12
<1>4. QED
  BY <1>2, <1>3, SameData DEF CInv

\* Every step keeps the counts and the ownership.
LEMMA NextCounts ==
  ASSUME CInv, [Next]_vars
  PROVE  CInv'
<1>1. IInv'
  BY NextSafe DEF CInv
<1>2. ASSUME NEW t \in Slot, NEW c \in Slot, sys_fork(t, c)
      PROVE  CInv'
  BY <1>2, ForkCounts
<1>3. ASSUME NEW t \in Slot, sys_exit(t)
      PROVE  CInv'
  BY <1>3, ExitCounts
<1>4. ASSUME NEW t \in Slot, NEW p \in UserPages, pagefault_routine(t, p)
      PROVE  CInv'
  BY <1>4, PagefaultCounts, MemoryAssumption
<1>5. CASE UNCHANGED vars
  BY <1>1, <1>5, SameData DEF vars, CInv
<1>6. QED
  BY <1>1, <1>2, <1>3, <1>4, <1>5, OtherCounts DEF Next, handler
-----------------------------------------------------------------------------
(* The theorems.                                                           *)

\* The inductive invariant holds in every state of every behaviour.
THEOREM Invariance == Spec => []IInv
<1>1. Init => IInv
  BY InitSafe
<1>2. IInv /\ [Next]_vars => IInv'
  BY NextSafe
<1>3. QED
  BY <1>1, <1>2, PTL DEF Spec

\* Every variable always has its type: the counts of users stay bytes, and page
\* tables map frames.
THEOREM TypeCorrect == Spec => []TypeOK
<1>1. IInv => TypeOK
  BY DEF IInv
<1>2. QED
  BY <1>1, Invariance, PTL

\* The frames of code and of shared regions are never free for alloc_frame.
THEOREM BootFramesAreKept == Spec => []BootFramesKept
<1>1. IInv => BootFramesKept
  BY DEF IInv, ReservedKept, Reserved, BootFramesKept
<1>2. QED
  BY <1>1, Invariance, PTL

\* Every live process runs with the whole kernel mapped one to one.
THEOREM KernelIsMapped == Spec => []KernelMapped
<1>1. IInv => KernelMapped
  BY DEF IInv
<1>2. QED
  BY <1>1, Invariance, PTL

\* Counts and ownership hold in every state of every behaviour.
THEOREM CountsAreKept == Spec => []CInv
<1>1. Init => CInv
  BY InitCounts
<1>2. CInv /\ [Next]_vars => CInv'
  BY NextCounts
<1>3. QED
  BY <1>1, <1>2, PTL DEF Spec

\* The byte map counts the data mappings of every frame that no exit freed while
\* it was shared.
THEOREM CountsAreMappings == Spec => []CountIsMappings
<1>1. CInv => CountIsMappings
  <2>1. SUFFICES ASSUME CInv, NEW t \in live, NEW p \in DataPage, kept(t, p)
                 PROVE  phys_mem[get_frame(t, p)]
                          = Cardinality(DataMappings(get_frame(t, p)))
    BY DEF CountIsMappings
  <2>2. get_frame(t, p) \in Frame \ freed_shared /\ Mapping(get_frame(t, p))
    BY <2>1, DataFrames DEF CInv, Mapping, kept
  <2>3. QED
    BY <2>1, <2>2 DEF CInv, Counted
<1>2. QED
  BY <1>1, CountsAreKept, PTL

\* A data page its process can write is nobody else's.
THEOREM WritableArePrivate == Spec => []WritableIsPrivate
<1>1. CInv => WritableIsPrivate
  <2>1. SUFFICES ASSUME CInv, NEW t \in live, NEW p \in DataPage, Writable(t, p),
                        kept(t, p)
                 PROVE  DataMappings(get_frame(t, p)) = {<<t, p>>}
    BY DEF WritableIsPrivate
  <2>2. get_frame(t, p) \in Frame \ freed_shared
    BY <2>1, DataFrames DEF CInv, kept
  <2>3. QED
    BY <2>1, <2>2 DEF CInv, Owned
<1>2. QED
  BY <1>1, CountsAreKept, PTL
-----------------------------------------------------------------------------
(* The copy-on-write workload: the kernel goes on, and nobody can tell it   *)
(* from copying at fork.                                                    *)

CowInv ==
  /\ CInv
  /\ freed_shared = {} /\ NeverHung

\* The workload takes steps of the module's next-state relation, and nothing is
\* freed under a live process's feet.
LEMMA CowStep ==
  ASSUME [CowNext]_cow_vars
  PROVE  [Next]_vars /\ freed_shared' = freed_shared
BY DEF CowNext, cow_vars, vars, Next, user_store, copy_to_user, Put

\* A frame that a live process has its data in has a user.
LEMMA DataUsed ==
  ASSUME CowInv, NEW t \in live, NEW p \in DataPage, get_frame(t, p) \in Frame
  PROVE  phys_mem[get_frame(t, p)] # 0
<1>1. /\ CInv /\ IInv /\ Counted /\ get_frame(t, p) \in Frame \ freed_shared
      /\ Mapping(get_frame(t, p))
  BY DEF CowInv, CInv, Mapping
<1>2. Cardinality(DataMappings(get_frame(t, p))) # 0
  BY <1>1, MappingCounts
<1>3. QED
  BY <1>1, <1>2 DEF Counted

\* No frame that a fault looks at is marked free.
LEMMA PageUsed ==
  ASSUME CowInv, NEW t \in live, NEW p \in Page, ~Writable(t, p)
  PROVE  phys_mem[get_frame(t, p)] # 0
<1>1. CASE get_frame(t, p) \in Reserved
  BY <1>1 DEF CowInv, CInv, IInv, ReservedKept
<1>2. CASE get_frame(t, p) \notin Reserved
  BY <1>2, OnlyDataCopied, FaultFrame, DataUsed DEF CowInv, CInv
<1>3. QED
  BY <1>1, <1>2

\* No fault finds a frame without users.
LEMMA CowRuns ==
  ASSUME CowInv, [CowNext]_cow_vars
  PROVE  NeverHung'
<1>1. ASSUME NEW t \in Slot, NEW p \in UserPages, pagefault_routine(t, p)
      PROVE  NeverHung'
  <2>1. t \in live /\ p \in Page /\ ~Writable(t, p)
    BY <1>1, MemoryAssumption DEF pagefault_routine
  <2>2. phys_mem[get_frame(t, p)] # 0
    BY <2>1, PageUsed
  <2>3. UNCHANGED status
    BY <1>1, <2>2 DEF pagefault_routine, copy_on_write
  <2>4. QED
    BY <2>3 DEF CowInv, NeverHung
<1>2. CASE UNCHANGED status \/ status' = "out_of_bounds"
  BY <1>2 DEF CowInv, NeverHung
<1>3. \/ \E t \in Slot, p \in UserPages : pagefault_routine(t, p)
      \/ UNCHANGED status \/ status' = "out_of_bounds"
  BY DEF CowNext, handler, cow_vars, vars, sys_fork, sys_fork_EAGAIN,
         sys_fork_out_of_bounds, sys_exit, user_store, copy_to_user, Put,
         sys_shmat, sys_shmdt, sys_shmrm
<1>4. QED
  BY <1>1, <1>2, <1>3

\* The invariant of the workload.
LEMMA CowKeeps ==
  ASSUME CowInv, [CowNext]_cow_vars
  PROVE  CowInv'
<1>1. CInv'
  BY CowStep, NextCounts DEF CowInv
<1>2. QED
  BY <1>1, CowStep, CowRuns DEF CowInv

\* It holds at boot.
LEMMA CowStarts == Init => CowInv
BY InitCounts DEF CowInv, Init, NeverHung

\* The workload's invariant holds in every state of every behaviour.
THEOREM CowInvariance == CowSpec => []CowInv
<1>1. CowInit => CowInv
  BY CowStarts DEF CowInit
<1>2. CowInv /\ [CowNext]_cow_vars => CowInv'
  BY CowKeeps
<1>3. QED
  BY <1>1, <1>2, PTL DEF CowSpec

\* No page fault hangs the kernel when no exit frees a frame others have, not even
\* with no frame left for the copy.
THEOREM NeverHangs == CowSpec => []NeverHung
<1>1. CowInv => NeverHung
  BY DEF CowInv
<1>2. QED
  BY <1>1, CowInvariance, PTL
-----------------------------------------------------------------------------
(* Copying at fork: every step of the workload is one of PrivateMemory, or  *)
(* no change of what the processes see.                                     *)

\* The data pages slot t has, and what it sees in them.
Has(t) == {p \in DataPage : get_frame(t, p) # NoFrame}
Sees(t) == [p \in Has(t) |-> content[get_frame(t, p)]]

\* What the processes see is what each of them sees.
LEMMA WhatIsSeen ==
  /\ data_memory = [t \in live |-> Sees(t)]
  /\ data_memory' = [t \in live' |-> Sees(t)']
  /\ \A t : DOMAIN Sees(t) = Has(t)
BY DEF data_memory, Sees, Has

\* A process whose frames stay, with what they hold, sees nothing.
LEMMA SeesTheSame ==
  ASSUME NEW t,
         \A q \in DataPage : get_frame(t, q)' = get_frame(t, q),
         \A q \in Has(t) : content'[get_frame(t, q)] = content[get_frame(t, q)]
  PROVE  Sees(t)' = Sees(t)
<1>1. Has(t)' = Has(t)
  BY DEF Has
<1>2. Has(t) \subseteq DataPage
  BY DEF Has
<1>3. QED
  BY <1>1, <1>2 DEF Sees

\* A step after which all processes see the same shows nothing.
LEMMA NothingSeen ==
  ASSUME live' = live, \A s \in live : Sees(s)' = Sees(s)
  PROVE  UNCHANGED <<live, data_memory>>
BY WhatIsSeen

\* The data of live processes is on frames with contents, none reserved.
LEMMA DataContents ==
  ASSUME CowInv
  PROVE  /\ content \in [Frame -> Value]
         /\ \A s \in live : \A q \in Has(s) :
               q \in DataPage /\ get_frame(s, q) \in Frame \ Reserved
BY DataFrames DEF CowInv, CInv, IInv, TypeOK, Has

\* The child sees what its parent sees, and the parent has all its pages.
LEMMA ForkCopies ==
  ASSUME CowInv, NEW t \in Slot, NEW c \in Slot, sys_fork(t, c), stored' = stored
  PROVE  t \in live /\ c \in Slot \ live /\ Private!Fork(t, c)
<1>1. /\ t \in live /\ c \in Slot \ live /\ live' = live \cup {c}
      /\ \A p \in DataPage : /\ get_frame(c, p)' = get_frame(t, p)
                             /\ get_frame(t, p)' = get_frame(t, p)
      /\ \A s \in live \ {t} : pagusr_table'[s] = pagusr_table[s]
  BY ForkTables DEF CowInv, CInv
<1>2. content' = content /\ \A p \in DataPage : get_frame(t, p) # NoFrame
  BY DEF sys_fork
<1>3. Has(t) = DataPage
  BY <1>2 DEF Has
<1>4. ASSUME NEW s \in live
      PROVE  Sees(s)' = Sees(s)
  <2>1. \A p \in DataPage : get_frame(s, p)' = get_frame(s, p)
    BY <1>1 DEF get_frame
  <2>2. QED
    BY <1>2, <2>1, SeesTheSame
<1>5. Sees(c)' = Sees(t)
  <2>1. Has(c)' = Has(t)
    BY <1>1 DEF Has
  <2>2. QED
    BY <1>1, <1>2, <1>3, <2>1 DEF Sees
<1>6. data_memory' = [u \in live' |-> IF u = c THEN data_memory[t] ELSE data_memory[u]]
  BY <1>1, <1>4, <1>5, WhatIsSeen
<1>7. DOMAIN data_memory[t] = DataPage
  BY <1>1, <1>3, WhatIsSeen
<1>8. QED
  BY <1>1, <1>6, <1>7 DEF Private!Fork

\* An exit shows the others nothing.
LEMMA ExitLeaves ==
  ASSUME CowInv, NEW t \in Slot, sys_exit(t), stored' = stored
  PROVE  t \in live /\ Private!Exit(t)
<1>1. t \in live /\ live' = live \ {t} /\ content' = content
  BY DEF sys_exit
<1>2. \A s \in live' : pagusr_table'[s] = pagusr_table[s]
  BY <1>1 DEF sys_exit, CowInv, CInv, IInv, TypeOK
<1>3. \A s \in live' : Sees(s)' = Sees(s)
  BY <1>1, <1>2, SeesTheSame DEF get_frame
<1>4. data_memory' = [u \in live' |-> data_memory[u]]
  BY <1>1, <1>3, WhatIsSeen
<1>5. QED
  BY <1>1, <1>4 DEF Private!Exit

\* A fault that makes a page writable shows nothing.
LEMMA RightShowsNothing ==
  ASSUME CowInv, NEW t \in live, NEW p \in Page, live' = live, content' = content,
         pagusr_table' = [pagusr_table EXCEPT ![t][p].rw = TRUE]
  PROVE  UNCHANGED <<live, data_memory>>
<1>1. /\ pagusr_table \in [Slot -> [Page -> Entry]] /\ live \subseteq Slot
      /\ pagusr_table[t] \in [Page -> Entry] /\ pagusr_table[t][p] \in Entry
  BY DEF CowInv, CInv, IInv, TypeOK
<1>2. pagusr_table' = [pagusr_table EXCEPT ![t] =
         [pagusr_table[t] EXCEPT ![p] = [pagusr_table[t][p] EXCEPT !.rw = TRUE]]]
  BY <1>1
<1>3. [pagusr_table[t][p] EXCEPT !.rw = TRUE].frame = pagusr_table[t][p].frame
  BY <1>1 DEF Entry
<1>4. ASSUME NEW s \in live, NEW q \in DataPage
      PROVE  pagusr_table'[s][q].frame = pagusr_table[s][q].frame
  <2>1. CASE s = t /\ q = p
    BY <1>1, <1>2, <1>3, <2>1
  <2>2. CASE s # t \/ q # p
    BY <1>1, <1>2, <2>2
  <2>3. QED
    BY <2>1, <2>2
<1>5. \A s \in live : Sees(s)' = Sees(s)
  BY <1>4, SeesTheSame DEF get_frame
<1>6. QED
  BY <1>5, NothingSeen

\* A copy: the new frame was nobody's and holds what the old one held, which shows
\* nothing.  With the window in use the contents may be in the attached region
\* instead; with no frame free the page is gone.  Nobody else sees either.
LEMMA CopyIsPrivate ==
  ASSUME CowInv, NEW t \in live, NEW p \in Page, live' = live, stored' = stored,
         ~Writable(t, p), phys_mem[get_frame(t, p)] > 1, copy_on_write(t, p)
  PROVE  Private!Next \/ UNCHANGED <<live, data_memory, stored>>
<1> DEFINE f == get_frame(t, p)
           temp == get_frame(t, pagina_a_usar)
<1>1. IInv /\ t \in Slot /\ live \subseteq Slot
  BY DEF CowInv, CInv, IInv, TypeOK
<1>2. /\ p \in DataPage /\ f \in Frame
      /\ \A s \in live : \A q \in DataPage :
            s # t \/ q # p => pagusr_table'[s][q] = pagusr_table[s][q]
  BY <1>1, CopyTables
<1>3. PICK new \in Frame \cup {NoFrame} :
        /\ new # f
        /\ new \in Frame => phys_mem[new] = 0
        /\ new = NoFrame => free_frames(phys_mem) = {}
        /\ get_frame(t, p)' = new
        /\ \E target \in {new} \cup
                 (IF pagusr_table[t][pagina_a_usar].present THEN {temp} ELSE {}) :
              content' = [g \in Frame |-> IF g = target THEN content[f]
                                                        ELSE content[g]]
  BY <1>1, CopyTables
<1>4. PICK target \in {new} \cup
                (IF pagusr_table[t][pagina_a_usar].present THEN {temp} ELSE {}) :
        content' = [g \in Frame |-> IF g = target THEN content[f] ELSE content[g]]
  BY <1>3
<1>5. temp \in Reserved
  BY <1>1, Pages DEF IInv, OthersReserved
<1> HIDE DEF temp
<1>6. ASSUME NEW s \in live, NEW q \in Has(s)
      PROVE  /\ q \in DataPage /\ get_frame(s, q) \in Frame
             /\ get_frame(s, q) # target /\ get_frame(s, q) # new
             /\ content'[get_frame(s, q)] = content[get_frame(s, q)]
  <2>1. q \in DataPage /\ get_frame(s, q) \in Frame \ Reserved
    BY DataContents
  <2>2. get_frame(s, q) # new
    BY <1>3, <2>1, DataUsed
  <2>3. get_frame(s, q) # target
    BY <1>4, <1>5, <2>1, <2>2
  <2>4. QED
    BY <1>4, <2>1, <2>2, <2>3
<1>7. ASSUME NEW s \in live \ {t}
      PROVE  Sees(s)' = Sees(s)
  <2>1. \A q \in DataPage : get_frame(s, q)' = get_frame(s, q)
    BY <1>2 DEF get_frame
  <2>2. QED
    BY <1>6, <2>1, SeesTheSame
<1>8. /\ p \in Has(t)
      /\ \A q \in DataPage \ {p} : get_frame(t, q)' = get_frame(t, q)
      /\ Has(t)' = (Has(t) \ {p}) \cup (IF new = NoFrame THEN {} ELSE {p})
  <2>1. \A q \in DataPage \ {p} : get_frame(t, q)' = get_frame(t, q)
    BY <1>2 DEF get_frame
  <2>2. f # NoFrame
    BY <1>2, BootFrames
  <2>3. QED
    BY <1>2, <1>3, <2>1, <2>2 DEF Has
<1>9. \A q \in Has(t) \ {p} : content'[get_frame(t, q)'] = content[get_frame(t, q)]
  BY <1>6, <1>8
<1>10. DOMAIN data_memory[t] = Has(t) /\ data_memory[t] = Sees(t)
  BY WhatIsSeen
<1>11. CASE new = NoFrame
  <2>1. Sees(t)' = [q \in Has(t) \ {p} |-> Sees(t)[q]]
    <3>1. Has(t)' = Has(t) \ {p}
      BY <1>8, <1>11
    <3>2. QED
      BY <1>9, <3>1 DEF Sees
  <2>2. data_memory' = [s \in live |-> IF s = t THEN [q \in Has(t) \ {p} |-> Sees(t)[q]]
                                                ELSE Sees(s)]
    BY <1>7, <2>1, WhatIsSeen
  <2>3. data_memory' =
          [data_memory EXCEPT ![t] = [q \in Has(t) \ {p} |-> Sees(t)[q]]]
    BY <2>2, WhatIsSeen
  <2>4. Private!Lose(t, p)
    BY <1>3, <1>10, <1>11, <2>3 DEF Private!Lose
  <2>5. QED
    BY <1>2, <2>4 DEF Private!Next
<1>12. CASE new # NoFrame
  <2>1. new \in Frame /\ Has(t)' = Has(t)
    BY <1>3, <1>8, <1>12
  <2>2. Sees(t)' = [q \in Has(t) |-> IF q = p THEN content'[new] ELSE Sees(t)[q]]
    BY <1>3, <1>8, <1>9, <2>1 DEF Sees
  <2>3. CASE target = new
    <3>1. content'[new] = Sees(t)[p]
      BY <1>4, <1>8, <2>1, <2>3 DEF Sees
    <3>2. Sees(t)' = Sees(t)
      BY <2>2, <3>1 DEF Sees
    <3>3. QED
      BY <1>7, <3>2, NothingSeen
  <2>4. CASE target # new
    <3>1. t \in window_users
      BY <1>4, <2>4 DEF window_users
    <3>2. content'[new] \in Value
      BY <1>4, <2>1, <2>4, DataContents
    <3>3. data_memory' =
            [s \in live |-> IF s = t
                            THEN [q \in Has(t) |-> IF q = p THEN content'[new]
                                                            ELSE Sees(t)[q]]
                            ELSE Sees(s)]
      BY <1>7, <2>2, WhatIsSeen
    <3>4. data_memory' = [data_memory EXCEPT ![t][p] = content'[new]]
      <4>1. [Sees(t) EXCEPT ![p] = content'[new]]
              = [q \in Has(t) |-> IF q = p THEN content'[new] ELSE Sees(t)[q]]
        BY DEF Sees
      <4>2. QED
        BY <3>3, <4>1, WhatIsSeen
    <3>5. Private!Miscopy(t, p, content'[new])
      BY <1>8, <1>10, <3>1, <3>4 DEF Private!Miscopy
    <3>6. QED
      BY <1>2, <3>2, <3>5 DEF Private!Next
  <2>5. QED
    BY <2>3, <2>4
<1>13. QED
  BY <1>11, <1>12

\* A fault shows nothing, or harms the page it is on.
LEMMA FaultIsPrivate ==
  ASSUME CowInv, NEW t \in Slot, NEW p \in Page, pagefault_routine(t, p),
         stored' = stored
  PROVE  Private!Next \/ UNCHANGED <<live, data_memory, stored>>
<1>1. t \in live /\ live' = live /\ ~Writable(t, p)
  BY DEF pagefault_routine
<1>2. phys_mem[get_frame(t, p)] # 0
  BY <1>1, PageUsed
<1>3. CASE /\ pagusr_table' = [pagusr_table EXCEPT ![t][p].rw = TRUE]
           /\ UNCHANGED content
  BY <1>1, <1>3, RightShowsNothing
<1>4. CASE phys_mem[get_frame(t, p)] > 1 /\ copy_on_write(t, p)
  BY <1>1, <1>4, CopyIsPrivate
<1>5. QED
  BY <1>2, <1>3, <1>4 DEF pagefault_routine

\* A store reaches the page it is made to and no other.
LEMMA StoreIsPrivate ==
  ASSUME CowInv, NEW t \in live, NEW p \in Page, NEW v \in Value, Writable(t, p),
         Put(t, p, v), stored' = ~stored
  PROVE  Private!Next
<1>1. /\ live' = live /\ pagusr_table' = pagusr_table
      /\ content' = [f \in Frame |-> IF f = get_frame(t, p) THEN v ELSE content[f]]
  BY DEF Put
<1>2. \A s \in live : /\ \A q \in DataPage : get_frame(s, q)' = get_frame(s, q)
                      /\ Has(s)' = Has(s)
  BY <1>1 DEF get_frame, Has
<1>3. CASE \A s \in live : \A q \in Has(s) : get_frame(s, q) # get_frame(t, p)
  <2>1. \A s \in live : \A q \in Has(s) :
           content'[get_frame(s, q)] = content[get_frame(s, q)]
    BY <1>1, <1>3, DataContents
  <2>2. \A s \in live : Sees(s)' = Sees(s)
    BY <1>2, <2>1, SeesTheSame
  <2>3. UNCHANGED <<live, data_memory>>
    BY <1>1, <2>2, NothingSeen
  <2>4. Private!StoreElsewhere
    BY <2>3 DEF Private!StoreElsewhere
  <2>5. QED
    BY <2>4 DEF Private!Next
<1>4. ASSUME NEW u \in live, NEW r \in Has(u), get_frame(u, r) = get_frame(t, p)
      PROVE  Private!Next
  <2>1. get_frame(t, p) \in Frame \ Reserved
    BY <1>4, DataContents
  <2>2. p \in DataPage /\ p \in Has(t)
    BY <2>1, OnlyDataCopied, BootFrames DEF CowInv, CInv, Has
  <2>3. DataMappings(get_frame(t, p)) = {<<t, p>>}
    BY <2>1, <2>2 DEF CowInv, CInv, Owned
  <2>4. ASSUME NEW s \in live, NEW q \in Has(s), s # t \/ q # p
        PROVE  get_frame(s, q) # get_frame(t, p)
    <3>1. SUFFICES ASSUME get_frame(s, q) = get_frame(t, p) PROVE FALSE
      OBVIOUS
    <3>2. <<s, q>> \in DataMappings(get_frame(t, p))
      BY <3>1, DataContents DEF DataMappings
    <3>3. <<s, q>> = <<t, p>>
      BY <2>3, <3>2
    <3>4. QED
      BY <2>4, <3>3
  <2>5. ASSUME NEW s \in live \ {t}
        PROVE  Sees(s)' = Sees(s)
    <3>1. \A q \in Has(s) : content'[get_frame(s, q)] = content[get_frame(s, q)]
      BY <1>1, <2>4, DataContents
    <3>2. QED
      BY <1>2, <3>1, SeesTheSame
  <2>6. Sees(t)' = [Sees(t) EXCEPT ![p] = v]
    <3>1. ASSUME NEW q \in Has(t)
          PROVE  content'[get_frame(t, q)']
                   = IF q = p THEN v ELSE content[get_frame(t, q)]
      BY <1>1, <1>2, <2>1, <2>4, DataContents
    <3>2. QED
      BY <1>2, <3>1 DEF Sees
  <2>7. data_memory' = [s \in live |-> IF s = t THEN [Sees(t) EXCEPT ![p] = v]
                                                ELSE Sees(s)]
    BY <1>1, <2>5, <2>6, WhatIsSeen
  <2>8. data_memory' = [data_memory EXCEPT ![t][p] = v]
    BY <2>7, WhatIsSeen
  <2>9. p \in DOMAIN data_memory[t]
    BY <2>2, WhatIsSeen
  <2>10. Private!Store(t, p, v)
    BY <1>1, <2>8, <2>9 DEF Private!Store
  <2>11. QED
    BY <2>2, <2>10 DEF Private!Next
<1>5. QED
  BY <1>3, <1>4

\* Regions attached, detached and marked, and forks that fail, show nothing.
LEMMA OthersShowNothing ==
  ASSUME CowInv, CowInv', NEW t \in Slot,
         \/ \E c \in Slot : sys_fork_EAGAIN(t, c)
         \/ sys_fork_out_of_bounds(t)
         \/ \E id \in Shm, p \in ShmatPages : sys_shmat(t, id, p)
         \/ \E p \in ShmatPages : sys_shmdt(t, p)
         \/ \E id \in 0 .. NSHM : sys_shmrm(t, id)
  PROVE  UNCHANGED <<live, data_memory>>
<1>1. \A s \in live : \A q \in DataPage : pagusr_table'[s][q] = pagusr_table[s][q]
  BY OtherCounts DEF CowInv, CInv
<1>2. \A s \in live : \A q \in DataPage : get_frame(s, q)' = get_frame(s, q)
  BY <1>1 DEF get_frame
<1>3. live' = live
  BY DEF sys_fork_EAGAIN, sys_fork_out_of_bounds, sys_shmat, sys_shmdt, sys_shmrm
<1>4. \/ content' = content
      \/ \E id \in Shm : \E v \in {0, content[shm_frame(id)]} :
            content' = [content EXCEPT ![shm_frame(id)] = v]
  BY DEF sys_fork_EAGAIN, sys_fork_out_of_bounds, sys_shmat, sys_shmdt, sys_shmrm
<1>5. \A f \in Frame \ Reserved : content'[f] = content[f]
  BY <1>4, DataContents, ShmFrames DEF Reserved
<1>6. \A s \in live : Sees(s)' = Sees(s)
  BY <1>2, <1>5, DataContents, SeesTheSame
<1>7. QED
  BY <1>3, <1>6, NothingSeen

\* Every step of the workload is one of PrivateMemory, or shows nothing.
LEMMA CowIsPrivate ==
  ASSUME CowInv, CowInv', CowNext
  PROVE  Private!Next \/ UNCHANGED <<live, data_memory, stored>>
<1>1. ASSUME NEW t \in Slot, NEW c \in Slot, sys_fork(t, c), stored' = stored
      PROVE  Private!Next
  BY <1>1, ForkCopies DEF Private!Next
<1>2. ASSUME NEW t \in Slot, sys_exit(t), stored' = stored
      PROVE  Private!Next
  BY <1>2, ExitLeaves DEF Private!Next
<1>3. ASSUME NEW t \in Slot, NEW p \in UserPages, pagefault_routine(t, p),
             stored' = stored
      PROVE  Private!Next \/ UNCHANGED <<live, data_memory, stored>>
  BY <1>3, FaultIsPrivate, MemoryAssumption
<1>4. ASSUME NEW t \in Slot, NEW p \in UserPages, NEW v \in Value,
             user_store(t, p, v) \/ (copy_to_user(t, p, v) /\ Writable(t, p)),
             stored' = ~stored
      PROVE  Private!Next
  <2>1. t \in live /\ Writable(t, p) /\ Put(t, p, v)
    BY <1>4 DEF user_store, copy_to_user
  <2>2. QED
    BY <1>4, <2>1, StoreIsPrivate, MemoryAssumption
<1>5. ASSUME NEW t \in Slot,
             \/ \E c \in Slot : sys_fork_EAGAIN(t, c)
             \/ sys_fork_out_of_bounds(t)
             \/ \E id \in Shm, p \in ShmatPages : sys_shmat(t, id, p)
             \/ \E p \in ShmatPages : sys_shmdt(t, p)
             \/ \E id \in 0 .. NSHM : sys_shmrm(t, id)
      PROVE  UNCHANGED <<live, data_memory>>
  BY <1>5, OthersShowNothing
<1>6. QED
  BY <1>1, <1>2, <1>3, <1>4, <1>5 DEF CowNext, handler

\* Copy-on-write cannot be told from copying at fork: under the workload it is
\* meant for, what the processes see behaves as if their pages were their own.  A
\* fault with no frame left, or with a region at the page it copies through, harms
\* the page it is on and nothing else.
THEOREM CowIsCopying == CowSpec => PrivateMemorySpec
<1>1. CowInit => Private!Init
  <2>1. SUFFICES ASSUME CowInit PROVE Private!Init
    OBVIOUS
  <2>2. \A s \in live : \A q \in DataPage : /\ content[get_frame(s, q)] = 0
                                            /\ get_frame(s, q) # NoFrame
    <3>1. CowInv /\ live = {task1}
      BY <2>1, CowStarts DEF CowInit, Init
    <3>2. \A q \in DataPage : get_frame(task1, q) = BootFrame(q - PAG_LOG_INIT_CODE)
      <4>1. task1 \in Slot
        BY MemoryAssumption DEF Slot, task1
      <4>2. pagusr_table[task1] = Task1Table
        BY <2>1, <4>1 DEF CowInit, Init
      <4>3. ASSUME NEW q \in DataPage
            PROVE  get_frame(task1, q) = BootFrame(q - PAG_LOG_INIT_CODE)
        <5>1. Task1Table[q] = Mapped(BootFrame(q - PAG_LOG_INIT_CODE))
          BY Pages DEF Task1Table
        <5>2. Mapped(BootFrame(q - PAG_LOG_INIT_CODE)).frame
                = BootFrame(q - PAG_LOG_INIT_CODE)
          BY BootData, Entries
        <5>3. QED
          BY <4>2, <5>1, <5>2 DEF get_frame
      <4>4. QED
        BY <4>3
    <3>3. \A q \in DataPage : BootFrame(q - PAG_LOG_INIT_CODE) \in Frame
      BY BootData
    <3>4. QED
      BY <2>1, <3>1, <3>2, <3>3, BootFrames DEF CowInit, Init
  <2>3. QED
    BY <2>1, <2>2 DEF Private!Init, data_memory, CowInit, Init
<1>2. CowInv /\ CowInv' /\ [CowNext]_cow_vars
        => [Private!Next]_<<live, data_memory, stored>>
  <2>1. UNCHANGED cow_vars => UNCHANGED <<live, data_memory, stored>>
    BY DEF cow_vars, vars, data_memory, get_frame
  <2>2. QED
    BY <2>1, CowIsPrivate
<1>3. QED
  BY <1>1, <1>2, CowInvariance, PTL
     DEF CowSpec, PrivateMemorySpec, Private!Spec, Private!vars
-----------------------------------------------------------------------------
(* The references of the shared regions.                                   *)

\* A page that is not present has no frame number of a region left in it, neither
\* above the data, where an entry may get from one process to the next, nor, in a
\* live process, below it.
AbsentMapsNothing ==
  \A t \in Slot : \A p \in Page \ DataPage :
     (p \in UpperPage \/ t \in live) /\ ~pagusr_table[t][p].present
       => get_frame(t, p) \notin ShmFrame

RInv == IInv /\ AbsentMapsNothing /\ ReferencesAreMapped

\* Pages of one process and their pairs with it are as many.
LEMMA Row ==
  ASSUME NEW t, NEW P, P \subseteq Page
  PROVE  /\ IsFiniteSet({t} \X P) /\ Cardinality(P) \in Nat
         /\ Cardinality({t} \X P) = Cardinality(P)
<1>1. IsFiniteSet(P) /\ Cardinality(P) \in Nat
  <2>1. IsFiniteSet(Page)
    BY Sizes, FS_Interval DEF Page
  <2>2. QED
    BY <2>1, FS_Subset, PageCounts
<1>2. IsFiniteSet({t}) /\ Cardinality({t}) = 1
  BY FS_Singleton
<1>3. QED
  BY <1>1, <1>2, FS_Product

\* Processes map finitely many pages.
LEMMA MappingsFinite ==
  ASSUME NEW S, S \subseteq Slot \X Page
  PROVE  IsFiniteSet(S) /\ Cardinality(S) \in Nat
<1>1. IsFiniteSet(Slot \X Page)
  <2>1. IsFiniteSet(Slot) /\ IsFiniteSet(Page)
    BY Sizes, FS_Interval DEF Slot, Page
  <2>2. QED
    BY <2>1, FS_Product
<1>2. QED
  BY <1>1, FS_Subset, FS_CardinalityType

\* A region's frame is neither frame 0 nor that of a page of the kernel.
LEMMA RegionFrames ==
  /\ ShmFrame \cap KernelPage = {} /\ 0 \notin ShmFrame
  /\ ShmFrame \subseteq Reserved
<1>1. \A id \in Shm : shm_frame(id) \in Nat /\ shm_frame(id) >= NUM_PAG_KERNEL
  BY Sizes DEF shm_frame, BootFrame, Shm
<1>2. QED
  BY <1>1, Sizes DEF ShmFrame, KernelPage, Reserved

\* Regions are mapped finitely often, and never at a data page.
LEMMA Regions ==
  ASSUME IInv, NEW id \in Shm
  PROVE  /\ IsFiniteSet(ShmMappings(id)) /\ Cardinality(ShmMappings(id)) \in Nat
         /\ \A t : ShmPages(t, id) \subseteq Page
<1>1. ShmMappings(id) \subseteq Slot \X Page
  BY DEF IInv, TypeOK, ShmMappings
<1>2. QED
  BY <1>1, MappingsFinite DEF ShmPages, AllShmPages

\* So they are after a step.
LEMMA RegionsAfter ==
  ASSUME IInv', NEW id \in Shm
  PROVE  IsFiniteSet(ShmMappings(id)') /\ Cardinality(ShmMappings(id)') \in Nat
<1>1. ShmMappings(id)' \subseteq Slot \X Page
  BY DEF IInv, TypeOK, ShmMappings
<1>2. QED
  BY <1>1, MappingsFinite

\* What a mapping of a region is.
LEMMA RegionMapping ==
  ASSUME NEW id \in Shm, NEW m
  PROVE  /\ m \in ShmMappings(id) <=>
               /\ m \in live \X Page
               /\ pagusr_table[m[1]][m[2]].frame = shm_frame(id)
         /\ m \in ShmMappings(id)' <=>
               /\ m \in live' \X Page
               /\ pagusr_table'[m[1]][m[2]].frame = shm_frame(id)
BY DEF ShmMappings, AllShmPages, get_frame

\* Two regions have not one frame.
LEMMA RegionsDiffer ==
  ASSUME NEW id \in Shm, NEW other \in Shm, shm_frame(id) = shm_frame(other)
  PROVE  id = other
BY Sizes DEF shm_frame, BootFrame, Shm

\* Where no entry begins or ceases to map a region and no count grows, there are
\* still enough mappings.
LEMMA SameRegions ==
  ASSUME RInv, live' = live, left_attached' = left_attached,
         \A s \in live : \A q \in Page : \A id \in Shm :
            pagusr_table[s][q].frame = shm_frame(id)
              => pagusr_table'[s][q].frame = shm_frame(id),
         \A id \in Shm : referencias'[id] <= referencias[id],
         IInv'
  PROVE  ReferencesAreMapped'
<1>1. ASSUME NEW id \in Shm \ left_attached
      PROVE  referencias'[id] <= Cardinality(ShmMappings(id)')
  <2>1. ShmMappings(id) \subseteq ShmMappings(id)'
    BY RegionMapping
  <2>2. Cardinality(ShmMappings(id)) <= Cardinality(ShmMappings(id)')
    BY <2>1, RegionsAfter, FS_Subset
  <2>3. /\ referencias[id] \in Int /\ referencias'[id] \in Int
        /\ Cardinality(ShmMappings(id)) \in Nat
        /\ Cardinality(ShmMappings(id)') \in Nat
        /\ referencias[id] <= Cardinality(ShmMappings(id))
    BY Regions, RegionsAfter DEF RInv, IInv, TypeOK, ReferencesAreMapped
  <2>4. QED
    BY <2>2, <2>3
<1>2. QED
  BY <1>1 DEF ReferencesAreMapped

\* Fork: the child maps every page of a region that its parent maps above the data,
\* and they count.
LEMMA ForkReferences ==
  ASSUME RInv, IInv', NEW t \in Slot, NEW c \in Slot, sys_fork(t, c)
  PROVE  ReferencesAreMapped' /\ AbsentMapsNothing'
<1>1. /\ t \in live /\ c \in Slot \ live /\ live' = live \cup {c}
      /\ pagusr_table' = [pagusr_table EXCEPT ![c] = child_table(t, c),
                                              ![t] = parent_table(t)]
      /\ referencias' =
           [id \in Shm |-> referencias[id] + Cardinality(ShmPages(t, id))]
      /\ left_attached' = left_attached
  BY DEF sys_fork
<1>2. /\ pagusr_table \in [Slot -> [Page -> Entry]] /\ live \subseteq Slot
      /\ IInv /\ referencias \in [Shm -> Int] /\ AbsentMapsNothing
  BY DEF RInv, IInv, TypeOK
<1>3. /\ pagusr_table'[t] = parent_table(t) /\ pagusr_table'[c] = child_table(t, c)
      /\ \A s \in Slot \ {t, c} : pagusr_table'[s] = pagusr_table[s]
  BY <1>1, <1>2
<1>4. \A e : ReadOnly(e).frame = e.frame \/ e \notin Entry
  BY Entries
<1>5. ASSUME NEW p \in Page
      PROVE  /\ pagusr_table'[t][p].frame = pagusr_table[t][p].frame
             /\ p \notin DataPage => pagusr_table'[t][p] = pagusr_table[t][p]
  BY <1>2, <1>3, <1>4 DEF parent_table
<1>6. ASSUME NEW p \in Page \ DataPage
      PROVE  pagusr_table'[c][p] =
               IF p \in UpperPage /\ get_frame(t, p) = 0 THEN pagusr_table[c][p]
               ELSE Mapped(get_frame(t, p))
  BY <1>3, <1>6 DEF child_table
<1>7. ASSUME NEW f
      PROVE  Mapped(f).frame = f /\ Mapped(f).present
  BY DEF Mapped
<1>8. AbsentMapsNothing'
  <2>1. ASSUME NEW s \in Slot, NEW p \in Page \ DataPage,
               p \in UpperPage \/ s \in live', ~pagusr_table'[s][p].present
        PROVE  pagusr_table'[s][p].frame \notin ShmFrame
    <3>1. CASE s = c
      <4>1. p \in UpperPage /\ pagusr_table'[c][p] = pagusr_table[c][p]
        BY <1>6, <1>7, <2>1, <3>1
      <4>2. QED
        BY <1>2, <2>1, <3>1, <4>1 DEF AbsentMapsNothing, get_frame
    <3>2. CASE s # c
      <4>1. pagusr_table'[s][p] = pagusr_table[s][p] /\ (s \in live' => s \in live)
        BY <1>1, <1>3, <1>5, <2>1, <3>2
      <4>2. QED
        BY <1>2, <2>1, <4>1 DEF AbsentMapsNothing, get_frame
    <3>3. QED
      BY <3>1, <3>2
  <2>2. QED
    BY <2>1 DEF AbsentMapsNothing, get_frame
<1>9. ASSUME NEW id \in Shm \ left_attached
      PROVE  referencias'[id] <= Cardinality(ShmMappings(id)')
  <2> DEFINE row == {c} \X ShmPages(t, id)
  <2>1. /\ IsFiniteSet(ShmMappings(id)) /\ Cardinality(ShmMappings(id)) \in Nat
        /\ IsFiniteSet(ShmMappings(id)') /\ Cardinality(ShmMappings(id)') \in Nat
        /\ ShmPages(t, id) \subseteq Page /\ shm_frame(id) # 0
    BY <1>2, Regions, RegionsAfter, RegionFrames, ShmFrames
  <2>2. /\ IsFiniteSet(row) /\ Cardinality(row) = Cardinality(ShmPages(t, id))
        /\ Cardinality(row) \in Nat
    BY <2>1, Row
  <2>3. ShmMappings(id) \cap row = {}
    BY <1>1 DEF ShmMappings
  <2>4. ASSUME NEW p \in ShmPages(t, id)
        PROVE  <<c, p>> \in ShmMappings(id)'
    <3>1. p \in UpperPage /\ p \in Page /\ get_frame(t, p) = shm_frame(id)
      BY DEF ShmPages, AllShmPages
    <3>2. pagusr_table'[c][p].frame = shm_frame(id)
      BY <1>6, <1>7, <2>1, <3>1, Pages
    <3>3. QED
      BY <1>1, <3>1, <3>2, RegionMapping
  <2>5. ASSUME NEW m \in ShmMappings(id)
        PROVE  m \in ShmMappings(id)'
    <3>1. m \in live \X Page /\ pagusr_table[m[1]][m[2]].frame = shm_frame(id)
      BY RegionMapping
    <3>2. pagusr_table'[m[1]][m[2]].frame = pagusr_table[m[1]][m[2]].frame
      BY <1>1, <1>2, <1>3, <1>5, <3>1
    <3>3. QED
      BY <1>1, <3>1, <3>2, RegionMapping
  <2>6. ShmMappings(id) \cup row \subseteq ShmMappings(id)'
    BY <2>4, <2>5
  <2> HIDE DEF row
  <2>7. Cardinality(ShmMappings(id) \cup row)
          = Cardinality(ShmMappings(id)) + Cardinality(row)
    <3>1. Cardinality(ShmMappings(id) \cup row)
            = Cardinality(ShmMappings(id)) + Cardinality(row)
              - Cardinality(ShmMappings(id) \cap row)
      BY <2>1, <2>2, FS_Union
    <3>2. Cardinality(ShmMappings(id) \cap row) = 0
      BY <2>3, FS_EmptySet
    <3>3. QED
      BY <2>1, <2>2, <3>1, <3>2
  <2>8. Cardinality(ShmMappings(id) \cup row) <= Cardinality(ShmMappings(id)')
    BY <2>1, <2>6, FS_Subset
  <2>9. /\ referencias[id] <= Cardinality(ShmMappings(id)) /\ referencias[id] \in Int
        /\ referencias'[id] = referencias[id] + Cardinality(ShmPages(t, id))
    BY <1>1, <1>2 DEF RInv, ReferencesAreMapped
  <2>10. QED
    BY <2>1, <2>2, <2>7, <2>8, <2>9
<1>10. QED
  BY <1>1, <1>8, <1>9 DEF ReferencesAreMapped

\* Exit: the mappings that go are as many as the references it drops, if none of
\* them is below the data.
LEMMA ExitReferences ==
  ASSUME RInv, IInv', NEW t \in Slot, sys_exit(t)
  PROVE  ReferencesAreMapped' /\ AbsentMapsNothing'
<1> DEFINE cleared == {id \in Shm : referencias[id] \in 1 .. shared_pages_dropped(t)[id]}
<1>1. /\ t \in live /\ live' = live \ {t}
      /\ pagusr_table' =
           [pagusr_table EXCEPT
              ![t] = [p \in Page |-> IF p \in DataPage \cup cleared
                                     THEN Absent ELSE pagusr_table[t][p]]]
      /\ referencias' =
           [id \in Shm |-> referencias[id] - Cardinality(ShmPages(t, id))]
      /\ left_attached' = left_attached \cup
           {id \in Shm : AllShmPages(t, id) # ShmPages(t, id)}
  BY DEF sys_exit, shared_pages_dropped
<1>2. /\ pagusr_table \in [Slot -> [Page -> Entry]] /\ live \subseteq Slot
      /\ IInv /\ referencias \in [Shm -> Int] /\ AbsentMapsNothing
  BY DEF RInv, IInv, TypeOK
<1>3. cleared \subseteq KernelPage
  BY Pages
<1> HIDE DEF cleared
<1>4. ASSUME NEW s \in Slot, NEW p \in Page, s # t \/ p \in UpperPage
      PROVE  pagusr_table'[s][p] = pagusr_table[s][p]
  <2>1. CASE s # t
    BY <1>1, <1>2, <2>1
  <2>2. CASE s = t /\ p \in UpperPage
    <3>1. p \notin DataPage \cup cleared
      BY <1>3, <2>2, Pages
    <3>2. QED
      BY <1>1, <1>2, <2>2, <3>1
  <2>3. QED
    BY <1>4, <2>1, <2>2
<1>5. AbsentMapsNothing'
  BY <1>1, <1>2, <1>4 DEF AbsentMapsNothing, get_frame
<1>6. ASSUME NEW id \in Shm \ left_attached'
      PROVE  referencias'[id] <= Cardinality(ShmMappings(id)')
  <2> DEFINE row == {t} \X ShmPages(t, id)
  <2>1. /\ IsFiniteSet(ShmMappings(id)) /\ Cardinality(ShmMappings(id)) \in Nat
        /\ IsFiniteSet(ShmMappings(id)') /\ Cardinality(ShmMappings(id)') \in Nat
        /\ ShmPages(t, id) \subseteq Page
    BY <1>2, Regions, RegionsAfter
  <2>2. /\ IsFiniteSet(row) /\ Cardinality(row) = Cardinality(ShmPages(t, id))
        /\ Cardinality(row) \in Nat
    BY <2>1, Row
  <2>3. ShmMappings(id) \subseteq ShmMappings(id)' \cup row
    <3>1. SUFFICES ASSUME NEW m \in ShmMappings(id), m \notin row
                   PROVE  m \in ShmMappings(id)'
      OBVIOUS
    <3>2. m \in live \X Page /\ pagusr_table[m[1]][m[2]].frame = shm_frame(id)
      BY RegionMapping
    <3>3. ShmPages(t, id) = AllShmPages(t, id)
      BY <1>1
    <3>4. m[1] # t
      BY <3>1, <3>2, <3>3 DEF AllShmPages, get_frame
    <3>5. pagusr_table'[m[1]][m[2]] = pagusr_table[m[1]][m[2]]
      BY <1>2, <1>4, <3>2, <3>4
    <3>6. QED
      BY <1>1, <3>2, <3>4, <3>5, RegionMapping
  <2> HIDE DEF row
  <2>4. /\ IsFiniteSet(ShmMappings(id)' \cup row)
        /\ Cardinality(ShmMappings(id)' \cup row)
             <= Cardinality(ShmMappings(id)') + Cardinality(row)
    <3>1. /\ IsFiniteSet(ShmMappings(id)' \cap row)
          /\ Cardinality(ShmMappings(id)' \cap row) \in Nat
      BY <2>2, FS_Subset, FS_CardinalityType
    <3>2. /\ IsFiniteSet(ShmMappings(id)' \cup row)
          /\ Cardinality(ShmMappings(id)' \cup row)
               = Cardinality(ShmMappings(id)') + Cardinality(row)
                 - Cardinality(ShmMappings(id)' \cap row)
      BY <2>1, <2>2, FS_Union
    <3>3. QED
      BY <2>1, <2>2, <3>1, <3>2
  <2>5. /\ Cardinality(ShmMappings(id)) <= Cardinality(ShmMappings(id)' \cup row)
        /\ Cardinality(ShmMappings(id)' \cup row) \in Nat
    BY <2>3, <2>4, FS_Subset, FS_CardinalityType
  <2>6. /\ referencias[id] <= Cardinality(ShmMappings(id)) /\ referencias[id] \in Int
        /\ referencias'[id] = referencias[id] - Cardinality(ShmPages(t, id))
        /\ id \notin left_attached
    BY <1>1, <1>2 DEF RInv, ReferencesAreMapped
  <2>7. QED
    BY <2>1, <2>2, <2>4, <2>5, <2>6
<1>7. QED
  BY <1>5, <1>6 DEF ReferencesAreMapped

\* Attaching: the new reference has a new mapping, in a page that had none.
LEMMA ShmatReferences ==
  ASSUME RInv, IInv', NEW t \in Slot, NEW id \in Shm, NEW p \in ShmatPages,
         sys_shmat(t, id, p)
  PROVE  ReferencesAreMapped' /\ AbsentMapsNothing'
<1>1. PICK q \in p .. TOTAL_PAGES - 1 :
        /\ ~pagusr_table[t][q].present
        /\ pagusr_table' = [pagusr_table EXCEPT ![t][q] = Mapped(shm_frame(id))]
  BY DEF sys_shmat
<1>2. /\ t \in live /\ live' = live /\ left_attached' = left_attached
      /\ referencias' = [referencias EXCEPT ![id] = @ + 1]
  BY DEF sys_shmat
<1>3. /\ pagusr_table \in [Slot -> [Page -> Entry]] /\ live \subseteq Slot
      /\ IInv /\ referencias \in [Shm -> Int] /\ DataApart /\ AbsentMapsNothing
  BY DEF RInv, IInv, TypeOK
<1>4. q \in Page /\ q \notin DataPage
  <2>1. q \in Page
    BY MemoryAssumption, Sizes DEF Page
  <2>2. q \notin DataPage
    BY <1>1, <1>2, <1>3 DEF DataApart
  <2>3. QED
    BY <2>1, <2>2
<1>5. get_frame(t, q) \notin ShmFrame
  BY <1>1, <1>2, <1>3, <1>4 DEF AbsentMapsNothing
<1>6. /\ Mapped(shm_frame(id)).frame = shm_frame(id)
      /\ Mapped(shm_frame(id)).present
  BY DEF Mapped
<1>7. /\ pagusr_table'[t][q] = Mapped(shm_frame(id))
      /\ \A s \in Slot : \A r \in Page :
            s # t \/ r # q => pagusr_table'[s][r] = pagusr_table[s][r]
  BY <1>1, <1>3, <1>4
<1>8. AbsentMapsNothing'
  <2>1. ASSUME NEW s \in Slot, NEW r \in Page \ DataPage,
               r \in UpperPage \/ s \in live', ~pagusr_table'[s][r].present
        PROVE  pagusr_table'[s][r].frame \notin ShmFrame
    <3>1. pagusr_table'[s][r] = pagusr_table[s][r]
      BY <1>6, <1>7, <2>1
    <3>2. QED
      BY <1>2, <1>3, <2>1, <3>1 DEF AbsentMapsNothing, get_frame
  <2>2. QED
    BY <2>1 DEF AbsentMapsNothing, get_frame
<1>9. ASSUME NEW other \in Shm \ left_attached
      PROVE  referencias'[other] <= Cardinality(ShmMappings(other)')
  <2>1. /\ IsFiniteSet(ShmMappings(other)) /\ Cardinality(ShmMappings(other)) \in Nat
        /\ IsFiniteSet(ShmMappings(other)') /\ Cardinality(ShmMappings(other)') \in Nat
    BY <1>3, Regions, RegionsAfter
  <2>2. <<t, q>> \notin ShmMappings(other)
    BY <1>5, ShmFrames, RegionMapping DEF get_frame
  <2>3. ShmMappings(other) \subseteq ShmMappings(other)'
    <3>1. SUFFICES ASSUME NEW m \in ShmMappings(other)
                   PROVE  m \in ShmMappings(other)'
      OBVIOUS
    <3>2. m \in live \X Page /\ pagusr_table[m[1]][m[2]].frame = shm_frame(other)
      BY RegionMapping
    <3>3. m = <<m[1], m[2]>>
      BY <3>2
    <3>4. m[1] # t \/ m[2] # q
      BY <2>2, <3>1, <3>3
    <3>5. pagusr_table'[m[1]][m[2]] = pagusr_table[m[1]][m[2]]
      BY <1>3, <1>7, <3>2, <3>4
    <3>6. QED
      BY <1>2, <3>2, <3>5, RegionMapping
  <2>4. referencias[other] <= Cardinality(ShmMappings(other)) /\ referencias[other] \in Int
    BY <1>3 DEF RInv, ReferencesAreMapped
  <2>5. CASE other = id
    <3>1. <<t, q>> \in ShmMappings(other)'
      BY <1>2, <1>4, <1>6, <1>7, <2>5, RegionMapping
    <3>2. Cardinality(ShmMappings(other) \cup {<<t, q>>})
            = Cardinality(ShmMappings(other)) + 1
      BY <2>1, <2>2, FS_AddElement
    <3>3. Cardinality(ShmMappings(other) \cup {<<t, q>>})
            <= Cardinality(ShmMappings(other)')
      BY <2>1, <2>3, <3>1, FS_Subset
    <3>4. referencias'[other] = referencias[other] + 1
      BY <1>2, <1>3, <2>5
    <3>5. QED
      BY <2>1, <2>4, <3>2, <3>3, <3>4
  <2>6. CASE other # id
    <3>1. Cardinality(ShmMappings(other)) <= Cardinality(ShmMappings(other)')
      BY <2>1, <2>3, FS_Subset
    <3>2. referencias'[other] = referencias[other]
      BY <1>2, <1>3, <2>6
    <3>3. QED
      BY <2>1, <2>4, <3>1, <3>2
  <2>7. QED
    BY <2>5, <2>6
<1>10. QED
  BY <1>2, <1>8, <1>9 DEF ReferencesAreMapped

\* Detaching: at most the mapping that the dropped reference stood for goes.
LEMMA ShmdtReferences ==
  ASSUME RInv, IInv', NEW t \in Slot, NEW p \in ShmatPages, sys_shmdt(t, p)
  PROVE  ReferencesAreMapped' /\ AbsentMapsNothing'
<1>1. PICK id \in Shm :
        /\ shm_frame(id) = get_frame(t, p)
        /\ referencias' = [referencias EXCEPT ![id] = @ - 1]
        /\ \/ UNCHANGED pagusr_table
           \/ pagusr_table' = [pagusr_table EXCEPT ![t][p] = Absent]
  BY DEF sys_shmdt
<1>2. t \in live /\ live' = live /\ left_attached' = left_attached
  BY DEF sys_shmdt
<1>3. /\ pagusr_table \in [Slot -> [Page -> Entry]] /\ live \subseteq Slot
      /\ IInv /\ referencias \in [Shm -> Int] /\ AbsentMapsNothing
      /\ p \in Page
  BY MemoryAssumption DEF RInv, IInv, TypeOK
<1>4. /\ \A s \in Slot : \A r \in Page :
            s # t \/ r # p => pagusr_table'[s][r] = pagusr_table[s][r]
      /\ pagusr_table'[t][p] \in {pagusr_table[t][p], Absent}
  BY <1>1, <1>3
<1>5. AbsentMapsNothing'
  <2>1. ASSUME NEW s \in Slot, NEW r \in Page \ DataPage,
               r \in UpperPage \/ s \in live', ~pagusr_table'[s][r].present
        PROVE  pagusr_table'[s][r].frame \notin ShmFrame
    <3>1. CASE pagusr_table'[s][r] = pagusr_table[s][r]
      BY <1>2, <1>3, <2>1, <3>1 DEF AbsentMapsNothing, get_frame
    <3>2. CASE pagusr_table'[s][r] = Absent
      BY <3>2, RegionFrames DEF Absent
    <3>3. QED
      BY <1>4, <3>1, <3>2
  <2>2. QED
    BY <2>1 DEF AbsentMapsNothing, get_frame
<1>6. ASSUME NEW other \in Shm \ left_attached
      PROVE  referencias'[other] <= Cardinality(ShmMappings(other)')
  <2>1. /\ IsFiniteSet(ShmMappings(other)) /\ Cardinality(ShmMappings(other)) \in Nat
        /\ IsFiniteSet(ShmMappings(other)') /\ Cardinality(ShmMappings(other)') \in Nat
    BY <1>3, Regions, RegionsAfter
  <2>2. ShmMappings(other) \ {<<t, p>>} \subseteq ShmMappings(other)'
    <3>1. SUFFICES ASSUME NEW m \in ShmMappings(other), m # <<t, p>>
                   PROVE  m \in ShmMappings(other)'
      OBVIOUS
    <3>2. m \in live \X Page /\ pagusr_table[m[1]][m[2]].frame = shm_frame(other)
      BY RegionMapping
    <3>3. m[1] # t \/ m[2] # p
      BY <3>1, <3>2
    <3>4. pagusr_table'[m[1]][m[2]] = pagusr_table[m[1]][m[2]]
      BY <1>3, <1>4, <3>2, <3>3
    <3>5. QED
      BY <1>2, <3>2, <3>4, RegionMapping
  <2>3. referencias[other] <= Cardinality(ShmMappings(other)) /\ referencias[other] \in Int
    BY <1>3 DEF RInv, ReferencesAreMapped
  <2>4. Cardinality(ShmMappings(other) \ {<<t, p>>}) <= Cardinality(ShmMappings(other)')
    BY <2>1, <2>2, FS_Subset
  <2>5. Cardinality(ShmMappings(other) \ {<<t, p>>})
          = IF <<t, p>> \in ShmMappings(other) THEN Cardinality(ShmMappings(other)) - 1
                                               ELSE Cardinality(ShmMappings(other))
    BY <2>1, FS_RemoveElement
  <2>6. CASE other = id
    <3>1. referencias'[other] = referencias[other] - 1
      BY <1>1, <1>3, <2>6
    <3>2. QED
      BY <2>1, <2>3, <2>4, <2>5, <3>1
  <2>7. CASE other # id
    <3>1. <<t, p>> \notin ShmMappings(other)
      BY <1>1, <2>7, RegionsDiffer, RegionMapping DEF get_frame
    <3>2. referencias'[other] = referencias[other]
      BY <1>1, <1>3, <2>7
    <3>3. QED
      BY <2>1, <2>3, <2>4, <2>5, <3>1, <3>2
  <2>8. QED
    BY <2>6, <2>7
<1>7. QED
  BY <1>2, <1>5, <1>6 DEF ReferencesAreMapped

\* A fault changes no page of a region: where it clears an entry, there was none.
LEMMA FaultReferences ==
  ASSUME RInv, IInv', NEW t \in Slot, NEW p \in Page, pagefault_routine(t, p)
  PROVE  ReferencesAreMapped' /\ AbsentMapsNothing'
<1>1. /\ t \in live /\ live' = live /\ referencias' = referencias
      /\ left_attached' = left_attached /\ ~Writable(t, p)
      /\ \/ UNCHANGED pagusr_table
         \/ pagusr_table' = [pagusr_table EXCEPT ![t][p].rw = TRUE]
         \/ phys_mem[get_frame(t, p)] > 1 /\ copy_on_write(t, p)
  BY DEF pagefault_routine
<1>2. /\ pagusr_table \in [Slot -> [Page -> Entry]] /\ live \subseteq Slot
      /\ IInv /\ referencias \in [Shm -> Int] /\ AbsentMapsNothing /\ DataApart
  BY DEF RInv, IInv, TypeOK
<1>3. ASSUME NEW s \in Slot, NEW q \in Page \ DataPage
      PROVE  \/ /\ pagusr_table'[s][q].frame = pagusr_table[s][q].frame
                /\ pagusr_table'[s][q].present = pagusr_table[s][q].present
             \/ /\ q \in UpperPage /\ ~pagusr_table[s][q].present
                /\ pagusr_table'[s][q] = Absent
  <2>1. CASE UNCHANGED pagusr_table
    BY <2>1
  <2>2. CASE pagusr_table' = [pagusr_table EXCEPT ![t][p].rw = TRUE]
    <3>1. /\ pagusr_table[t] \in [Page -> Entry] /\ pagusr_table[t][p] \in Entry
          /\ pagusr_table' = [pagusr_table EXCEPT ![t] =
               [pagusr_table[t] EXCEPT ![p] = [pagusr_table[t][p] EXCEPT !.rw = TRUE]]]
      BY <1>2, <2>2
    <3>2. /\ [pagusr_table[t][p] EXCEPT !.rw = TRUE].frame = pagusr_table[t][p].frame
          /\ [pagusr_table[t][p] EXCEPT !.rw = TRUE].present = pagusr_table[t][p].present
      BY <3>1 DEF Entry
    <3>3. CASE s = t /\ q = p
      BY <1>2, <3>1, <3>2, <3>3
    <3>4. CASE s # t \/ q # p
      BY <1>2, <3>1, <3>4
    <3>5. QED
      BY <3>3, <3>4
  <2>3. CASE phys_mem[get_frame(t, p)] > 1 /\ copy_on_write(t, p)
    <3> DEFINE temp == pagusr_table[t][pagina_a_usar]
    <3>1. /\ p \in DataPage
          /\ pagusr_table'[t][pagina_a_usar]
               = IF temp.present THEN Mapped(temp.frame) ELSE Absent
          /\ \A r \in Page \ {p, pagina_a_usar} :
                pagusr_table'[t][r] = pagusr_table[t][r]
          /\ \A r \in Slot \ {t} : pagusr_table'[r] = pagusr_table[r]
      BY <1>1, <1>2, <2>3, CopyTables DEF get_frame
    <3>2. temp.present \in BOOLEAN /\ pagina_a_usar \in UpperPage
      BY <1>2, Pages DEF Entry
    <3>3. Mapped(temp.frame).frame = temp.frame /\ Mapped(temp.frame).present
      BY DEF Mapped
    <3>4. CASE s = t /\ q = pagina_a_usar
      BY <3>1, <3>2, <3>3, <3>4
    <3>5. CASE s # t \/ q # pagina_a_usar
      BY <3>1, <3>5
    <3>6. QED
      BY <3>4, <3>5
  <2>4. QED
    BY <1>1, <2>1, <2>2, <2>3
<1>4. AbsentMapsNothing'
  <2>1. ASSUME NEW s \in Slot, NEW q \in Page \ DataPage,
               q \in UpperPage \/ s \in live', ~pagusr_table'[s][q].present
        PROVE  pagusr_table'[s][q].frame \notin ShmFrame
    <3>1. CASE pagusr_table'[s][q] = Absent
      BY <3>1, RegionFrames DEF Absent
    <3>2. CASE /\ pagusr_table'[s][q].frame = pagusr_table[s][q].frame
               /\ pagusr_table'[s][q].present = pagusr_table[s][q].present
      BY <1>1, <1>2, <2>1, <3>2 DEF AbsentMapsNothing, get_frame
    <3>3. QED
      BY <1>3, <3>1, <3>2
  <2>2. QED
    BY <2>1 DEF AbsentMapsNothing, get_frame
<1>5. ASSUME NEW s \in live, NEW q \in Page, NEW id \in Shm,
             pagusr_table[s][q].frame = shm_frame(id)
      PROVE  pagusr_table'[s][q].frame = shm_frame(id)
  <2>1. pagusr_table[s][q].frame \in ShmFrame
    BY <1>5, ShmFrames
  <2>2. q \notin DataPage
    BY <1>2, <2>1, RegionFrames DEF DataApart, get_frame
  <2>3. ~(q \in UpperPage /\ ~pagusr_table[s][q].present)
    BY <1>2, <2>1, <2>2 DEF AbsentMapsNothing, get_frame
  <2>4. QED
    BY <1>2, <1>3, <1>5, <2>2, <2>3
<1>6. \A id \in Shm : referencias'[id] <= referencias[id]
  BY <1>1, <1>2
<1>7. QED
  BY <1>1, <1>4, <1>5, <1>6, SameRegions

\* The other operations touch no page that a region can be mapped at.
LEMMA NextReferences ==
  ASSUME RInv, [Next]_vars
  PROVE  RInv'
<1>1. IInv' /\ IInv /\ referencias \in [Shm -> Int] /\ live \subseteq Slot
      /\ pagusr_table \in [Slot -> [Page -> Entry]]
  BY NextSafe DEF RInv, IInv, TypeOK
<1>2. ASSUME live' = live, referencias' = referencias, left_attached' = left_attached,
             \A s \in Slot : \A q \in Page :
                q \in UpperPage \/ s \in live => pagusr_table'[s][q] = pagusr_table[s][q]
      PROVE  ReferencesAreMapped' /\ AbsentMapsNothing'
  <2>1. \A s \in live : \A q \in Page : pagusr_table'[s][q] = pagusr_table[s][q]
    BY <1>1, <1>2
  <2>2. \A id \in Shm : referencias'[id] <= referencias[id]
    BY <1>1, <1>2
  <2>3. AbsentMapsNothing'
    BY <1>2 DEF RInv, AbsentMapsNothing, get_frame
  <2>4. QED
    BY <1>1, <1>2, <2>1, <2>2, <2>3, SameRegions
<1>3. ASSUME NEW t \in Slot, NEW c \in Slot, sys_fork_EAGAIN(t, c)
      PROVE  ReferencesAreMapped' /\ AbsentMapsNothing'
  <2> DEFINE n == Cardinality(free_frames(phys_mem))
             gone == PAG_LOG_INIT_DATA .. PAG_LOG_INIT_DATA + n - 1
  <2>1. /\ pagusr_table' =
             [pagusr_table EXCEPT
                ![c] = [p \in Page |-> IF p \in gone THEN Absent ELSE pagusr_table[c][p]]]
        /\ n < NUM_PAG_DATA /\ live' = live /\ referencias' = referencias
        /\ left_attached' = left_attached /\ c \notin live
    BY <1>3 DEF sys_fork_EAGAIN
  <2>2. free_frames(phys_mem) \subseteq Frame
    BY DEF free_frames
  <2>3. n \in Nat
    <3>1. IsFiniteSet(Frame)
      BY Sizes, FS_Interval DEF Frame
    <3>2. QED
      BY <2>2, <3>1, FS_Subset, FS_CardinalityType
  <2> HIDE DEF n
  <2>4. gone \subseteq DataPage
    BY <2>1, <2>3, Sizes DEF DataPage, PAG_LOG_INIT_DATA, PAG_LOG_INIT_CODE
  <2> HIDE DEF gone
  <2>5. \A s \in Slot : \A q \in Page :
           q \in UpperPage \/ s \in live => pagusr_table'[s][q] = pagusr_table[s][q]
    BY <1>1, <2>1, <2>4, Pages
  <2>6. QED
    BY <1>2, <2>1, <2>5
<1>4. ASSUME NEW t \in Slot, NEW p, NEW v, user_store(t, p, v) \/ copy_to_user(t, p, v)
      PROVE  ReferencesAreMapped' /\ AbsentMapsNothing'
  BY <1>2, <1>4 DEF user_store, copy_to_user, Put
<1>5. ASSUME NEW t \in Slot, NEW id, sys_shmrm(t, id)
      PROVE  ReferencesAreMapped' /\ AbsentMapsNothing'
  BY <1>2, <1>5 DEF sys_shmrm
<1>6. ASSUME UNCHANGED vars
      PROVE  ReferencesAreMapped' /\ AbsentMapsNothing'
  BY <1>2, <1>6 DEF vars
<1>7. ASSUME NEW t \in Slot, sys_fork_out_of_bounds(t)
      PROVE  ReferencesAreMapped' /\ AbsentMapsNothing'
  BY <1>2, <1>7 DEF sys_fork_out_of_bounds
<1>8. ASSUME NEW t \in Slot, NEW p \in UserPages, pagefault_routine(t, p)
      PROVE  ReferencesAreMapped' /\ AbsentMapsNothing'
  BY <1>1, <1>8, FaultReferences, MemoryAssumption
<1>9. ASSUME NEW t \in Slot, NEW c \in Slot, sys_fork(t, c)
      PROVE  ReferencesAreMapped' /\ AbsentMapsNothing'
  BY <1>1, <1>9, ForkReferences
<1>10. ASSUME NEW t \in Slot, sys_exit(t)
       PROVE  ReferencesAreMapped' /\ AbsentMapsNothing'
  BY <1>1, <1>10, ExitReferences
<1>11. ASSUME NEW t \in Slot, NEW id \in Shm, NEW p \in ShmatPages, sys_shmat(t, id, p)
       PROVE  ReferencesAreMapped' /\ AbsentMapsNothing'
  BY <1>1, <1>11, ShmatReferences
<1>12. ASSUME NEW t \in Slot, NEW p \in ShmatPages, sys_shmdt(t, p)
       PROVE  ReferencesAreMapped' /\ AbsentMapsNothing'
  BY <1>1, <1>12, ShmdtReferences
<1>13. ASSUME NEW t \in Slot, handler(t)
       PROVE  ReferencesAreMapped' /\ AbsentMapsNothing'
  BY <1>3, <1>5, <1>7, <1>8, <1>9, <1>10, <1>11, <1>12, <1>13 DEF handler
<1>14. ReferencesAreMapped' /\ AbsentMapsNothing'
  BY <1>4, <1>6, <1>13 DEF Next
<1>15. QED
  BY <1>1, <1>14 DEF RInv

\* No region is attached at boot, and no kernel page is in a region's frame.
LEMMA InitReferences == Init => RInv
<1> SUFFICES ASSUME Init PROVE RInv
  OBVIOUS
<1>1. IInv
  BY InitSafe
<1>2. ReferencesAreMapped
  <2>1. \A id \in Shm : referencias[id] = 0 /\ Cardinality(ShmMappings(id)) \in Nat
    BY <1>1, Regions DEF Init
  <2>2. QED
    BY <2>1 DEF ReferencesAreMapped
<1>3. ASSUME NEW t \in Slot, NEW p \in Page \ DataPage, ~pagusr_table[t][p].present
      PROVE  pagusr_table[t][p].frame \notin ShmFrame
  <2>1. pagusr_table[t] \in {InitTable, Task1Table}
    BY DEF Init
  <2>2. CASE pagusr_table[t][p] = InitTable[p]
    <3>1. InitTable[p].frame \in {p, 0} /\ (InitTable[p].frame = p => p \in KernelPage \cup {0})
      BY DEF InitTable, Absent
    <3>2. QED
      BY <2>2, <3>1, RegionFrames
  <2>3. CASE pagusr_table[t][p] = Task1Table[p] /\ p \in CodePage
    <3>1. Task1Table[p] = ReadOnly(Mapped(BootFrame(p - PAG_LOG_INIT_CODE)))
      BY <2>3 DEF Task1Table
    <3>2. ReadOnly(Mapped(BootFrame(p - PAG_LOG_INIT_CODE))).present
      BY DEF ReadOnly, Mapped
    <3>3. QED
      BY <1>3, <2>3, <3>1, <3>2
  <2>4. CASE pagusr_table[t][p] = Task1Table[p] /\ p \notin CodePage
    <3>1. Task1Table[p] = InitTable[p]
      BY <2>4 DEF Task1Table
    <3>2. QED
      BY <2>2, <2>4, <3>1
  <2>5. QED
    BY <2>1, <2>2, <2>3, <2>4
<1>4. AbsentMapsNothing
  BY <1>3 DEF AbsentMapsNothing, get_frame
<1>5. QED
  BY <1>1, <1>2, <1>4 DEF RInv

\* A region never counts more references than live processes have pages of it, as
\* long as no process has exited with the region attached below the data, where
\* exit does not look.
THEOREM ReferencesHaveMappings == Spec => []ReferencesAreMapped
<1>1. Init => RInv
  BY InitReferences
<1>2. RInv /\ [Next]_vars => RInv'
  BY NextReferences
<1>3. RInv => ReferencesAreMapped
  BY DEF RInv
<1>4. QED
  BY <1>1, <1>2, <1>3, PTL DEF Spec
=============================================================================
