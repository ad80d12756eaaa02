# ZeOS: specification and proofs

TLA+ models of ZeOS, a teaching kernel for the i386, with the TLC runs that check
them and the theorems TLAPS proves about them. The repository holds two trees:

- `practica/zeos`, the extended kernel: shared memory, copy-on-write, keyboard
  buffer, a game as its user program. **The models are of this tree** unless they
  say otherwise.
- `zeos`, the base kernel it grew from: fork copies eagerly, and there are block,
  unblock and a tree of processes.

## 1. Inventory

| Component | State | Operations | Hard part | What makes it correct |
|---|---|---|---|---|
| Process scheduler (`sched.c`, `sys.c`) | `task[]` (PID, state, list links), `freequeue`, `readyqueue`, `remaining_quantum`, `global_PID` | clock tick, fork, failed fork, exit, yield, get_stats | the clock comes between any two calls; fields are copied before they are set | every slot is in one place; the state field agrees with it; PIDs unique; first come, first served; bounded waiting |
| Memory (`mm.c`, `sys.c`, `interrupt.c`) | page table of every slot, `phys_mem[]` (a count per frame), frame contents | fork, exit, page fault, stores by user and kernel | sharing after fork: counts go up in one process and down in another's fault; no frame left in the middle of a fault | the count is the number of mappings; a writable page is private; copy-on-write looks like copying, and where it fails harms nobody but the process that faults |
| Shared regions (`sys.c`) | `shm_mem[]`: frame, references, mark | shmat, shmdt, shmrm; inherited by fork, dropped by exit | references against mappings over fork and exit | the frames stay allocated; references do not exceed mappings, except for what exit leaves below the data |
| Context switch (`kernel-utils.S`, `entry.S`, `sched.c`) | `register_esp` of every task, the stack in use | task_switch, fork's hand-made stack | the pointer to load is read before the current one is saved | a waiting task has a good pointer into its own stack |
| Keyboard (`c_buffer.c`, `interrupt.c`, `sys.c`) | ring buffer with two indices and a count, `isDefined` | key interrupt, read | wrap-around, full buffer, initialisation in the first interrupt | a bounded queue: order kept, nothing lost before it is full |
| Linked lists (`list.c`) | doubly linked rings inside `task_struct`, and one in the game | add, add_tail, del | deleting what is not linked | a ring is a sequence |
| Process statistics (`p_stats.c`) | tick counters per task | update at each change of mode | differences of a wrapping clock | every tick is counted once |
| User pointers (`utils.c`) | none | access_ok, copy to and from user | ranges, fall-through between checks | only the process's own pages pass |
| Console, sys_write (`io.c`, `devices.c`) | cursor, color, cells | printc, gotoxy, set_color, chunked write | the edges of the screen; one cursor for two processes | what is written arrives in order; a frame nobody disturbs is right |
| Game (`game.c`, `user.c`) | board, phantoms, points, lives, a list of one move | turn, search, frame | a list entry linked twice; phantoms move after the pacman | points are food eaten; nobody passes through; phantoms take shortest ways |
| Key mailbox (`user.c`, `game.c`) | one word in a shared region | look, read, store, clear | two processes on one word without a lock, 0 meaning empty; a read that finds no key leaves the variable alone | directions are handled in order, none left out; neither waits for ever |
| Base kernel tasks (`zeos/`) | the first row, plus `blocked`, pending unblocks, children | plus sys_block, sys_unblock | an unblock before the block; orphaned children; everybody blocked | nobody sleeps through an unblock; children are living processes |
| Base kernel memory (`zeos/`) | page tables, `phys_mem[]` (used or free), contents | fork copies, exit frees, stores | loops over pages in another order than the map's; failed forks | frames have one owner; failed forks leave nothing |
| Boot, segments, build, libraries | | | run once, or on the host | they give the initial states |

**How they interact.** Everything enters through the handlers of `entry.S`: clock,
keyboard, page fault and `sysenter`. All gates are interrupt gates
(`interrupt.c:98`), and a system call turns interrupts on in the instruction before
it leaves (`entry.S:118`). So a handler is never interrupted and **one handler is
one action**; all concurrency is the order in which handlers run, and the user
code between them. The components share the task table: `current()` is computed
from the stack pointer, so who is running is a fact about the stack in use. The
scheduler calls the context switch; fork and exit change queues, page tables,
counts and regions together; the keyboard interrupt and `sys_read` share the
ring buffer; the page fault handler changes what fork set up. The user program has
two processes: the parent reads keys into a word of a shared region, the child plays
the game with them, and both write to the one screen.

## 2. Modules

| Module | Of | Variables and actions in the code |
|---|---|---|
| `Scheduler` | task table, queues, round robin | A queue is the sequence of slots on its ring, `running` is `current()`. `clock_routine`, `sys_fork`, `sys_fork_EAGAIN` (out of frames), `sys_exit`, `sys_yield`; `sched_next_rr`, `update_process_state_rr`, `force_task_switch` as in `sched.c`. |
| `SchedulerWait` | the same | A history variable, the ticks each ready process has waited. |
| `Memory` | page tables, byte map, copy-on-write, shared regions | `pagusr_table`, `phys_mem`, `referencias`, `a_borrar`, frame `content`. `sys_fork`, `sys_fork_EAGAIN`, `sys_fork_out_of_bounds` (a page was lost before), `sys_exit`, `pagefault_routine` with `copy_on_write`, `user_store`, `copy_to_user` (a system call that stores for a process), `sys_shmat`, `sys_shmdt`, `sys_shmrm`. `freed_shared` and `left_attached` are history variables. |
| `CowMemory` | the same | The workload copy-on-write is meant for, the history variable `stored`, and the mapping to `PrivateMemory`. |
| `PrivateMemory` | what copy-on-write promises | Every process has data pages of its own: `Store`, `Fork`, `Exit`. `Lose` and `Miscopy` are the handler's two failures: enabled only with no frame left or with the process's window in use, they change one page of the process that faults. |
| `Kernel` | scheduler, memory and stack pointers together | Instances of `Scheduler` and `Memory` over one task table. A call is made by `running`; fork takes `Head(freequeue)` in both. Adds `register_esp` and the switch. |
| `KeyBuffer` | ring buffer, keyboard interrupt, read | The fields of `circular_buffer`, `isDefined`, what the last read stored, and the parity of the interrupts, a history variable that makes an interrupt that stores nothing a step. |
| `KeyQueue` | what the keyboard promises | A bounded queue: `Key`, `Read`. |
| `Mailbox` | key process and game over the shared word | `shared_mem_addr`, each process's `b`, where each is. One action per access, since the clock may switch between any two; the keyboard is an instance of `KeyQueue`. |
| `KeyChannel` | what the player may expect of the keys | Directions typed are handled in order and none is left out; while none waits the last can come again. |
| `LinkedList` | `list.c` | `next` and `prev` of every node, as functions on a record of links; `NULL` is a node whose fields are the words at 0 and 4. |
| `Game` | `game.c` | A turn of the loop in `start_game`: the list of moves, the pacman, the points, the phantoms and their search `bfs`, lives. |
| `Board` | the array in `init_game` | No state. |
| `Console` | `io.c`, `devices.c`, `sys_write`, `sys_gotoxy`, `sys_set_color` | Cursor, color, cells. |
| `GameScreen` | the two processes on one screen | The calls of a frame one by one (`print_map`, `print_units`, `print_frame`, ...), with the parent's write anywhere in between. |
| `BaseScheduler` | `zeos/sched.c`, `zeos/sys.c` | As `Scheduler`, with `blocked`, `pending_unblocks`, `childs`; `sys_block`, `sys_unblock`, and whether page 0 is mapped, which decides if unlinking an unlinked task comes back. |
| `BaseMemory` | `zeos/mm.c`, `zeos/sys.c` | `fork_pages`, `fork_pages_EAGAIN`, `exit_pages`, `user_store`. |
| `BaseKernel` | both | Fork, exit and stores change both; a fork fails when frames do not suffice. |
| `SchedulerProofs`, `MemoryProofs`, `KernelProofs`, `DeviceProofs`, `MailboxProofs`, `GameProofs`, `BaseSchedulerProofs`, `QueueLemmas` | the theorems | `SchedulerProofs` is about `Scheduler` and `SchedulerWait`, `DeviceProofs` about `KeyBuffer`, `Console` and `GameScreen`, `BaseSchedulerProofs` about `BaseScheduler` and `BaseKernel`. |
| `MC...` | TLC | The `.cfg` files give the sizes. |

Operators that say "mutated form" are plausible bugs. Each property is tried
against one: with the mutated definition in place TLC finds it violated.

**Abstractions.** A page holds one value. A stack pointer is the stack it points
into and the code that left it there. A scan code is whether a key was let go and
its character. A number drawn on the screen is one character. Children of the base
kernel's processes are a set, not the pointers of their ring. Left out: registers
below the stack pointer, tick counters, and the TLB except where the code leaves it
stale (page 285 in the fault handler); in particular that fork's `set_cr3`
(`sys.c:145`) makes the processor forget the parent's writable entries. `NoFrame` is
`alloc_frame`'s -1 as a page table entry keeps it, 0xFFFFF: the fault handler
maps it and goes on, so the page is lost, and stores to it change no frame. When the
kernel hangs (`while(1)`), or goes behind an array (`sys_shmrm` with id 10, a fork that
counts `phys_mem[0xFFFFF]` for a lost page), the model records it and stops; so deadlock
is not checked in the runs of `Memory`, `CowMemory`, `Kernel` and `BaseKernel`. Nor is it for the game and its
screen, which end, and for the mailbox, where nobody has to type. It is checked for
`Scheduler` and `KeyBuffer`.

Three things the C language leaves open are taken as gcc does them, and said so in
`Game`: `queue[rear++] = rear - 1` in `bfs` reads `rear` after the increment, and the
texts of the lives and of the frames per second go where a `char` that nobody set
points (address 0, an unused word). In `Mailbox` a key variable that nobody set holds
any character at first, and after each turn of `read_keyboard` either 0 or the last key:
`char b[1]` is declared inside the loop (`game.c:335`), so `b[0] = 0` at its end
(`game.c:341`) is a store nothing reads, which the compiler may keep or, as with the
Makefile's `-O2`, drop.

## 3. Runs

| Run | Sizes | Shows |
|---|---|---|
| `scheduler` | 5 slots, quantum 2, PIDs to 1004 | One place per slot, idle last, state field, PIDs, waiting bound, no overtaking; with the clock's fairness, every ready process runs. |
| `memory` | 3 processes, 1 data page, 15 frames, 2 values | Counts are mappings and writable pages are private, among frames no exit freed too early. |
| `memory_shm` | 2 processes, 2 regions, attached at page 0, at the data page or at what is free above | Frames of code and regions stay; references do not exceed mappings until a process exits with a region at page 0; the kernel stays mapped. |
| `memory_cow` | 3 processes, 1 data page, 1 region attached at the handler's window, 11 frames | Copy-on-write implements `PrivateMemory`, the last frame and a window in use included; no fault hangs. |
| `keyboard` | buffer of 3, 3 characters, reads to 4 | The ring buffer implements `KeyQueue`; drops only when full. |
| `kernel` | 4 slots, quantum 1, 3 forks, 12 frames, 1 region | Scheduler and memory agree on the processes; waiting tasks can be resumed; only a lone yield goes astray. |
| `base_kernel` | 4 slots, quantum 2, 3 forks, 1 pending unblock, 3 data pages, 23 frames | Lists and states agree; no unblock is lost; only parents wake; idle is the end; both parts agree; forks share no frame and failed ones leave nothing; every ready process runs. |
| `mailbox` | keyboard of 3, 3 characters, 2 of them directions | The word implements `KeyChannel` for every interleaving of accesses, whether the key variable keeps the last key or not; what the reader tested is still so when it stores; keys get through. |
| `game` | board 5 by 7, sight 3, 2 lives | Nobody is in a wall; points are food eaten; nobody passes through; phantoms take shortest ways and catch who stands still. `Board`'s assumption is evaluated here, on the code's own board. |
| `game_screen` | screen 6 by 5, board 2 by 2, 2 pictures, pieces of 2 | The cursor stays on the screen; a frame nobody disturbed is right whatever came before; a text is written whole. |
| `memory_exit`, `game_list` | small | Divergences, section 5. |

**Why the bounds are enough.** Three processes allow a parent, a child and a
grandchild, so a frame can have three users, lose them in every order and be handed
out again. Free frames run out within the bound, so failed forks and faults
without a frame happen, in the base kernel too, whose exits give back only some of
theirs. In `memory_cow` two forks use up the frames that the boot left, so the next fault
loses a page; in `memory`, with 15, three sharers still get a copy. Five slots let three processes wait, the fewest for which
order in the queue is more than first and last. A buffer of three wraps many
times and fills, and reads may ask for more than there is. `MaxPID` bounds forks,
not exits: slots are used again in `scheduler`, `kernel` and `base_kernel`. `memory_shm` has
neither guard pages nor stores: page 0 stands for every page below the data that is not
present, since code and fork treat them alike. `RefSlack`
bounds how far repeated `shmdt` calls push a count below zero. Quantum 1 in `kernel`
makes every tick a possible switch; the others have quantum 2. In `base_kernel` three
data pages against two of code make the loops that start at the wrong page miss some
and hit code, as in the real map. The small board has two dead ends, a corner and the
phantoms' yard, a loop; four phantoms start there as in the code, and the sight of 3
makes them lose the pacman. The last row of the screen and its last column are reached
by `clear_screen` and by the parent's text, whose five characters need three pieces.

The quantum, the PID bound and the table size only matter as parameters in the
theorems, which hold for all of them (the code: `NR_TASKS` 10).

**Restricted workload.** `memory_cow` uses `CowSpec`: nobody exits while it
shares a data page, and system calls store only where the process could itself.
Outside of it copy-on-write is broken, as `memory_exit` and section 5 show; the
run and the theorem show that the rest of the mechanism is right. Frames do run out
under `CowSpec`, since each fork keeps some for good, and page 285 may be attached: there
the code fails too, and `PrivateMemory` says what that costs.
`memory` runs under the full `Spec` and excepts frames in `freed_shared`, a history
variable of the frames exits freed under others' feet.

**Fairness.** Weak fairness throughout, and only of what the timer drives:

- `scheduler`, `base_kernel`: `clock_routine`. The timer interrupts for ever and user
  code runs with interrupts on. No process is assumed to yield, exit, fork or unblock.
- `mailbox`: each process goes on from where it is, which is `ReadyRuns` for these
  two. Nobody is assumed to type, or the game to end.
- `game`: a turn follows the last, since the ticks it waits for come. Which
  direction is in the word is up to the player.

## 4. Proofs

All for every value of the constants, from the named assumptions:

- `SchedulerAssumption`, `BaseAssumption`: at least two slots, a positive quantum,
  PIDs from 1000.
- `MemoryAssumption`: the boot's frames and page 285 exist; a count of all data pages
  of all processes fits a byte (9 times 20 in the code).
- `BaseMemoryAssumption`, `SlotsAreTasks`: the boot's frames exist, there is more data
  than code (20 pages and 8), and both parts of the base kernel have the same slots.
- `KernelAssumption`: the parts' sizes agree. `KeyBufferAssumption`: a positive size.
- `MailboxAssumption`: two processes, no key that means empty.
- `GameAssumption`: the board is a matrix with walls all around, and pacman and
  phantoms start where it is open.
- `ConsoleAssumption`, `ScreenAssumption`: positive sizes; the board with its margins and
  labels is on the screen, a picture has the board's size, no text is longer than the
  screen (the code: 80 by 25, a board of 50 by 20).

Recursion and induction. The provers take no induction over data as such, so
`QueueLemmas` derives what is needed in the form of sets: `SetInduction` (a set of numbers
with 0 and every successor is `Nat`), and `Recursion`: a recursive definition whose value at
a point depends on points of smaller measure alone has a solution. With these follow
that a set of frames has a k-th lowest (`KthLowest`), what filtering a sequence gives,
that `bfs` is what its recursive definition says, and what a fold over calls does.

**Scheduler.** `IInv` is the conjunction of the invariants; none but the type is
inductive alone. Queueing the running task keeps queues disjoint because it was
on neither (one place), is done without unlinking because its state is `ST_RUN`
(state field), and never queues idle because idle runs only with an empty queue.
One lemma per handler; `SwitchSafe` carries the switch that all share.
`QueueLemmas` has what both schedulers need of sequences without repetition.
`FirstComeFirstServed` (`NoOvertaking`) is an action property from the same invariant:
every handler takes from the front, adds at the end or leaves the queue alone.

**Bounded waiting** (`WaitIsBounded`). A ready process runs in fewer than
`(NR_TASKS - 2) * DEFAULT_QUANTUM` ticks. The argument is a budget: ticks waited, plus
what is left of the quantum, plus a quantum for each process ahead, is at
most that bound when the process is queued, and no handler makes it grow. A newcomer
fits because one slot is idle's and one is running (`QueueShort`, by counting
distinct slots). This is the safety form of no starvation; the liveness form stays
with TLC.

**Memory.** Three invariants, each on top of the one before.

- `IInv`: the type; the frames of code and regions stay reserved (`ReservedKept`); data
  pages map none of them (`DataApart`) and a lost one is writable, so it never faults
  again (`LostIsWritable`); live processes have the kernel one to one
  (`KernelInPlace`), and nothing but kernel, code and regions outside the data
  (`OthersReserved`). From it `BootFramesKept` and `KernelMapped`: an exit frees what
  its data pages map, which is no reserved frame.
- `CInv` adds that a count is the number of data mappings (`Counted`) and that a page
  that may be written has the only one (`Owned`), for frames that no exit freed
  while shared and that are frames. From it `CountIsMappings`, `WritableIsPrivate`, and that counts never
  wrap around.
- `CowInv`, under `CowSpec`: no frame was freed while shared, no fault hung. With it
  `CowIsCopying`: under the mapping of a process's page to the content of its frame,
  fork is `Fork`, a store to a private page is `Store`, and a fault is a stutter,
  because what it copies and what it frees is nobody else's. With no frame left it
  is `Lose`: the old frame keeps its content for the others, whose count is right. With
  the window in use the copy may go to the region's frame, which is no data page's: then
  the new page has whatever its frame had, `Miscopy`.

`ReferencesHaveMappings` has an invariant of its own, `RInv`: an absent entry outside
the data maps frame 0 (`AbsentMapsNothing`), and the count of a region that is not in
`left_attached` is at most the number of pages live processes have of it, wherever they
are. The proof has to know that page 0 and the guard pages can hold a region: only
the exit of a process breaks the bound there, and it puts the region into `left_attached`.
The counts are of finite sets, related by bijections and one-element differences.

**Kernel.** `KInv` adds to the scheduler's invariant that `live` is the set of
processes, and that every waiting task has a pointer left by fork, clock or yield
into its own stack. It needs the scheduler's part: the first free slot is nobody's,
so fork writes over no process and no good pointer; the slot that exits is not
queued, so its dead pointer is not resumed. `KernelIsScheduler` and `KernelIsMemory`
show that the kernel implements both parts, and `KernelLosesNoSlot` carries
the main invariant over. The second needs `KInv`: a call's process has a slot of the memory.

**Keyboard.** `BufferIsQueue`: the buffer implements the bounded queue under the
mapping `keys`, the window of `count` elements from the read index, modulo
the size. The lemmas say how a window grows at one end (`WindowGrows`: the cell
written is in no other position, since fewer than the size are in use) and is cut
at the other (`WindowPart`). The invariant is the type and `IndicesAgree`.
The first interrupt resets the indices; that loses nothing because before it the
buffer is empty.

**Screen.** `CursorStaysOn`: no step leaves the screen's rows and columns, so nothing is
stored behind it. `TextsAreWhole` and `FramesAreRight` need to know what a call does
without going through its characters again, so each kind of call has a contract, `Did`:
a write (`Wrote`) leaves its text at the places from the cursor on, going round at the
end of the screen, every other place as it was, and the cursor behind. `CallDoes` shows
it, in two folds: over the characters of a piece, by where the cursor is after k of them
(`Upto`), and over the pieces `sys_write` copies, which cover the text without gap or
overlap (`PieceSteps`, `WriteWhole`). A function that draws has an *outline*: one set
of displays before, between and after its calls, such that each call leads from one to
the next. Outlines are put together as the functions are: one after the other
(`CallsThenCalls`), a loop over rows or phantoms (`CallsInTurn`), and calls beside the
board, which change none of it (`CallsBeside`). `PhaseDrawn` gives each phase an outline
that begins with *every* display and ends with the right ones; that is the point, since a
frame finds whatever the other process left. The invariant `ScreenInv` says that unless
disturbed, the display is in the set of an outline where the drawing is; it is inductive
and gives the frame when all calls are done.

**Game.** `NobodyInAWall`, `PointsAreRight`: the invariant adds the shape of `links`: the
head alone, the head and its entry, or broken for good, the case `game_list` exhibits.
Points grow with food eaten in all three and are lost only when `NULL->prev` is stored to,
in the third. `NobodyIsPassed` looks into the search: a phantom that stands at its target
gets `DT_NULL` and stays. `ShortestWays` is the correctness of `bfs` on every
board. The invariant of the search, `Explored`, is over its queue: nodes are in the order
of their distance from the start, from the front on there are two distances at
most, all cells nearer than the front were visited, each node has the first step of
a shortest way to it (`Way`). It ends, since cells not visited and the rest of the queue
shrink (`left`), so the recursive definition means something (`SearchComputed`). A phantom
that takes a first step of a shortest way is one step closer, and since steps can be
reversed the distance from the phantom is that of `distance`, from the pacman.

**Mailbox.** `NothingIsOverwritten`: only the parent puts a direction in the word while
the game goes on, and only the game clears it, so a word found empty stays so until
the parent stores. The child reads keys only after the game, when the word no longer
matters. `KeysArriveInOrder` is the refinement, with `Again` for a read that finds no
key and a variable that still has the last one: under the mapping that takes what is
pending to be the directions in the word, in the reader's hand and among the keys in the
buffer, in this order, every access is a step of `KeyChannel` or a stutter. It needs two
facts more (`RInv`): the game takes only when there is a word (`WordIsThere`), and a
direction left in the reader's variable is the last that got to the word, or no
direction was handled yet (`LeftIsLast`), so what comes again is no other direction and
comes when nothing is on its way.

**Base kernel.** The invariant of `BaseSchedulerProofs` adds to the run's properties that
idle never blocks and runs only when nobody is ready, that what exit loses stays on
`blocked`, that PIDs grow (so a new child's differs from its siblings'), and that every
process but the first has page 0 mapped. The last is why `sys_block`, which unlinks a
task that is on no list, comes back for them. `IdleIsFinal` and `ParentsWake` are
action properties from the same invariant. `KernelIsBaseScheduler` carries all of it
to `BaseKernel`.

Its memory has an invariant on top, `MInv`: types, frame 0 is the kernel's, what a process
maps is marked as used, the pages fork borrows are unmapped between calls, and until the
first exit no data frame is mapped twice (`ForksShareNoFrame`; exits give
frames back that others still run). Fork takes the lowest free frames one by one, so its
child's are different and nobody's (`KthLowest`). From it `SchedulerAndMemoryAgree`
(`PartsAgree`), `ForksAreApart`, and `ForksAreClean` (`ForkLeavesNoTrace`): a fork that fails has
given back exactly what it took, and one that succeeds copies over frames that are
the child's or code. It copies them one after the other, and may read a frame it has
written, since one given to the child can be the parent's code that an exit freed;
`CopyComputed` shows that this recursive definition means something.

**Only model-checked**: liveness, which is out of the prover's reach (`ReadyRuns` of
both kernels, `KeysGetThrough`, `SeenIsCaught`). Every invariant, every action property and
all three refinements that a passing run checks are theorems too; `WaitIsBounded` is the
safety form of `ReadyRuns`. What the two runs of section 5 refute is no theorem.

## 5. Where the code and its comments part

Shown by a run:

- `memory_exit`: exit frees every data frame whatever its count (`sys.c:337`).
- `game_list`: `start_game` links its only `t_mov` again when a direction comes before the
  last was taken (`game.c:503`). Deleting it then leaves the head pointing at it
  (`list.c:69`), and later deletes store 0 over `game->points` through null links.

Stated in the modules, without a run because they do not hold and would only repeat what
is read off the code (each was seen violated by TLC):

- `Kernel.YieldReturns`: `inner_task_switch` reads the pointer to load before the current
  one is saved (`sched.c:258`). A process that yields alone is switched to itself with
  an old one; task 1, before its first switch, with 0. The run `kernel` shows that
  this is the only such switch.
- `Scheduler.GetStatsKnowsOnlyProcesses`: a failed fork leaves its parent's PID in a free
  slot, and `sys_get_stats` answers from it after the parent is gone (`sys.c:395`).
- `Memory.UsedFramesMapped`: fork allocates frames (`sys.c:88`) and then maps the parent's.
- `Memory.SystemAndCodeCopied`: fork copies frame numbers and not protection: kernel
  pages open to user code, code writable, page 0 mapped against `mm.c:65`.
- `PrivateMemory` with `copy_to_user`: the kernel stores through read-only pages, so what
  `sys_read` stores for one process shows in its relatives (`sys.c:124`).
- `BaseKernel.ForkCopiesData`: the loop that copies data (`zeos/sys.c:99`) starts behind
  kernel and code, but data comes before code, so the first data pages are not
  copied, and the parent's code frames are written with themselves.
- `BaseKernel.CodeFramesKept`: exit's loop starts at the same page and frees code frames
  that others run (`zeos/sys.c:138`, against the comment above it).
- `BaseScheduler.ExitFreesSlot`: `sys_block` goes on running until the turn is over. A
  process that exits in that time is not moved to the free queue, since
  `update_process_state_rr` sees `ST_BLOCKED`: its slot stays on `blocked` for good
  (`zeos/sys.c:143`, against the comment at `:135`).

Met while modelling, part of the models:

- A fault on an unmapped page is judged by the count of frame 0, which is 1: `rw` is
  set in an absent entry and the fault repeats for ever (`interrupt.c:146`).
- The fault handler fills the new frame through page 285 without a TLB flush; a
  region attached there gets the copy instead (`interrupt.c:160`).
- `alloc_frame`'s -1 is not tested by the fault handler, which has dropped the count of
  the old frame by then (`interrupt.c:153`, `:156`): it maps 0xFFFFF writable, the page's
  content is lost, and the next fork counts `phys_mem[0xFFFFF]` (`sys.c:129`). Each fork
  keeps frames for good, so this comes after some 18 of them.
- `sys_shmat` takes page 0 and the guard pages, which are not present (`mm.c:65`), but
  exit's loop starts above the data (`sys.c:344`): the reference of a process that exits
  with a region there is never dropped.
- A read that finds no key leaves `b` alone (`game.c:336`). With `-O2` the variable
  still holds the last direction, which then goes to the word again as soon as that is
  empty. The game handles it once more, and links its `t_mov` again (`game.c:503`): one key whose
  direction is not open yet is then enough for what `game_list` shows.
- `sys_shmrm` lets id 10 pass, one behind the array (`sys.c:317`).
- `sys_shmdt` without a mark leaves the page mapped and can be repeated; counts go below
  zero (`sys.c:304`). Exit uses the inner loop's `i` to unmap (`sys.c:353`).
- The parent's write in the middle of a frame shifts the rest of a row, and what lands
  beside the board stays there until the screen is cleared (`user.c:39`).

## 6. Not modelled

- Page numbers from `TOTAL_PAGES` up: `pagusr_table` rows are adjacent, so such a number
  reads the next process's table (`sys.c:256`). The directory level is left out.
- Tick counters of `p_stats.c`: nothing decides by them. The arithmetic of `access_ok`.
- `printc_xy`, which echoes a key in a corner, the clock that `libzeos.a` draws, and the
  value of the frames per second. They leave cursor and board as they are.
- Console, copies and wrappers of the base kernel: the same files in an earlier form.
  Its `sys_write` advances in its static buffer of 64 bytes together with the text
  (`zeos/sys.c:198`, `:203`), so a longer text, which `zeos/user.c:25` tries, goes past it.
- `libc.c`, `user-utils.S`: conversions and system call wrappers without state.
- Boot, segments, `build.c`, linker scripts: run once before there is any
  concurrency, or on the host.
- `libzeos.a`, `libuser.a`, `libauxjp.a`: no source.

## 7. Order of work, and what is left

The kernel came first (`Scheduler`, `Memory`, `KeyBuffer`, `Kernel`), then what runs on it
(`Mailbox`, `Game`, `Console`, `GameScreen`) and the kernel it grew from (`BaseScheduler`,
`BaseMemory`, `BaseKernel`); each was checked before it was proved about. Left, in
the order of what it would add: a measure that gives `SeenIsCaught` a safety form, as the
waiting bound does for `ReadyRuns`; tick accounting over changes of mode; the ranges of
`access_ok`.
