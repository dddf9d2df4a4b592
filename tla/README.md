# ZeOS in TLA+

Models, model checks and proofs of ZeOS, the teaching kernel in `src/zeos`
(32-bit x86, one processor), and of the Pacman game that is its user program.
Every definition is read off the C and assembly sources; `PROJECT.json` maps it
to the lines it stands for.

## 1. The system

| Part | Source | State | Operations |
|---|---|---|---|
| Processes, scheduler | `sched.c`, `sys.c`, `interrupt.c`, `kernel_misc.S` | `task[]` (PID, state, parent, sons, bros, pending_unblocks), `freequeue`, `readyqueue`, `blocked`, tick counter, `next_pid` | fork, exit, block, unblock, numsons, numbros, clock interrupt |
| Linked lists | `list.c` | links inside the PCBs | add, add_tail, del, size |
| Memory | `mm.c`, `sys.c`, `interrupt.c` | `phys_mem` (references per frame), page tables, `shared_pages` | memory side of fork and exit, shmat, shmdt, shmrm, page fault |
| Keyboard | `interrupt.c`, `circular.c`, `sys.c` | circular buffer `cbuff` | keyboard interrupt, read |
| Console | `io.c`, `devices.c`, `sys.c` | cursor, colours, video memory | write, gotoxy, set_color, printk |
| System call path | `user_misc.S`, `entry.S`, `sys_call_table.S` | registers, user and kernel stack, errno | wrappers, sysenter handler, interrupt entry |
| Game | `pacman.c`, `user.c` | map, Pacman, ghosts, timers, lives, leaderboard | one frame: input, Pacman, ghosts, timers, end of round |
| Input process | `user.c` | one byte in shared page 0 | read keys, store the last one |
| Pointer checks, copies | `utils.c`, `sys.c` | the caller's page table | access_ok, copy_to_user, copy_from_user |
| Path search | `pacman.c` | queue or stack, visited, previous | dfs, bfs, dijkstra (calls commented out) |
| Context switch | `kernel_misc.S`, `sched.c`, `sys.c` | kernel stacks, `kernel_esp0`, TSS, MSR, CR3 | task_switch, switch_stacks, first run of a child and of idle |
| User library | `libc.c` | - | strings, numbers, rand, sleep |
| Boot, segments, IDT, image builder | `bootsect.S`, `system.c`, `hardware.c`, `mm.c`, `build.c` | hardware tables | executed once, or on the host |

How the parts interact. User programs enter the kernel only through the system
call path; the clock and the keyboard enter it by interrupts. Gates are
interrupt gates and sysenter clears IF, so every handler runs to its end with
interrupts disabled: inside the kernel there is no interleaving, between
handlers every order is possible. fork and exit are one handler that changes
process state (`Process`) and memory (`Memory`). The game and the input process
are parent and child that share page 0.

What is hard here: calls of parents and children in orders nobody wrote down
(block before unblock and after it, exit before or after the sons'), PCBs reused
or lost with stale pointers in them, reference counters under any mix of fork,
fault and exit, failures half way through fork, boundary cases of unsigned and
circular arithmetic, stacks that are left in the middle of a function and
entered again much later, and starvation. `PROJECT.json` lists these hazards with
the line where each bites and the properties that watch it.

## 2. Modules

| Module | Models |
|---|---|
| `Process` | processes, queues, family tree, scheduler |
| `List` | the operations of `list.c` on next and prev |
| `ProcessLists` | `Process` over the real links; implements `Process` |
| `Memory` | frames, page tables, fork, exit, shared pages, copy on write |
| `AddressSpace` | abstract: processes with private memory |
| `Kernel` | `Process` and `Memory` composed |
| `Keyboard` | keyboard interrupt, circular buffer, read |
| `Fifo` | abstract: a bounded queue |
| `UserMemory` | `Keyboard` with access_ok, copies, read and write through user pointers |
| `Input` | `Keyboard`, the input process, the shared byte and the game's use of it |
| `Console` | screen, write in chunks, gotoxy, set_color |
| `Terminal` | abstract: a text laid out from the cursor |
| `Syscall` | the running process's view of a system call |
| `Switch` | `Syscall` with several processes and task_switch |
| `Pacman` | the rules of the game, frame by frame |
| `PathSearch` | dfs, bfs, dijkstra |
| `ProcessProofs`, `ProcessListsProofs`, `MemoryProofs`, `KernelProofs`, `UserMemoryProofs`, `InputProofs`, `PacmanProofs`, `SwitchProofs` | proofs about the module of that name; those about `Keyboard` are in `UserMemoryProofs`, those about `PathSearch` and `Console` in `PacmanProofs` |
| `MC...` | instances for TLC |

**Process.** One action per handler. `current` is the PCB whose kernel stack
is in use; the assembly of `task_switch` appears only as its change (see
`Switch`). The ready and free queues are sequences, `blocked` and each sons
list are sets, because no code depends on their order. `quantum` is always
INIT_QUANTUM. The outcome of the memory side of a fork is nondeterministic.
Where the code follows a link that is NULL, or links a node that is already
linked, the variable `fault` names it and the behaviour ends: in the first case
the page fault handler spins for ever with interrupts disabled, in the second
both lists are corrupt.

**List, ProcessLists.** `links` holds next and prev of every `list_head`: the
three queue heads and `node`, `bros` and `sons` of every PCB. `List` has the
assignments of `list.c`; `ProcessLists` makes the calls of `sched.c` and
`sys.c` in their order, fork's copy of the whole PCB included. Whether a call is
on a misplaced node is decided from the links alone; that this is so in exactly
the states where `Process` sets `fault` is part of the refinement. The mapping
reads each queue off the links by walking it.

**Memory.** Any live process may take the next step, any free PCB serves a
fork. USE_COW is a constant (0 in the sources); both variants are checked. A
page holds one value. alloc_frame's holes, the `>` of free_frame, the shift by
12 bits that keeps fork and exit from recognising shared pages, and the
entries that exit leaves in the table are all there.

shmat and shmdt check that an address is a multiple of the page size and
nothing else; its page number, and in the fault handler that of any address,
becomes an index of the caller's table. `pagusr_table` is one array
(`mm.c:28`), so the index may be an entry of a later PCB's table (TableOf,
PageOf), of idle's, which is the last, or of what lies behind the array. Addr
is the set of page numbers that programs pass, any subset of the address space.
An attach goes through as in the code as long as its entry is above the program
in some process's table, be it another's and be its PCB free. Every other free
entry ends the behaviour (`halted`), as does a spinning pgf_routine: the entry
of a free PCB's data or code page is overwritten by the next fork and, when that
fork fails, freed as if it were data; page 0 is copied by every later
fork; idle's table and what lies behind are not part of `pt`. Two faults inside
the kernel are not followed further than to `halted` either: zero_out at an
address that only another process has mapped, and the copy of another's
page in the fault handler, which would enter the handler again. The page number of
a fault is signed (PH_PAGE), so that from 2 GB on it is negative.

**Kernel.** `Process` and `Memory` are instantiated with the same PCB numbers.
fork and exit are one action each that takes a step of both: the PCB is the
head of the free queue, the outcome is what frames and page table allow, and
exit frees memory only if the lists let it get there. Only the running process
uses its memory.

**Keyboard, UserMemory.** kbd_routine and sys_read are one action each. A scan
code beyond the end of `char_map` yields any character. `UserMemory` adds
the pointer: addresses wrap at UINT, sizes are signed where the code has
`int` and unsigned where access_ok has `unsigned long`; the state records which
addresses the last call copied from or to, and the page on which the kernel
faulted. attach and detach stand for shmat and shmdt as far as the caller's
own table goes.

**Input.** The input process and the game are preempted anywhere: read, the
store and each sample of the byte are steps of their own. The byte and the name
begin with whatever was in memory. What happens within a frame is left to
`Pacman`; a round may end after any frame, and a frame may never end
(stuck_frame), as one in which a ghost is shut in does.

**Console.** printc is applied to one character after the other, chunk by chunk.

**Syscall, Switch.** Stacks are sequences; the wrapper, the handler and the
shared epilogue push and pop in the order of the assembly. Interrupts come in
user mode. `Switch` keeps for each process only what memory keeps, its stacks
and `kernel_esp0`; a process that comes back gets its registers by popping. The C
functions between handler and task_switch save the registers they use, as the
calling convention says, and leave other values in them. Which process is next
is any.

**Pacman.** A frame is several steps, ordered by `pc`. A key is any direction,
a ghost takes any move that the redraw loop would accept. NUM_LIVES is a
constant, so that respawning (dead code with the one life of `pacman.h`) is
checked too.

**PathSearch.** Maze, start and target are chosen at the beginning; each
iteration of a search and of the way back is a step. Reading an element of
`previous` that was never written and writing behind the array end the
behaviour. What dfs reads behind `visited` is any value.

## 3. Runs

| Run | Shows | Bounds | States |
|---|---|---|---|
| `process` | queue, state, family and PID consistency, no lost process or wakeup, when a blocked process runs, no starvation | 5 PCBs (idle, the first process, three more: siblings, orphans, grandchildren), MAX_PID 5 so that PCBs are reused, 1 pending unblock | 725k |
| `list` | both directions of every list agree, walks count, `ProcessLists` implements `Process` | 4 PCBs, MAX_PID 5, 1 pending unblock | 58k |
| `memory_cow` | counters, no dangling page, refines `AddressSpace` with copy on write | 3 processes, 1 data page, a frame shared by up to three, 1 shared page; NULL and the page number of the next PCB's data page | 716k |
| `memory_shm` | `num_refs` counts entries | 2 processes, 2 shared pages, 3 references each, logical pages run out; NULL, a page of the caller's own, the next table's page 0, data page and a high page, a kernel page, idle's table or behind it, a negative page number | 255k |
| `kernel` | PCBs, frames, windows of fork and private memory, scheduler and memory together, default build | 3 PCBs and idle, 2 data pages, frames for two processes: forks fail half way | 1.1M |
| `usermem` | kernel memory untouched, where faults come, exact transfers, what access_ok accepts; the circular buffer refines `Fifo` | 3 slots, words of 2 bytes, pages of 4, addresses of 7 bits, 6 pointers and 5 sizes at the boundaries | 172k |
| `input` | keys in order, names as typed, the game follows the last key unless a frame never ends | 2 characters in the buffer, 3 typed, names of 2, 2 games, 4 characters | 230k |
| `syscall` | right routine and arguments, registers, stacks, errno, complete switches | all 15 wrappers, 3 raw numbers, 2 results, idle and 2 processes, 2 sets of register values | 1.4M |
| `console` | refines `Terminal` | 2 x 2 screen, chunk of 2, texts of up to 5 with every prefix | 25k |
| `pacman` | map, timers, pellets; eaten ghosts return | 2 ghosts, 10 tiles, 2 lives, timers of 3 and 4 frames, word of 2^10 | 871k |
| `paths` | bfs complete and shortest; bfs and dijkstra end inside their arrays | every maze and target on 3 x 3, starts in a corner and in the middle | 41k |
| `exit_hang` | refutes ExitTerminates | 4 PCBs | - |

Bounds are the smallest at which the cases meet: two data pages because
copying one page twice is a different mistake from not copying; timers that are
a multiple of the frame because the constants of `pacman.h` are; texts that
straddle chunk, row and screen; pointers on the last byte below and the first
byte of the image, at its end, above it and at the end of the address space.
In `kernel` INIT_QUANTUM is 0, so that every clock interrupt may switch, and
nothing is unblocked or attached: those are in `process` and `memory_shm`.

`Memory`, `Pacman` and `Keyboard` also define TypeOK, and `Console`
CursorOnScreen, which document their variables. The runs do not list them; they
are proved.

Deadlock is checked everywhere. Where the machine really stops (a fault,
idle, game over) it spins, and the model has that loop as an action.

**Fairness.** `Process` assumes weak fairness of clk_routine only: the timer
interrupts whatever programs do, and user code cannot mask it. Programs get no
fairness. `Pacman`, `Input` and `PathSearch` assume that the game process, and
in `Input` also the input process, keeps taking steps: neither ever blocks, and
a process that is ready runs (ReadyRuns). In `Input` that holds for the
loops of input_processing, get_player_name and the frames; that a round or a
game ends is not assumed, nor that anyone types. That every frame ends is not
assumed either: stuck_frame may be taken instead of any frame, and disables
all further ones. GameFollows therefore has the same exception as GhostsReturn:
the game follows the last key, or it has stopped in a frame.

**Plausible bugs.** Each property was also tried against a wrong variant of the
code, and TLC finds it violated. The variant stands in the module just before the
definition it would replace:

| Module | Variant (of) | The mistake | Told by |
|---|---|---|---|
| Process | WaitsOnOne (MustWait) | block waits when an unblock is pending | TypeOK |
| | WaitsAlways (MustWait) | block forgets pending unblocks | BlockedNoPending |
| | RequeueExited (Requeue) | a process that has exited becomes ready | QueuesDisjoint, PcbsAgree |
| | RequeueBlocked (Requeue) | a blocked process becomes ready | StateMatchesQueue |
| | ReadyVictims (victims) | exit forgets blocked sons | FamilyTree |
| | ParentPidPlusOne (ChildPid) | PIDs follow the parent's | Pids |
| | BrosKept (exit_sons) | exit stays among its siblings | NumbrosCountsSiblings |
| | IgnoresBlocked (needs_sched_rr) | block does not ask for a switch | RunsBlockedOnlyExpired |
| | BlockedYieldsToIdle (IdleTime) | block switches to idle at once | IdleForever |
| | ExpiryIgnoresQueue (needs_sched_rr) | an expired quantum always switches | NoProcessLost |
| | list_add (list_add_tail) | the newest runs first | ReadyRuns |
| List | HeadCounted (list_size) | the anchor is counted too | ListsSound |
| ProcessLists | HeadNotReset (NewSonsHead) | a child keeps its parent's sons head | ListsSound |
| | EnqueuedFirst (Enqueued) | queued at the wrong end | ListsImplementQueues |
| Keyboard | NeverWraps (next_idx) | no modulo | FifoSpec |
| | FullWhenEqual (is_full) | full and empty confused | FifoSpec |
| UserMemory | NoOverflowTest (overflow) | a sum that wraps is accepted | KernelUntouched |
| | LastPageUnchecked (check_allocated) | `<` for `<=` | FaultsAtEdgeOnly |
| | WordsRoundedUp (Words) | the copy moves whole words only | TransfersExact |
| | ShortImage (inImage) | the last page is refused | AccessOkAccepts |
| | WriteAnyPage (inWritable) | writing needs no attached page | AccessOkAccepts |
| Input | StoresAlways (AfterRead) | nothing read is stored too | KeysConserved |
| | StoresNever (AfterRead) | the condition is inverted | GameFollows |
| | SameKeyAgain (IsNewChar) | a key is taken at every sample | NameIsTyped |
| | NoDefaultCase (processInput) | other keys do not stop Pacman | GameFollows |
| Memory | NeverFreed (free_user_pages_mem) | exit keeps its frames | FrameRefs, FramesCounted |
| | CodeFreedToo (free_user_pages_mem) | exit frees the code that others run | NoDanglingPage |
| | RefsDropped (RefMoved) | a fault keeps the old frame's reference | FrameRefs |
| | StillWritable (ParentReadOnly) | the parent writes to shared frames | PrivateMemory |
| | FirstFrameCopied (CopiedPage) | fork copies one page everywhere | OnlyOwnMemory |
| | TempKept (TempDeleted) | fork leaves its windows open | TempMapsRemoved |
| | RefsKept (RefsLess) | shmdt does not count down | RefsCountEntries |
| Pacman | TileKept (TileUnder) | a ghost carries the wrong tile | PelletsNeverGrow |
| | WalksAnywhere (MayWalk) | Pacman walks through walls | WallsStand |
| | MeasuredTime (Elapsed) | timers skip zero and wrap | TimersDoNotWrap |
| | Stopped (Less) | timers stand still | GhostsReturn |
| PathSearch | TakesLast (Taken) | bfs takes the newest point | BfsRight |
| | MarkedLate (Marked) | points are marked when taken | SearchEnds |
| | MarkedNever (Marked) | points are never marked | SearchEnds |
| Syscall | TableOffByOne (sys_call_table) | the table starts at 1 | RightRoutine |
| | EdiFirst (RestoreOrder) | registers popped in another order | CallerStateKept |
| | EaxNotSaved (SAVE_ALL) | end of interrupt before SAVE_ALL | ErrnoConvention |
| Switch | PopsSwapped (TaskSwitchPops) | task_switch pops in another order | SwitchComplete |
| | MsrNotSet (MsrOf) | the MSR keeps the old stack | SwitchComplete |
| Console | ColumnsUnchecked (OnScreen) | gotoxy beyond the last column | TerminalSpec |
| | NoLastChunk (NumChunks) | the rest of a text is not written | TerminalSpec |

## 4. Where code and documentation disagree

The run `exit_hang` refutes a sentence of the README:

* **ExitTerminates**: a process whose child has already exited hangs the
  kernel when it exits itself (`sys.c:239-242`).

The modules state others in the same form; TLC refutes each when it is checked
with the constants of the configuration named here.

| Property | Configuration | The code |
|---|---|---|
| RunningInNoQueue | `MCProcess.cfg` | block with an expired quantum and an empty ready queue keeps running (`sched.c:206`; comment `sys.c:285`) |
| NumbrosReturns | `MCProcess.cfg` | numbros of the first process walks NULL links (`sys.c:327`) |
| NumsonsCountsSons | `MCProcess.cfg` | numsons is one too small (`sys.c:323`) |
| SizeIsCount | `MCUserMemory.cfg` | `size` is never updated (`circular.c:18`) |
| RefusedIsInvalid | `MCUserMemory.cfg` | access_ok refuses mapped blocks that end with their page or lie across USER_LAST_PAGE (`utils.c:94-105`; comment `utils.c:80`) |
| CodeNotWritten | `MCUserMemory.cfg` | VERIFY_WRITE skips the first pages as if they were the code, which comes after the data (`utils.c:93`, `mm_address.h:8`) |
| ShmdtDetaches | `MCMemory_shm.cfg` | shared page 0 cannot be detached (`mm.c:246`, `sys.c:415`) |
| AttachesOwnPage | `MCMemory_shm.cfg` | shmat makes its entry in another process's table, or outside all, when the address is 4 MB or more (`sys.c:386-395`) |
| ExitFreesRefs | `MCMemory_shm.cfg` | exit finds no shared page (`sys.c:253`) |
| ForkCopiesShared | `MCMemory_shm.cfg` | fork copies no shared page (`sys.c:187`) |
| OneRefIsSole | `MCMemory_cow.cfg` | code frames have one reference for all processes, so a write to code makes it writable (`interrupt.c:158`) |
| NoDanglingPage | `MCMemory_cow.cfg` with USE_COW = FALSE and two data pages | a failed fork leaves temporary mappings (`sys.c:163-166`) |
| PrivateMemory | `MCMemory_cow.cfg` with CallsRead = TRUE | read writes through read-only entries, as CR0.WP is not set (`mm.c:115-119`) |
| EaxBelowMax | `MCSyscall.cfg` | call number MAX_SYSCALL is accepted (`entry.S:131`; comment `entry.S:130`) |
| NotImplementedIsENOSYS | `MCSyscall.cfg` | sys_ni_syscall returns -38, ENOSYS is 40 (`sys.c:79`) |
| NameIsOwn | `MCInput.cfg` | the first character of a name may be the byte's old value (`user.c:100-101`) |
| GhostCanMove | `MCPacman.cfg` | a ghost that is shut in redraws for ever (`pacman.c:784`) |
| CollisionSeen | `MCPacman.cfg` | against a wall the collision is looked for in the wall (`pacman.c:685`) |
| FirstMoveFound | `MCPathSearch.cfg` | bfs and dfs return the direction from the first point to the target, and UP and DOWN are swapped in getNextPoint (`pacman.c:563`, `500`; comment `pacman.c:603`) |
| Complete | `MCPathSearch.cfg` | dequeue overwrites the node it moves down on and loses others; dfs misses points (`pacman.c:20`, `534`) |
| StackFits | `MCPathSearch.cfg` | dfs tests `visited[x][y]` and pushes points again and again (`pacman.c:534`) |

## 5. Proofs

A run shows a property for the constants of its configuration, a theorem for
all values that the ASSUME of the module allows. Every theorem below is checked
by TLAPS down to the last leaf; each inductive invariant was first checked by
TLC.

**ProcessProofs**: `ProcessInv` is an invariant of `Process!Spec`, for every
number of PCBs, quantum and bound. It conjoins TypeOK,
QueuesDisjoint, StateMatchesQueue, FamilyTree, Pids, BlockedNoPending and
IdleAlone. None of the parts is inductive alone: the scheduler keeps the
queues disjoint because the state field tells the queue; the state field can be
trusted because fork takes PCBs that are in no other queue; that a process
switched away from is not idle is decided by PID 0, and so needs PIDs to be
unique; that exit takes the right sons needs both halves of FamilyTree; and
that idle is never asked to give way needs IdleAlone. There is one lemma per
action; `SchedNext` states once what sched_next_rr does to queues and states,
`TailLemma` and `AppendLemma` what Tail and Append do to the range of a queue
without repetitions. From the invariant follow NumbrosCountsSiblings and the action
properties IdleForever, NoProcessLost and OnlyParentUnblocks. That a process
runs in the blocked queue only with an expired quantum
(RunsBlockedOnlyExpired) is inductive together with ProcessInv: sys_block keeps
the processor only if needs_sched_rr took the branch of the quantum, later
clock interrupts do not lower the counter unless they switch, and whoever is
switched to comes from the ready queue, which is disjoint from `blocked`.

**ProcessListsProofs**: for every number of PCBs the circular lists stay sound
(ListsSound) and `ProcessLists` refines `Process` (ListsImplementQueues), boot
included. `Ring` says that a head and a sequence of nodes are linked in a
circle in both directions; `RingAdd`, `RingAddTail`, `RingDel` and `RingInit`
say what the four functions of `list.c` make of it, and that they touch no
node outside; `Walk` that list_for_each visits the sequence, and `RingCount`
that list_size counts it from the head and from any node of it. `Rep` collects the
lists in memory: rings without a node in common. The inductive invariant LInv
has three parts:

* ProcessInv for the queues and families that the links stand for. The links
  alone do not say that a PCB is in the list where the code looks for it: that
  the running process is in no queue unless blocked, that the free queue has
  no live PCB, or that a victim of exit is in the list of the caller, is known
  only from there.
* Some collection of lists represents the links, and every node outside is
  accounted for (Outside): NULL links, or, in a PCB lost by a failed fork,
  copies whose neighbours do not know them. The three queue heads are always
  sound; LinksAgree excepts the nodes of lost PCBs (LostTasks) only. That is what makes `exit_fault`,
  which looks at links, agree with the one of `Process`, which looks at
  families.
* A live process without a parent has PID 0 or 1 (Roots): exit unlinks the
  caller from its siblings when its PID is not 1, and process 1 has none.

There is one lemma per handler (ClkStep, ForkStep, ExitStep, BlockStep,
UnblockStep, NumbrosStep), which gives the invariant and the step of `Process`
at once. The loops of init_sched and sys_exit over `task[]`, and the walks, are
recursive functions: `Loop` proves that such a function exists, from which its
rounds follow, and `Rounds` is the induction over them.

**MemoryProofs**: for every number of processes, frames and pages of each kind,
in both builds and for all addresses that programs pass or touch, the counters
are exact: FrameRefs, RefsCountEntries and TypeOK, which bounds them.
RefsCountEntries is claimed as long as no call has left the tables' entries for
shared pages (`halted`): an attach there raises `num_refs` for an entry that no
process's table has above its program, and AttachesOwnPage in section 4 is
about that. The inductive invariant IInv has four parts besides the
types.

* Data pages (DataInv): they map data frames only, those of a free PCB nothing,
  and a frame is mapped at one and the same page by all who share it (OnePage).
  That is why a process counts at most once for a frame, which bounds the
  counter by the number of PCBs and makes the fault handler's test "one
  reference" mean one table. Frames of shared pages and code keep their one
  reference, so alloc_frame hands out data frames only.
* Code pages map code frames, in the tables of free PCBs too (their entries stay
  after an exit), so that an address in another's table finds no shared
  page there to detach.
* Pages above the program (HighInv): their entries are writable, so the fault
  handler never turns one into a copy of a shared page, whosever table the
  fault is in, and `num_refs` counts them. Neither needs to know whose table an
  entry is in: `AttachAt` and `DetachAt` are about any PCB's.
* Separate: a data entry that may be written, or any in the build without
  copy on write, is the only one of its frame; pages above the program
  map shared frames unless a fork has failed; with copy on write none fails.

Each action has a lemma; the counting is about sets of (PCB, page) pairs, of
which an action adds or removes one row (fork, exit) or one element (attach,
detach, fault). That the lookup in fork and exit finds no shared frame
(`NoSharedFound`) is proved from TOTAL_PAGES <= 4096, since both shift the
frame by 12 bits. From IInv follow NoDanglingPage with copy on write, and
that copy on write refines `AddressSpace` (PrivateMemory) for programs that do
not call read. The two hypotheses are necessary: section 4 shows both
properties refuted without them.

**KernelProofs** composes the two. Each step of `Kernel` is a step of `Process`,
of `Memory` or of both, so ProcessInv and IInv remain invariants; together with
PcbsAgree they are inductive. fork needs both: the head of the free queue is no
live process (Process), therefore has no memory (PcbsAgree), therefore its
table is empty (Memory). It follows that PcbsAgree, FramesCounted and
TempMapsRemoved hold for every number of PCBs, frames and pages, and
OnlyOwnMemory in the default build, or with copy on write if read is not called:
the frames that fork copies to are free, so nobody else reads them, and a write
goes to a frame that only the writer maps, unless it goes through a stray page.
`SameProcess` and `SameMemory` identify the definitions of the instances in
`Kernel` with those of the two proof modules.

**UserMemoryProofs** first proves type correctness of `Keyboard` and that it
refines `Fifo` with capacity MAX_BUFF_SIZE - 1, for every buffer size and
character set. `CountAndSlots` has the arithmetic of the wrapping indices; each
action is then matched with a step of `Fifo` (a key with Put or Refuse, a read
with Take). Then KernelUntouched, TransfersExact, FaultsAtEdgeOnly and
AccessOkAccepts for every word, page size, layout, set of pointers and set of
sizes, and that the buffer below them still refines `Fifo`. The arithmetic is
that of access_ok: if the page of the end is not before that of the
beginning and both lie in the program's part of the address space, then the sum
has not wrapped, so that all addresses of the copy lie between them. The
assumption that the address space is far smaller than the largest int (4 MB
against 2 GB) is needed there, and is true of the machine.

**InputProofs**: KeysConserved and NameIsTyped, for every buffer size and name
length and every schedule of the two processes, over the lemmas about
`Keyboard` of UserMemoryProofs, which do not depend on the address space.
NameIsTyped needs that `lastChar` is the last character of the
name (LastIsLast): the comparison with it is what keeps a value that is
sampled twice from being taken twice.

**PacmanProofs**: TypeOK, WallsStand, TimersDoNotWrap and PelletsNeverGrow, for
every finite maze with a wall around it, every number of ghosts and lives, and
every time that is a multiple of the frame time of 100. The invariant adds that
a timer that runs shows a positive multiple of 100 (TimersTick): then it meets
0, where the code tests for it, instead of passing it.

The second part of PacmanProofs is about bfs of `PathSearch` (whose names differ
from those of `Pacman`, so that one module extends both): BfsRight, and that the
search stays inside its array (BfsStaysInside), for every width and height,
every maze, start and target. The invariant BfsInv is the textbook one: the
queue holds what was visited, each point once and sorted by distance from the
start, and what waits has at most two distances (Levels); everything before
`front` has been expanded (Expanded); `previous` leads one step nearer each time
(Tree). `NearerVisited` shows by induction on the radius that every point not
farther than the front of the queue is visited, so that a new point is exactly
one step farther than the front (`NewIsFarther`); `NothingLeft` that an empty
queue has visited all that can be reached; `Fits` that a queue without
repetitions is no longer than the board is large. The distances are those of the
property, balls that grow step by step, unfolded with `Loop`. dfs and dijkstra
miss targets that can be reached (section 4); that dijkstra ends inside its
array is model-checked only.

The third part shows that `Console` refines `Terminal`, on a screen of any size,
with a kernel buffer of any size and texts of any length, and CursorOnScreen.
`CellArithmetic` relates rows and columns to cells: a newline and the end of a
row go on where Terminal's modulo does, also from the last row to the first.
`ChunkEnds` has the arithmetic of the chunks: each begins where the one before
ended and the last ends the text, whatever remains of the division. `AllChunks`
concludes that the chunks one after the other print what the text printed at
once does, and `CellsSeen`, by induction over the characters, that each cell
shows the last one laid there, which need not be the only one once the text is
longer than the screen. The inductive invariant, ConsoleInv, is CursorOnScreen
and that the screen has its cells and no others.

**SwitchProofs**: RightRoutine, CallerStateKept, ErrnoConvention and
SwitchComplete, for every number of processes, every number that programs load
in eax, every result of a routine and every choice of the next process. The
properties look at one instant (a routine is called, a call returns, a switch
has ended), but hold because of what was pushed long before, perhaps several
switches ago. The invariant therefore says what both stacks hold all along.
`View` does so for a process at each place of its way: between sysenter and
sysexit the user stack is the frame of the wrapper (UserFrame), with the
registers that the program had and the address to which sysexit returns; in the
kernel the kernel stack is the nine words of the context (CallFrame). `Waits`
does so for a process that does not run: it was preempted, and its kernel stack
holds, below the frames of the C functions and of task_switch, a context from
which RESTORE_ALL yields a View of user mode; or it blocked or is a new child,
and will return 0 from the call that View describes; or it is idle, before its
first run. The running process has a View, every other one Waits. `LeavingStack`
and `Unwound` are the two halves of a switch: what is pushed, and that popping
it in the order of the code gives it back; `Enters` is the switch as a whole.

The assumptions are those named in the modules: at least two PCBs and two
slots, a circular buffer that fits in the local buffer of sys_read, memory that
holds the first process, addresses as above, times that are multiples of
the frame. TLC evaluates them in the run of each module.

Only model-checked: the liveness properties ReadyRuns, GhostsReturn, GameFollows
and SearchEnds, since fairness is out of the prover's reach. TLAPS cannot use
the library's theorems on induction and recursive definitions, which take an
operator. Where a proof here needs induction it is carried out with
the least counterexample (`LeastNat`), and a recursive function over an interval
is unfolded with `Loop`, or with a function that is seen to satisfy its equation.

## 6. Not modelled

* Boot, segmentation, the IDT and the image builder: straight-line hardware
  set-up that runs once, or a program of the host.
* Drawing, colours and score: no rule of the game reads them.
* `libc.c` except lower: sequential helpers on strings and numbers, rand, sleep.
* Dead code: `sus_call_handler`, `printc_xy`, `list_is_last`.
* gettime and getpid, which change nothing.
* What the kernel does after it has corrupted a list, called through the
  word behind the system call table, or attached a page at an entry that is not
  one for shared pages of a process's table (section 2, Memory).

## 7. Plan

The operations of the kernel that change state, the switch, the input path and
the rules of the game are modelled, and the safety properties and refinements
that the runs check are proved. What is left is to model what section 6 lists,
where it is worth it: the string functions of `libc.c` and the drawing.
