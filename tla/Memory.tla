------------------------------- MODULE Memory -------------------------------
(***************************************************************************)
(* Paged memory: the frame counters, page tables and shared pages of mm.c, *)
(* the part of fork and exit (sys.c) that handles them, the shared memory  *)
(* calls shmat, shmdt and shmrm, and the page fault handler (interrupt.c). *)
(*                                                                         *)
(* Which PCB a fork takes and which process runs is Process's business:    *)
(* here any live process may take the next step, and fork takes any free   *)
(* PCB.  Each handler is one action (interrupts are disabled).  The        *)
(* contents of a page is one value of Val, 0 being the zeroed page.  The   *)
(* kernel's own pages (0 .. NUM_PAG_KERNEL - 1) are the same in every      *)
(* table and are left out.                                                 *)
(*                                                                         *)
(* shmat, shmdt and the fault handler index the caller's table with any    *)
(* page number.  The tables of the PCBs lie one behind the other, idle's   *)
(* last, so that such an index may be an entry of another process.  Where  *)
(* a call writes to memory that the module does not have (halted), the     *)
(* behaviour ends.                                                         *)
(*                                                                         *)
(* NeverFreed, CodeFreedToo, StillWritable, FirstFrameCopied, TempKept,    *)
(* RefsKept and RefsDropped are plausible bugs: each is a wrong form of    *)
(* the definition that follows it.                                         *)
(***************************************************************************)
EXTENDS Integers, FiniteSets

CONSTANTS
    NR_TASKS,          \* PCBs that may hold a user process
    TOTAL_PAGES,       \* logical pages of a table, and physical frames
    NUM_PAG_KERNEL, NUM_PAG_DATA, NUM_PAG_CODE, NUM_SHARED_PAGES,
    USE_COW,           \* the compile-time switch of sys.c
    CallsRead,         \* do programs call read?
    Val,               \* contents of a page
    Addr,              \* pages that programs pass to shmat and shmdt, or
                       \* touch: any of the address space; 0 is NULL
    MAX_REFS           \* bound on num_refs

USER_FIRST_PAGE == NUM_PAG_KERNEL
USER_LAST_PAGE  == USER_FIRST_PAGE + NUM_PAG_CODE + NUM_PAG_DATA

Task     == 0 .. NR_TASKS - 1
task1    == NR_TASKS - 1
Frame    == 0 .. TOTAL_PAGES - 1
DataPage == USER_FIRST_PAGE .. USER_FIRST_PAGE + NUM_PAG_DATA - 1
CodePage == USER_FIRST_PAGE + NUM_PAG_DATA .. USER_LAST_PAGE - 1
HighPage == USER_LAST_PAGE .. TOTAL_PAGES - 1
UserPage == USER_FIRST_PAGE .. TOTAL_PAGES - 1
AnyPage  == 0 .. 2^20 - 1
ShmId    == 0 .. NUM_SHARED_PAGES - 1

(* Frames in the order alloc_frame tries them: it leaves holes.            *)
FrameNo(n) == NUM_PAG_KERNEL + 2 * (n - 1)

ASSUME MemoryAssumption ==
    /\ NR_TASKS \in Nat \ {0}
    /\ TOTAL_PAGES \in Nat /\ TOTAL_PAGES <= 4096     \* 1024 in mm_address.h
    /\ NUM_PAG_KERNEL \in Nat \ {0}
    /\ NUM_PAG_DATA \in Nat \ {0} /\ NUM_PAG_CODE \in Nat
    /\ NUM_SHARED_PAGES \in Nat \ {0}
    /\ USER_LAST_PAGE < TOTAL_PAGES
    /\ FrameNo(NUM_SHARED_PAGES + NUM_PAG_CODE + NUM_PAG_DATA) < TOTAL_PAGES
    /\ USE_COW \in BOOLEAN /\ CallsRead \in BOOLEAN
    /\ 0 \in Val
    /\ Addr \subseteq AnyPage
    /\ MAX_REFS \in Nat

VARIABLES
    pcb,           \* PCB -> "free", "alive", or "leaked" by a failed fork
    phys_mem,      \* references to each frame
    pt,            \* PCB -> logical page -> entry
    shared_pages,
    content,       \* frame -> value
    halted         \* pgf_routine spins, or a call has left the tables

vars == <<pcb, phys_mem, pt, shared_pages, content, halted>>

Entry   == [frame : Frame, rw : BOOLEAN]
NoEntry == [frame |-> 0, rw |-> FALSE]       \* entry == 0

-----------------------------------------------------------------------------
(* Boot: init_shared_pages and set_user_pages take the first frames.       *)

Init ==
    /\ pcb = [p \in Task |-> IF p = task1 THEN "alive" ELSE "free"]
    /\ LET used == NUM_SHARED_PAGES + NUM_PAG_CODE + NUM_PAG_DATA
       IN  phys_mem = [f \in Frame |->
             IF f < NUM_PAG_KERNEL \/ \E n \in 1 .. used : f = FrameNo(n)
             THEN 1 ELSE 0]
    /\ pt = [p \in Task |-> [g \in UserPage |->
             IF p = task1 /\ g \in CodePage
             THEN [frame |-> FrameNo(NUM_SHARED_PAGES + 1 + g
                                     - USER_FIRST_PAGE - NUM_PAG_DATA),
                   rw |-> FALSE]
             ELSE IF p = task1 /\ g \in DataPage
             THEN [frame |-> FrameNo(NUM_SHARED_PAGES + NUM_PAG_CODE + 1 + g
                                     - USER_FIRST_PAGE),
                   rw |-> TRUE]
             ELSE NoEntry]]
    /\ shared_pages = [i \in ShmId |->
             [frame |-> FrameNo(i + 1), num_refs |-> 0, to_clear |-> FALSE]]
    /\ content = [f \in Frame |-> 0]
    /\ halted = FALSE

-----------------------------------------------------------------------------
(* mm.c                                                                    *)

Min(S)    == CHOOSE x \in S : \A y \in S : x <= y
Nth(S, n) == CHOOSE x \in S : Cardinality({y \in S : y < x}) = n - 1

FreeFrames == {f \in Frame : /\ f >= NUM_PAG_KERNEL
                             /\ (f - NUM_PAG_KERNEL) % 2 = 0
                             /\ phys_mem[f] = 0}

FreePages(p) == {g \in HighPage : pt[p][g] = NoEntry}

(* The counters m after free_frame of the frames that table t maps in the  *)
(* given pages.                                                            *)
free_frames(m, t, pages) ==
    [f \in Frame |-> IF f > NUM_PAG_KERNEL
                     THEN m[f] - Cardinality({g \in pages : t[g].frame = f})
                     ELSE m[f]]

NeverFreed(m, t)          == m
CodeFreedToo(m, t)        == free_frames(m, t, DataPage \cup CodePage)
free_user_pages_mem(m, t) == free_frames(m, t, DataPage)

free_user_pages_pt(t) == [g \in UserPage |-> IF g \in DataPage THEN NoEntry
                                             ELSE t[g]]

(* The index of a shared frame; 0 is the answer for every other frame too. *)
is_frame_shared(f) ==
    LET ids == {i \in ShmId : shared_pages[i].frame = f}
    IN  IF ids = {} THEN 0 ELSE Min(ids)

-----------------------------------------------------------------------------
(* fork.                                                                   *)

Runs(p) == ~ halted /\ pcb[p] = "alive"

(* The pages fork and exit take for shared ones.  They look the frame up   *)
(* shifted by 12 bits, so that none is ever found.                         *)
SharedOf(p) == {g \in HighPage : /\ pt[p][g] # NoEntry
                                 /\ is_frame_shared(pt[p][g].frame * 4096) # 0}

AddRefs(p, n) ==
    [i \in ShmId |-> [shared_pages[i] EXCEPT !.num_refs = @ + n *
        Cardinality({g \in SharedOf(p) :
                       is_frame_shared(pt[p][g].frame * 4096) = i})]]

(* The table of the child: the code of the parent, the given data pages,   *)
(* the pages above that fork copies, and otherwise what the PCB's last     *)
(* process left there.                                                     *)
ChildTable(p, c, data, copied) ==
    [g \in UserPage |-> IF g \in CodePage \cup copied THEN pt[p][g]
                        ELSE IF g \in DataPage THEN data[g]
                        ELSE pt[c][g]]

ReadOnly(e) == [e EXCEPT !.rw = FALSE]

(* USE_COW: parent and child share the data frames, read only.             *)
StillWritable(p)   == pt[p]
ParentReadOnly(p)  == [g \in UserPage |-> IF g \in DataPage
                                          THEN ReadOnly(pt[p][g])
                                          ELSE pt[p][g]]

fork_cow(p, c) ==
    /\ USE_COW
    /\ pcb' = [pcb EXCEPT ![c] = "alive"]
    /\ pt' = [pt EXCEPT
         ![c] = ChildTable(p, c, [g \in DataPage |-> ReadOnly(pt[p][g])],
                           SharedOf(p)),
         ![p] = ParentReadOnly(p)]
    /\ phys_mem' = [f \in Frame |->
         phys_mem[f] + Cardinality({g \in DataPage : pt[p][g].frame = f})]
    /\ shared_pages' = AddRefs(p, 1)
    /\ UNCHANGED content

(* Otherwise each data page gets a frame of its own, mapped in the child   *)
(* and, for the copy, in a free page of the parent.                        *)
DataNo(g)   == g - USER_FIRST_PAGE + 1
NewFrame(n) == Nth(FreeFrames, n)
NewEntry(n) == [frame |-> NewFrame(n), rw |-> TRUE]
NewPages(p) == Cardinality(FreePages(p))
NewFrames   == Cardinality(FreeFrames)

FirstFrameCopied(p, g) == content[pt[p][USER_FIRST_PAGE].frame]
CopiedPage(p, g)       == content[pt[p][g].frame]

(* The parent's table after n temporary mappings, and once they have all   *)
(* been deleted.                                                           *)
TempMapped(p, n) ==
    [g \in UserPage |-> IF \E i \in 1 .. n : g = Nth(FreePages(p), i)
                        THEN NewEntry(CHOOSE i \in 1 .. n :
                                        g = Nth(FreePages(p), i))
                        ELSE pt[p][g]]

TempKept(p)    == TempMapped(p, NUM_PAG_DATA)
TempDeleted(p) == pt[p]

fork_copy(p, c) ==
    /\ ~ USE_COW
    /\ NewPages(p) >= NUM_PAG_DATA /\ NewFrames >= NUM_PAG_DATA
    /\ pcb' = [pcb EXCEPT ![c] = "alive"]
    /\ pt' = [pt EXCEPT
         ![p] = TempDeleted(p),
         ![c] = ChildTable(p, c, [g \in DataPage |-> NewEntry(DataNo(g))],
                           SharedOf(p))]
    /\ phys_mem' = [f \in Frame |->
         IF \E n \in 1 .. NUM_PAG_DATA : f = NewFrame(n) THEN 1
         ELSE phys_mem[f]]
    /\ content' = [f \in Frame |->
         IF \E g \in DataPage : f = NewFrame(DataNo(g))
         THEN CopiedPage(p, CHOOSE g \in DataPage : f = NewFrame(DataNo(g)))
         ELSE content[f]]
    /\ shared_pages' = AddRefs(p, 1)

(* No free logical page for the n+1-st: -ENOMEM, and nothing is undone.    *)
fork_no_page(p, c) ==
    LET n == NewPages(p)
    IN  /\ ~ USE_COW
        /\ n < NUM_PAG_DATA /\ n <= NewFrames
        /\ pcb' = [pcb EXCEPT ![c] = "leaked"]
        /\ pt' = [pt EXCEPT
             ![p] = TempMapped(p, n),
             ![c] = ChildTable(p, c, [g \in DataPage |->
                      IF DataNo(g) <= n THEN NewEntry(DataNo(g))
                      ELSE pt[c][g]], {})]
        /\ phys_mem' = [f \in Frame |->
             IF \E i \in 1 .. n : f = NewFrame(i) THEN 1 ELSE phys_mem[f]]
        /\ UNCHANGED <<shared_pages, content>>

(* No frame for the n+1-st: the child's pages are freed, the temporary     *)
(* mappings of the parent stay.                                            *)
fork_no_frame(p, c) ==
    LET n == NewFrames
    IN  /\ ~ USE_COW
        /\ n < NUM_PAG_DATA /\ n < NewPages(p)
        /\ pcb' = [pcb EXCEPT ![c] = "leaked"]
        /\ pt' = [pt EXCEPT
             ![p] = TempMapped(p, n),
             ![c] = ChildTable(p, c, [g \in DataPage |-> NoEntry], {})]
        /\ UNCHANGED <<phys_mem, shared_pages, content>>

sys_fork(p, c) ==
    /\ Runs(p) /\ pcb[c] = "free"
    /\ \/ fork_cow(p, c)
       \/ fork_copy(p, c)
       \/ fork_no_page(p, c)
       \/ fork_no_frame(p, c)
    /\ UNCHANGED halted

(* exit frees the data pages; the entries above stay in the table.         *)
sys_exit(p) ==
    /\ Runs(p)
    /\ pcb' = [pcb EXCEPT ![p] = "free"]
    /\ phys_mem' = free_user_pages_mem(phys_mem, pt[p])
    /\ pt' = [pt EXCEPT ![p] = free_user_pages_pt(pt[p])]
    /\ shared_pages' = AddRefs(p, -1)
    /\ UNCHANGED <<content, halted>>

-----------------------------------------------------------------------------
(* Entry n of the table of p is an entry of this table.                    *)
TableOf(p, n) == p + n \div TOTAL_PAGES
PageOf(n)     == n % TOTAL_PAGES
InTable(p, n) == TableOf(p, n) \in Task /\ PageOf(n) \in UserPage
EntryAt(p, n) == pt[TableOf(p, n)][PageOf(n)]

(* Entries that pt leaves out: page 0 and the pages of idle, whose table   *)
(* is the last one, are free, the other pages of the kernel are in use.    *)
(* What lies behind the tables may look like either.                       *)
Behind(p, n) == TableOf(p, n) > NR_TASKS

MayBeFree(p, n) ==
    \/ InTable(p, n) /\ EntryAt(p, n) = NoEntry
    \/ TableOf(p, n) = NR_TASKS /\ PageOf(n) \in UserPage
    \/ PageOf(n) = 0 \/ Behind(p, n)

MayBeUsed(p, n) ==
    \/ InTable(p, n) /\ EntryAt(p, n) # NoEntry
    \/ PageOf(n) \in 1 .. NUM_PAG_KERNEL - 1 \/ Behind(p, n)

-----------------------------------------------------------------------------
(* Shared memory.  An argument that a call refuses changes nothing.        *)

(* set_ss_pag of the shared page.                                          *)
Attached(id, t, page) ==
    [pt EXCEPT ![t][page] = [frame |-> shared_pages[id].frame, rw |-> TRUE]]

(* A free page of the caller, for NULL or a page in use; the given page,   *)
(* above the program in whichever table it is; or an entry that no table   *)
(* of a process has for shared pages, which later forks overwrite or copy. *)
sys_shmat(p, id, addr) ==
    /\ Runs(p)
    /\ shared_pages[id].num_refs < MAX_REFS
    /\ \/ /\ addr = 0 \/ MayBeUsed(p, addr)
          /\ FreePages(p) # {}
          /\ pt' = Attached(id, p, Min(FreePages(p)))
          /\ UNCHANGED halted
       \/ /\ addr # 0 /\ MayBeFree(p, addr)
          /\ InTable(p, addr) /\ PageOf(addr) \in HighPage
          /\ pt' = Attached(id, TableOf(p, addr), PageOf(addr))
          /\ UNCHANGED halted
       \/ /\ addr # 0 /\ MayBeFree(p, addr)
          /\ ~ (InTable(p, addr) /\ PageOf(addr) \in HighPage)
          /\ halted' = TRUE
          /\ UNCHANGED pt
    /\ shared_pages' = [shared_pages EXCEPT ![id].num_refs = @ + 1]
    /\ UNCHANGED <<pcb, phys_mem, content>>

(* What shmdt returns for a mapped page: 0, or refused with -ENOSHR.       *)
shmdt_ok(p, page) == is_frame_shared(pt[p][page].frame) # 0

RefsKept(id) == shared_pages[id].num_refs
RefsLess(id) == shared_pages[id].num_refs - 1

(* The page may be cleared only through the caller's own addresses:        *)
(* zero_out at another's faults in the kernel, before the entry is deleted.*)
shmdt_entry(p, t, page) ==
    LET id    == is_frame_shared(pt[t][page].frame)
        clear == RefsLess(id) = 0 /\ shared_pages[id].to_clear
    IN  /\ shared_pages' = [shared_pages EXCEPT ![id].num_refs = RefsLess(id)]
        /\ \/ /\ clear => t = p
              /\ content' = IF clear
                            THEN [content EXCEPT ![shared_pages[id].frame] = 0]
                            ELSE content
              /\ pt' = [pt EXCEPT ![t][page] = NoEntry]
              /\ UNCHANGED halted
           \/ /\ clear /\ t # p
              /\ halted' = TRUE
              /\ UNCHANGED <<content, pt>>

sys_shmdt(p, addr) ==
    /\ Runs(p)
    /\ \/ /\ InTable(p, addr) /\ EntryAt(p, addr) # NoEntry
          /\ shmdt_ok(TableOf(p, addr), PageOf(addr))
          /\ shmdt_entry(p, TableOf(p, addr), PageOf(addr))
       \/ /\ Behind(p, addr)
          /\ halted' = TRUE
          /\ UNCHANGED <<pt, shared_pages, content>>
    /\ UNCHANGED <<pcb, phys_mem>>

sys_shmrm(p, id) ==
    /\ Runs(p)
    /\ shared_pages' = [shared_pages EXCEPT ![id].to_clear = TRUE]
    /\ UNCHANGED <<pcb, phys_mem, pt, content, halted>>

-----------------------------------------------------------------------------
(* A program writes to its memory.                                         *)
user_write(p, page, v) ==
    /\ Runs(p)
    /\ pt[p][page].rw
    /\ content' = [content EXCEPT ![pt[p][page].frame] = v]
    /\ UNCHANGED <<pcb, phys_mem, pt, shared_pages, halted>>

(* sys_read copies to the program's memory in kernel mode.  CR0.WP is not  *)
(* set, so the read-only bit of the entry is not obeyed.                   *)
copy_to_user(p, page, v) ==
    /\ CallsRead
    /\ Runs(p)
    /\ pt[p][page] # NoEntry
    /\ content' = [content EXCEPT ![pt[p][page].frame] = v]
    /\ UNCHANGED <<pcb, phys_mem, pt, shared_pages, halted>>

(* The write faults.  A present read-only entry is taken for copy on       *)
(* write; anything else, or no memory for the copy, hangs the kernel.  The *)
(* page number is signed, and the entry may be another's: it becomes       *)
(* writable, but the copy would fault again, in the kernel.                *)
RefsDropped(old, new) == [phys_mem EXCEPT ![new] = 1]
RefMoved(old, new)    == [phys_mem EXCEPT ![old] = @ - 1, ![new] = 1]

PH_PAGE(addr)     == IF addr < 2^19 THEN addr ELSE addr - 2^20
is_cow_page(p, n) == /\ InTable(p, n)
                     /\ EntryAt(p, n) # NoEntry /\ ~ EntryAt(p, n).rw

pgf_entry(p, n) ==
    LET t    == TableOf(p, n)
        page == PageOf(n)
        old  == EntryAt(p, n).frame
    IN  \/ /\ is_cow_page(p, n) /\ phys_mem[old] = 1
           /\ pt' = [pt EXCEPT ![t][page].rw = TRUE]
           /\ UNCHANGED <<phys_mem, content, halted>>
        \/ /\ is_cow_page(p, n) /\ phys_mem[old] # 1
           /\ t = p /\ FreePages(p) # {} /\ FreeFrames # {}
           /\ LET new == Min(FreeFrames)
              IN  /\ pt' = [pt EXCEPT ![p][page] =
                              [frame |-> new, rw |-> TRUE]]
                  /\ phys_mem' = RefMoved(old, new)
                  /\ content' = [content EXCEPT ![new] = content[old]]
           /\ UNCHANGED halted
        \/ /\ is_cow_page(p, n) =>
                 /\ phys_mem[old] # 1
                 /\ t # p \/ FreePages(p) = {} \/ FreeFrames = {}
           /\ halted' = TRUE
           /\ UNCHANGED <<pt, phys_mem, content>>

pgf_routine(p, addr) ==
    /\ Runs(p)
    /\ addr \in UserPage => ~ pt[p][addr].rw
    /\ pgf_entry(p, PH_PAGE(addr))
    /\ UNCHANGED <<pcb, shared_pages>>

pgf_spin == halted /\ UNCHANGED vars

(* Every process has exited: idle runs for ever.                           *)
cpu_idle == ~ halted /\ (\A p \in Task : pcb[p] # "alive") /\ UNCHANGED vars

Next ==
    \/ \E p \in Task :
          \/ \E c \in Task : sys_fork(p, c)
          \/ sys_exit(p)
          \/ \E id \in ShmId, addr \in Addr : sys_shmat(p, id, addr)
          \/ \E addr \in Addr \cup UserPage : sys_shmdt(p, addr)
          \/ \E id \in ShmId : sys_shmrm(p, id)
          \/ \E page \in UserPage, v \in Val : user_write(p, page, v)
          \/ \E page \in UserPage, v \in Val : copy_to_user(p, page, v)
          \/ \E addr \in Addr \cup UserPage : pgf_routine(p, addr)
    \/ pgf_spin
    \/ cpu_idle

Spec == Init /\ [][Next]_vars

-----------------------------------------------------------------------------
Alive == {p \in Task : pcb[p] = "alive"}

TypeOK ==
    /\ pcb \in [Task -> {"free", "alive", "leaked"}]
    /\ phys_mem \in [Frame -> 0 .. NR_TASKS]
    /\ pt \in [Task -> [UserPage -> Entry]]
    /\ shared_pages \in [ShmId -> [frame : Frame, num_refs : 0 .. MAX_REFS,
                                   to_clear : BOOLEAN]]
    /\ content \in [Frame -> Val]
    /\ halted \in BOOLEAN

(* What the live processes read in their data pages.                       *)
Gone == [g \in {} |-> 0]
DataOf(p) == [g \in DataPage |-> content[pt[p][g].frame]]
Memories == [p \in Task |-> IF pcb[p] = "alive" THEN DataOf(p) ELSE Gone]

(* Processes have private data pages that fork copies and only their owner *)
(* changes, by whatever mix of copying, sharing and faults (sys_fork: "they*)
(* have separate memory spaces").                                          *)
A == INSTANCE AddressSpace WITH Page <- DataPage, mem <- Memories
PrivateMemory == A!Spec

(* The entries of all tables that map frame f in the given pages.          *)
Entries(pages, f) == {e \in Task \X pages : pt[e[1]][e[2]].frame = f}

(* The counter of every frame that may hold data is the number of data     *)
(* entries that map it in all tables: no frame stays taken when its last   *)
(* process has gone, none is freed while one still has it (alloc_frame,    *)
(* free_frame, pgf_routine).                                               *)
FrameRefs ==
    \A f \in FrameNo(NUM_SHARED_PAGES + NUM_PAG_CODE + 1) .. TOTAL_PAGES - 1 :
        phys_mem[f] = Cardinality(Entries(DataPage, f))

(* No live process maps a free frame, anywhere in its table.               *)
NoDanglingPage ==
    \A p \in Alive, g \in UserPage :
        pt[p][g] # NoEntry => phys_mem[pt[p][g].frame] > 0

(* num_refs counts the entries that map the shared page in all tables,     *)
(* those that dead processes left behind included, whatever addresses are  *)
(* attached and detached, also in the table of another process: shmdt      *)
(* never brings it to zero, and clears the page, while a live process has  *)
(* it attached (sys_shmat, sys_shmdt).  It is so until a call goes to an   *)
(* entry that is none of these, or shmdt faults.                           *)
RefsCountEntries ==
    \/ halted
    \/ \A id \in ShmId :
          shared_pages[id].num_refs =
              Cardinality(Entries(HighPage, shared_pages[id].frame))

-----------------------------------------------------------------------------
(* What comments and the README say, and the code violates.                *)

(* shmdt "detaches a previously attached shared memory page".              *)
ShmdtDetaches ==
    \A p \in Alive, g \in HighPage, id \in ShmId :
        pt[p][g].frame = shared_pages[id].frame => shmdt_ok(p, g)

(* shmat "attaches a shared memory page to a logical page in the process   *)
(* memory".                                                                *)
AttachesOwnPage ==
    [][\A id \in ShmId :
          shared_pages'[id].num_refs > shared_pages[id].num_refs =>
              \E p \in Alive, g \in HighPage :
                 /\ pt'[p][g] # pt[p][g]
                 /\ pt'[p][g].frame = shared_pages[id].frame]_vars

(* exit: "Free the references of shared pages".                            *)
ExitFreesRefs ==
    \A id \in ShmId :
        shared_pages[id].num_refs =
            Cardinality({e \in Entries(HighPage, shared_pages[id].frame) :
                           e[1] \in Alive})

(* fork: "Copy Shared Memory pages": a new process has the shared pages of *)
(* its parent.                                                             *)
ForkCopiesShared ==
    [][\A c \in Alive' \ Alive : \E p \in Alive : \A g \in HighPage :
          pt'[c][g].frame = pt[p][g].frame]_vars

(* pgf_routine: with one reference "you are the only one that has that     *)
(* page" and may write to it.                                              *)
OneRefIsSole ==
    \A p, q \in Alive, g \in DataPage \cup CodePage :
        /\ pt[p][g].rw
        /\ phys_mem[pt[p][g].frame] = 1
        /\ pt[p][g].frame = pt[q][g].frame
        => p = q
=============================================================================
