------------------------------- MODULE Kernel -------------------------------
(***************************************************************************)
(* Processes and memory together.  fork and exit are one handler each that *)
(* changes both: fork takes the PCB at the head of the free queue, and     *)
(* whether it succeeds is what the frames and the caller's page table      *)
(* allow; exit gives back the PCB and its data frames.  Only the running   *)
(* process uses its memory.                                                *)
(*                                                                         *)
(* A PCB has the same index in both modules: idle, which has the highest,  *)
(* has no user memory and is left out of Memory.  When a list fault or a   *)
(* page fault spins with interrupts disabled, everything stops.            *)
(***************************************************************************)
EXTENDS Integers, Sequences, FiniteSets, Functions

CONSTANTS
    NR_TASKS, INIT_QUANTUM, MemoryOutcomes, MAX_PID, MAX_PENDING,
    TOTAL_PAGES, NUM_PAG_KERNEL, NUM_PAG_DATA, NUM_PAG_CODE, NUM_SHARED_PAGES,
    USE_COW, CallsRead, Val, Addr, MAX_REFS

VARIABLES
    current, PID, state, parent, sons, pending_unblocks,
    freequeue, readyqueue, blocked, ticks_since_last_switch, next_pid, fault,
    pcb, phys_mem, pt, shared_pages, content, halted

P == INSTANCE Process
M == INSTANCE Memory WITH NR_TASKS <- NR_TASKS - 1

ASSUME KernelAssumption == P!ProcessAssumption /\ M!MemoryAssumption

procVars == <<current, PID, state, parent, sons, pending_unblocks, freequeue,
              readyqueue, blocked, ticks_since_last_switch, next_pid, fault>>
memVars  == <<pcb, phys_mem, pt, shared_pages, content, halted>>
vars     == <<procVars, memVars>>

Init == P!Init /\ M!Init

(* fork: the memory manager decides whether the child is queued.           *)
sys_fork ==
    /\ P!UserRuns /\ freequeue # << >>
    /\ LET child == Head(freequeue)
       IN  M!sys_fork(current, child) /\ P!sys_fork(pcb'[child] = "alive")

(* exit: the data pages are freed only if the lists let the handler get    *)
(* that far.                                                               *)
sys_exit ==
    /\ ~ halted
    /\ P!sys_exit
    /\ \/ fault' = "none" /\ M!sys_exit(current)
       \/ fault' # "none" /\ UNCHANGED memVars

(* Handlers that leave memory alone.                                       *)
ProcessOnly ==
    /\ ~ halted
    /\ \/ P!clk_routine
       \/ P!sys_fork_no_pcb
       \/ P!sys_block
       \/ \E son \in P!Task : P!sys_unblock(son)
       \/ P!sys_numbros
    /\ UNCHANGED memVars

(* The running process uses its memory, the others do not.                 *)
MemoryOnly ==
    /\ P!UserRuns
    /\ \/ \E id \in M!ShmId, addr \in Addr : M!sys_shmat(current, id, addr)
       \/ \E addr \in Addr \cup M!UserPage : M!sys_shmdt(current, addr)
       \/ \E id \in M!ShmId : M!sys_shmrm(current, id)
       \/ \E page \in M!UserPage, v \in Val : M!user_write(current, page, v)
       \/ \E page \in M!UserPage, v \in Val : M!copy_to_user(current, page, v)
       \/ \E addr \in Addr \cup M!UserPage : M!pgf_routine(current, addr)
    /\ UNCHANGED procVars

spin == (halted \/ fault # "none") /\ UNCHANGED vars

Next == sys_fork \/ sys_exit \/ ProcessOnly \/ MemoryOnly \/ spin

Spec == Init /\ [][Next]_vars

-----------------------------------------------------------------------------
(* A PCB is in the free queue exactly when it holds no memory, has an      *)
(* address space exactly when it is running, ready or blocked, and is in   *)
(* neither case exactly when a failed fork has lost it: the scheduler      *)
(* never switches to a process without memory, and fork never takes a PCB  *)
(* whose memory is in use (sys_fork, sys_exit, sched_next_rr).             *)
PcbsAgree ==
    \A p \in M!Task :
        /\ pcb[p] = "free"  <=> p \in Range(freequeue)
        /\ pcb[p] = "alive" <=> p \in P!Live

(* The frame counters stay exact also when a fork fails half way: what it  *)
(* took is given back once, whatever the processes do next.                *)
FramesCounted == M!FrameRefs

(* A page above the program that maps a frame which is not a shared page's *)
(* one: such are the pages through which fork copies.                      *)
Stray(p) ==
    \E g \in M!HighPage :
        /\ pt[p][g] # M!NoEntry
        /\ \A id \in M!ShmId : pt[p][g].frame # shared_pages[id].frame

(* fork's temporary pages do not outlive it, in the caller's table or, when*)
(* its PCB is used again, in another's, unless a fork has failed.          *)
TempMapsRemoved ==
    (\E p \in M!Task : Stray(p)) => (\E p \in M!Task : pcb[p] = "leaked")

Memory(p) == [g \in M!DataPage |-> content[pt[p][g].frame]]

(* "Separate memory spaces": under every schedule, whatever frames and     *)
(* PCBs were used before and whichever forks have failed, a step changes   *)
(* the data pages of no process but the running one, and a new process     *)
(* starts with a copy of its parent's; the one exception is a process that *)
(* a failed fork has left with a stray page.                               *)
OnlyOwnMemory ==
    [][\A p \in M!Alive' \ {current} :
          \/ p \in M!Alive /\ Memory(p)' = Memory(p)
          \/ p \notin M!Alive /\ Memory(p)' = Memory(current)
          \/ Stray(current)]_vars
=============================================================================
