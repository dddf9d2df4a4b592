------------------------------ MODULE Process ------------------------------
(***************************************************************************)
(* Processes and the round-robin scheduler of ZeOS: the PCB table, the     *)
(* three state queues and the family tree of sched.c, the process system   *)
(* calls of sys.c (fork, exit, block, unblock, numsons, numbros) and the   *)
(* clock interrupt of interrupt.c.                                         *)
(*                                                                         *)
(* Every handler runs with interrupts disabled (the gates of interrupt.c   *)
(* are interrupt gates and sysenter clears IF), on one CPU, so a handler   *)
(* is one atomic action; the interleaving is that of the user programs     *)
(* and the clock.                                                          *)
(*                                                                         *)
(* Abstractions.  The list anchored in `blocked' and each `sons' list are  *)
(* sets: no code depends on their order.  `quantum' is INIT_QUANTUM for    *)
(* every process (fork copies it, nothing calls set_quantum).  `nr_ticks'  *)
(* is written by update_sched_data_rr and read only right after it, so it  *)
(* is a parameter here.  ticks_since_last_switch is only compared with the *)
(* quantum and saturates one above it.  Whether the memory manager finds   *)
(* the pages and frames of a fork is the nondeterministic parameter mm.    *)
(*                                                                         *)
(* A list operation on a node that is not where the code assumes it to be  *)
(* ends the modelled behaviour: `fault' names it.  A NULL link is a kernel *)
(* page fault, after which pgf_routine spins for ever with interrupts      *)
(* disabled; a node linked twice corrupts both lists, and what the kernel  *)
(* does afterwards is not modelled.                                        *)
(*                                                                         *)
(* A definition that no other one uses, next to the one it varies (like    *)
(* RequeueExited before Requeue), is a plausible bug in the code: the      *)
(* README lists which property tells it from the real definition.          *)
(***************************************************************************)
EXTENDS Integers, Sequences, FiniteSets, Functions

CONSTANTS
    NR_TASKS,       \* number of PCBs, the length of task[]
    INIT_QUANTUM,   \* ticks a process may use before it is preempted
    MemoryOutcomes, \* may a fork find memory (TRUE), run out of it (FALSE)
    MAX_PID,        \* bound: fork is not explored once next_pid exceeds it
    MAX_PENDING     \* bound on pending_unblocks

ASSUME ProcessAssumption ==
    /\ NR_TASKS \in Nat /\ NR_TASKS >= 2
    /\ INIT_QUANTUM \in Nat
    /\ MemoryOutcomes \subseteq BOOLEAN
    /\ MAX_PID \in Nat /\ MAX_PENDING \in Nat

Task   == 0 .. NR_TASKS - 1
NULL   == -1                          \* the NULL task_struct pointer
State  == {"RUN", "READY", "BLOCKED", "ZOMBIE"}
Fault  == {"none", "exit_null_bros", "exit_copied_bros", "exit_while_blocked",
           "block_while_blocked", "numbros_null_bros"}
Ticks  == 0 .. INIT_QUANTUM + 1

VARIABLES
    current,          \* PCB whose kernel stack %esp is on
    PID, state, parent, sons, pending_unblocks,      \* fields of task[]
    freequeue, readyqueue, blocked,
    ticks_since_last_switch,
    next_pid,
    fault

pcbVars   == <<PID, state, parent, sons, pending_unblocks>>
queueVars == <<freequeue, readyqueue, blocked>>
vars      == <<current, pcbVars, queueVars, ticks_since_last_switch,
               next_pid, fault>>

-----------------------------------------------------------------------------
(* Boot: init_sched pushes task[0], task[1], ... on the free queue, so the *)
(* PCBs leave it from the highest index down; init_idle takes the first,   *)
(* init_task1 the second.                                                  *)

idle_task  == NR_TASKS - 1
task1_task == NR_TASKS - 2

Init ==
    /\ current = task1_task
    /\ PID = [p \in Task |-> IF p = idle_task THEN 0
                             ELSE IF p = task1_task THEN 1 ELSE -1]
    /\ state = [p \in Task |-> "RUN"]
    /\ parent = [p \in Task |-> NULL]
    /\ sons = [p \in Task |-> {}]
    /\ pending_unblocks = [p \in Task |-> 0]
    /\ freequeue = [i \in 1 .. NR_TASKS - 2 |-> NR_TASKS - 2 - i]
    /\ readyqueue = << >>
    /\ blocked = {}
    /\ ticks_since_last_switch = 0
    /\ next_pid = 2
    /\ fault = "none"

-----------------------------------------------------------------------------
(* The scheduler.  pid and st are the PID and state fields as the caller   *)
(* has already updated them; t is the value of ticks_since_last_switch.    *)

Running  == fault = "none"
UserRuns == Running /\ current # idle_task

list_add(q, p)      == <<p>> \o q
list_add_tail(q, p) == Append(q, p)

ExpiryIgnoresQueue(st, t) ==
    IF PID[current] = 0
    THEN readyqueue # << >>
    ELSE INIT_QUANTUM < t \/ st[current] = "BLOCKED"

IgnoresBlocked(st, t) ==
    (PID[current] = 0 \/ INIT_QUANTUM < t) /\ readyqueue # << >>

needs_sched_rr(st, t) ==
    IF PID[current] = 0 \/ INIT_QUANTUM < t
    THEN readyqueue # << >>
    ELSE st[current] = "BLOCKED"

(* "IDLE time !"                                                           *)
BlockedYieldsToIdle(st) == readyqueue = << >> \/ st[current] = "BLOCKED"
IdleTime(st)            == readyqueue = << >>

(* Does the running process go back to the ready queue?  Not if it is      *)
(* idle, has exited or is blocked.                                         *)
RequeueExited(pid, st)  == pid[current] # 0 /\ st[current] # "BLOCKED"
RequeueBlocked(pid, st) == pid[current] > 0
Requeue(pid, st)        == pid[current] > 0 /\ st[current] # "BLOCKED"

sched_next_rr(pid, st) ==
    /\ ticks_since_last_switch' = 0
    /\ \/ /\ IdleTime(st)
          /\ current' = idle_task
          /\ state' = st
          /\ UNCHANGED readyqueue
       \/ /\ ~ IdleTime(st)
          /\ LET new == Head(readyqueue)
             IN  /\ current' = new
                 /\ state' = [st EXCEPT
                       ![current] = IF Requeue(pid, st) THEN "READY" ELSE @,
                       ![new] = "RUN"]
                 /\ readyqueue' = IF Requeue(pid, st)
                                  THEN list_add_tail(Tail(readyqueue), current)
                                  ELSE Tail(readyqueue)

schedule(st, t) ==
    \/ /\ needs_sched_rr(st, t)
       /\ sched_next_rr(PID, st)
    \/ /\ ~ needs_sched_rr(st, t)
       /\ ticks_since_last_switch' = t
       /\ state' = st
       /\ UNCHANGED <<current, readyqueue>>

clk_routine ==
    /\ Running
    /\ LET t == ticks_since_last_switch
       IN  schedule(state, IF t > INIT_QUANTUM THEN t ELSE t + 1)
    /\ UNCHANGED <<PID, parent, sons, pending_unblocks, freequeue, blocked,
                   next_pid, fault>>

-----------------------------------------------------------------------------
(* fork.  mm tells whether the memory manager found the pages and frames.  *)
(* Without them the handler returns -ENOMEM, but the PCB has already left  *)
(* the free queue and been overwritten with a copy of the caller's: it is  *)
(* in no queue and in no sons list, and keeps the caller's PID and parent. *)

ParentPidPlusOne == PID[current] + 1
ChildPid         == next_pid

sys_fork(mm) ==
    /\ UserRuns
    /\ next_pid <= MAX_PID
    /\ freequeue # << >>
    /\ LET child == Head(freequeue)
       IN  /\ freequeue' = Tail(freequeue)
           /\ \/ /\ mm
                 /\ PID' = [PID EXCEPT ![child] = ChildPid]
                 /\ next_pid' = next_pid + 1
                 /\ state' = [state EXCEPT ![child] = "READY"]
                 /\ pending_unblocks' = [pending_unblocks EXCEPT ![child] = 0]
                 /\ readyqueue' = list_add_tail(readyqueue, child)
                 /\ parent' = [parent EXCEPT ![child] = current]
                 /\ sons' = [sons EXCEPT ![child] = {},
                                         ![current] = @ \cup {child}]
              \/ /\ ~ mm
                 /\ PID' = [PID EXCEPT ![child] = PID[current]]
                 /\ state' = [state EXCEPT ![child] = state[current]]
                 /\ pending_unblocks' = [pending_unblocks EXCEPT
                                           ![child] = pending_unblocks[current]]
                 /\ parent' = [parent EXCEPT ![child] = parent[current]]
                 /\ UNCHANGED <<next_pid, readyqueue, sons>>
    /\ UNCHANGED <<current, blocked, ticks_since_last_switch, fault>>

(* fork with an empty free queue returns -ENOMEM and changes nothing.      *)
sys_fork_no_pcb ==
    /\ UserRuns
    /\ freequeue = << >>
    /\ UNCHANGED vars

-----------------------------------------------------------------------------
(* exit.  The reparenting loop runs over all of task[] and takes every PCB *)
(* whose parent pointer is the caller, whether or not it is alive.  The    *)
(* bros node of a PCB that has already exited has NULL links; that of a    *)
(* PCB leaked by a failed fork is a copy of the forking process's node.    *)

ReadyVictims == {i \in Task : parent[i] = current /\ state[i] # "BLOCKED"}
victims      == {i \in Task : parent[i] = current}

exit_fault ==
    IF \E i \in victims : i \in Range(freequeue) THEN "exit_null_bros"
    ELSE IF ~ victims \subseteq sons[current]    THEN "exit_copied_bros"
    ELSE IF current \in blocked                  THEN "exit_while_blocked"
    ELSE "none"

(* sons once the caller has left its siblings and its victims have joined  *)
(* those of idle.                                                          *)
SonsAfterExit(dead) ==
    [p \in Task |-> IF p = current THEN {}
                    ELSE (sons[p] \ dead) \cup
                         (IF p = idle_task THEN victims ELSE {})]
BrosKept  == SonsAfterExit({})
exit_sons == SonsAfterExit({current})

sys_exit ==
    /\ UserRuns
    /\ \/ /\ exit_fault # "none"
          /\ fault' = exit_fault
          /\ UNCHANGED <<current, pcbVars, queueVars,
                         ticks_since_last_switch, next_pid>>
       \/ /\ exit_fault = "none"
          /\ PID' = [PID EXCEPT ![current] = -1]
          /\ parent' = [p \in Task |-> IF p \in victims THEN idle_task
                                       ELSE parent[p]]
          /\ sons' = exit_sons
          /\ freequeue' = list_add_tail(freequeue, current)
          /\ sched_next_rr(PID', [state EXCEPT ![current] = "ZOMBIE"])
          /\ UNCHANGED <<pending_unblocks, blocked, next_pid, fault>>

-----------------------------------------------------------------------------
(* block and unblock.  An unblock that finds its target not blocked is     *)
(* remembered in pending_unblocks and consumed by the next block.          *)

WaitsOnOne  == pending_unblocks[current] = 1
WaitsAlways == TRUE
MustWait    == pending_unblocks[current] = 0

sys_block ==
    /\ UserRuns
    /\ \/ /\ ~ MustWait
          /\ pending_unblocks' = [pending_unblocks EXCEPT ![current] = @ - 1]
          /\ UNCHANGED <<current, PID, state, parent, sons, queueVars,
                         ticks_since_last_switch, next_pid, fault>>
       \/ /\ MustWait /\ current \in blocked
          /\ fault' = "block_while_blocked"
          /\ UNCHANGED <<current, pcbVars, queueVars,
                         ticks_since_last_switch, next_pid>>
       \/ /\ MustWait /\ current \notin blocked
          /\ blocked' = blocked \cup {current}
          /\ schedule([state EXCEPT ![current] = "BLOCKED"],
                      ticks_since_last_switch)
          /\ UNCHANGED <<PID, parent, sons, pending_unblocks, freequeue,
                         next_pid, fault>>

(* unblock(PID[son]).  A pid that is no son's returns -ECHILD and changes  *)
(* nothing.                                                                *)
IsSon(son) == son \in sons[current]

sys_unblock(son) ==
    /\ UserRuns
    /\ IsSon(son)
    /\ \/ /\ state[son] = "BLOCKED"
          /\ state' = [state EXCEPT ![son] = "READY"]
          /\ pending_unblocks' = [pending_unblocks EXCEPT ![son] = 0]
          /\ blocked' = blocked \ {son}
          /\ readyqueue' = list_add_tail(readyqueue, son)
       \/ /\ state[son] # "BLOCKED"
          /\ pending_unblocks[son] < MAX_PENDING
          /\ pending_unblocks' = [pending_unblocks EXCEPT ![son] = @ + 1]
          /\ UNCHANGED <<state, blocked, readyqueue>>
    /\ UNCHANGED <<current, PID, parent, sons, freequeue,
                   ticks_since_last_switch, next_pid, fault>>

-----------------------------------------------------------------------------
(* numsons and numbros walk a circular list with list_size, which does not *)
(* count the node it starts from.  numsons starts from the anchor, numbros *)
(* from the caller's own node: there the anchor is counted.                *)

sys_numsons == Cardinality(sons[current]) - 1

siblings(p) == UNION {sons[q] : q \in {r \in Task : p \in sons[r]}}

list_size_bros == Cardinality(siblings(current) \ {current}) + 1

numbros == list_size_bros - 1

(* The bros node of a process in no sons list was never initialised: its   *)
(* links are NULL and the walk is a kernel page fault.                     *)
sys_numbros ==
    /\ UserRuns
    /\ fault' = IF siblings(current) = {} THEN "numbros_null_bros" ELSE fault
    /\ UNCHANGED <<current, pcbVars, queueVars, ticks_since_last_switch,
                   next_pid>>

-----------------------------------------------------------------------------
(* After a fault the machine spins with interrupts disabled.               *)
pgf_spin == fault # "none" /\ UNCHANGED vars

Next ==
    \/ clk_routine
    \/ \E mm \in MemoryOutcomes : sys_fork(mm)
    \/ sys_fork_no_pcb
    \/ sys_exit
    \/ sys_block
    \/ \E son \in Task : sys_unblock(son)
    \/ sys_numbros
    \/ pgf_spin

Spec == Init /\ [][Next]_vars

(* The PIT raises the clock interrupt whatever the programs do.            *)
FairSpec == Spec /\ WF_vars(clk_routine)

-----------------------------------------------------------------------------
(* Properties.                                                             *)

Live == {idle_task, current} \cup Range(readyqueue) \cup blocked

TypeOK ==
    /\ current \in Task
    /\ PID \in [Task -> Int]
    /\ state \in [Task -> State]
    /\ parent \in [Task -> Task \cup {NULL}]
    /\ sons \in [Task -> SUBSET Task]
    /\ pending_unblocks \in [Task -> 0 .. MAX_PENDING]
    /\ freequeue \in Seq(Task)
    /\ readyqueue \in Seq(Task)
    /\ blocked \in SUBSET Task
    /\ ticks_since_last_switch \in Ticks
    /\ next_pid \in Nat
    /\ fault \in Fault

(* A PCB has one `node' link, so it can be in one queue at most and once:  *)
(* the free, ready and blocked queues hold no PCB twice and share none,    *)
(* and neither the running process nor idle is in the free or the ready    *)
(* queue (sched.c, the callers of list_add_tail on node).                  *)
QueuesDisjoint ==
    /\ IsInjective(freequeue) /\ IsInjective(readyqueue)
    /\ Range(freequeue) \cap Range(readyqueue) = {}
    /\ Range(freequeue) \cap blocked = {}
    /\ Range(readyqueue) \cap blocked = {}
    /\ {current, idle_task} \cap (Range(freequeue) \cup Range(readyqueue)) = {}
    /\ idle_task \notin blocked

(* The state field tells which queue a PCB is in: sys_unblock and the      *)
(* scheduler decide by the field what they then do to the queues.          *)
StateMatchesQueue ==
    \A p \in Live :
        /\ p \in Range(readyqueue) => state[p] = "READY"
        /\ state[p] = "BLOCKED" <=> p \in blocked
        /\ p \in {current, idle_task} \ blocked => state[p] = "RUN"

(* The sons list of a process holds exactly the live processes whose       *)
(* parent pointer is that process, and a live process's parent is alive:   *)
(* no orphan is lost when its parent exits, and a reused PCB inherits no   *)
(* relatives (sys_exit, sys_fork).                                         *)
FamilyTree ==
    /\ \A p \in Task : sons[p] = {c \in Live : parent[c] = p}
    /\ \A c \in Live : parent[c] \in Live \cup {NULL}

(* PIDs identify live processes, are never reused, and grow from parent to *)
(* child, so the family tree has no cycle (next_pid in sys_fork).          *)
Pids ==
    /\ \A p, q \in Live : PID[p] = PID[q] => p = q
    /\ \A p \in Live : PID[p] \in 0 .. next_pid - 1
    /\ \A p \in Live : parent[p] # NULL => PID[parent[p]] < PID[p]

(* No wakeup is lost: a process waits in the blocked queue only when every *)
(* unblock its parent sent has been consumed (sys_block, sys_unblock).     *)
BlockedNoPending == \A p \in blocked : pending_unblocks[p] = 0

(* numbros returns the number of the other sons of the caller's parent,    *)
(* although its walk starts from the middle of the list (sys_numbros).     *)
NumbrosCountsSiblings ==
    (UserRuns /\ siblings(current) # {}) =>
        numbros = Cardinality({c \in Live \ {current} :
                                 parent[c] = parent[current]})

(* A process that has blocked keeps the processor in one case only: its    *)
(* quantum had expired when it called block and no other was ready         *)
(* (needs_sched_rr looks at the quantum first); whichever process gets     *)
(* ready, the next clock interrupt then takes the processor away.          *)
RunsBlockedOnlyExpired ==
    current \in blocked => ticks_since_last_switch > INIT_QUANTUM

(* idle runs only when no process can ever run again: only running         *)
(* processes make others ready (sched_next_rr, cpu_idle).                  *)
IdleForever == [][current = idle_task => current' = idle_task]_vars

(* No process is lost: one that is no longer idle, running, ready or       *)
(* blocked has exited and is in the free queue.  The scheduler can switch  *)
(* to idle and leave the old process in no queue: needs_sched_rr must      *)
(* prevent it.                                                             *)
NoProcessLost ==
    [][\A p \in Live \ Live' : p = current /\ p \in Range(freequeue')]_vars

(* A process leaves the blocked queue only while its parent runs.          *)
OnlyParentUnblocks ==
    [][\A p \in blocked \ blocked' : parent[p] = current]_vars

(* No starvation: a process in the ready queue eventually runs, whatever   *)
(* the running ones do, unless the kernel hits one of the faults.          *)
ReadyRuns ==
    \A p \in Task : p \in Range(readyqueue) ~> (current = p \/ fault # "none")

(* The inductive invariant that implies the safety properties: they need   *)
(* each other, and that idle keeps PID 0 and never waits for a ready       *)
(* process (needs_sched_rr tells idle by its PID).                         *)
IdleAlone ==
    /\ PID[idle_task] = 0
    /\ current = idle_task => readyqueue = << >>

ProcessInv ==
    /\ TypeOK
    /\ QueuesDisjoint
    /\ StateMatchesQueue
    /\ FamilyTree
    /\ Pids
    /\ BlockedNoPending
    /\ IdleAlone

-----------------------------------------------------------------------------
(* What comments and the README say of these calls, and the code violates. *)

(* "since its running it shouldn't be in any queue" (sys_block).           *)
RunningInNoQueue == current \notin blocked

(* exit "terminates the calling process": it does not hang the kernel on a *)
(* NULL bros node.                                                         *)
ExitTerminates == fault # "exit_null_bros"

(* numbros "returns the number of sibling processes" to every caller.      *)
NumbrosReturns == fault # "numbros_null_bros"

(* numsons "returns the number of child processes".                        *)
NumsonsCountsSons ==
    UserRuns => sys_numsons = Cardinality({c \in Live : parent[c] = current})

=============================================================================
