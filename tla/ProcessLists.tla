---------------------------- MODULE ProcessLists ----------------------------
(***************************************************************************)
(* Process with its lists as they are in memory: every queue and every     *)
(* sons list is a circular list through the `node' and `bros' fields of    *)
(* the PCBs, changed by the calls to list.c that sched.c and sys.c make,   *)
(* in their order.  fork copies the whole PCB of the caller, links         *)
(* included.  The module is shown to implement Process, where queues are   *)
(* sequences and relatives are sets.                                       *)
(*                                                                         *)
(* As in Process a call on a node that is not where the code assumes it    *)
(* ends the modelled behaviour.  Here it is seen from the links alone:     *)
(* list_del through NULL, list_del of a node whose neighbours do not know  *)
(* it, or list_add_tail of a node that is in a list.                       *)
(*                                                                         *)
(* EnqueuedFirst and HeadNotReset are plausible bugs: each is a wrong form *)
(* of the definition that follows it.                                      *)
(***************************************************************************)
EXTENDS Integers, SequencesExt

CONSTANTS NR_TASKS, INIT_QUANTUM, MemoryOutcomes, MAX_PID, MAX_PENDING

ASSUME ListsAssumption ==
    /\ NR_TASKS \in Nat /\ NR_TASKS >= 2
    /\ INIT_QUANTUM \in Nat
    /\ MemoryOutcomes \subseteq BOOLEAN
    /\ MAX_PID \in Nat /\ MAX_PENDING \in Nat

VARIABLES
    current, PID, state, parent, pending_unblocks,
    links,                     \* next and prev of every list_head
    ticks_since_last_switch, next_pid, fault

vars == <<current, PID, state, parent, pending_unblocks, links,
          ticks_since_last_switch, next_pid, fault>>

Task == 0 .. NR_TASKS - 1

(* The list_head variables of sched.c, and the list_head fields of a PCB.  *)
freequeue  == <<"freequeue", 0>>
readyqueue == <<"readyqueue", 0>>
blocked    == <<"blocked", 0>>
node(p) == <<"node", p>>
bros(p) == <<"bros", p>>
sonlist(p) == <<"sons", p>>

Node == {freequeue, readyqueue, blocked} \cup
        {node(p) : p \in Task} \cup {bros(p) : p \in Task} \cup
        {sonlist(p) : p \in Task}
NIL  == <<"NULL", 0>>

INSTANCE List

(* The PCB is at the start of the page that holds the node.                *)
list_head_to_task_struct(n) == n[2]

TasksOf(l, head) ==
    LET walk == list_for_each(l, head)
    IN  [i \in DOMAIN walk |-> list_head_to_task_struct(walk[i])]

-----------------------------------------------------------------------------
(* Boot: init_sched, init_idle and init_task1.  Memory is zero at first.   *)

idle_task  == NR_TASKS - 1
task1_task == NR_TASKS - 2

init_sched ==
    LET zero  == [n \in Node |-> NIL]
        empty == INIT_LIST_HEAD([next |-> zero, prev |-> zero], freequeue)
        added[i \in 0 .. NR_TASKS] ==
            IF i = 0 THEN empty
            ELSE list_add(added[i - 1], node(i - 1), freequeue)
    IN  INIT_LIST_HEAD(INIT_LIST_HEAD(added[NR_TASKS], readyqueue), blocked)

(* A PCB leaves the free queue and gets an empty list of sons.             *)
init_pcb(l) ==
    LET elem == list_first(l, freequeue)
        p    == list_head_to_task_struct(elem)
    IN  INIT_LIST_HEAD(list_del(l, elem), sonlist(p))

Init ==
    /\ current = task1_task
    /\ PID = [p \in Task |-> IF p = idle_task THEN 0
                             ELSE IF p = task1_task THEN 1 ELSE -1]
    /\ state = [p \in Task |-> "RUN"]
    /\ parent = [p \in Task |-> -1]
    /\ pending_unblocks = [p \in Task |-> 0]
    /\ links = init_pcb(init_pcb(init_sched))
    /\ ticks_since_last_switch = 0
    /\ next_pid = 2
    /\ fault = "none"

-----------------------------------------------------------------------------
(* The scheduler.  l, pid and st are the links, PIDs and states as the     *)
(* caller has left them.                                                   *)

UserRuns == fault = "none" /\ current # idle_task

needs_sched_rr(l, st, t) ==
    IF PID[current] = 0 \/ INIT_QUANTUM < t
    THEN ~ list_empty(l, readyqueue)
    ELSE st[current] = "BLOCKED"

(* update_process_state_rr with a queue, for the running process, and with *)
(* NULL, for the one that is to run.                                       *)
EnqueuedFirst(l, p, dest) == list_add(l, node(p), dest)
Enqueued(l, p, dest)      == list_add_tail(l, node(p), dest)
Dequeued(l, p)            == list_del(l, node(p))

(* The next process is chosen before the running one is queued again.      *)
sched_next_rr(l, pid, st) ==
    LET new     == list_head_to_task_struct(list_first(l, readyqueue))
        requeue == pid[current] > 0 /\ st[current] # "BLOCKED"
        queued  == IF requeue THEN Enqueued(l, current, readyqueue) ELSE l
    IN  /\ ticks_since_last_switch' = 0
        /\ \/ /\ list_empty(l, readyqueue)
              /\ current' = idle_task
              /\ state' = st
              /\ links' = l
           \/ /\ ~ list_empty(l, readyqueue)
              /\ current' = new
              /\ state' = [st EXCEPT
                    ![current] = IF requeue THEN "READY" ELSE @,
                    ![new] = "RUN"]
              /\ links' = Dequeued(queued, new)

schedule(l, st, t) ==
    \/ /\ needs_sched_rr(l, st, t)
       /\ sched_next_rr(l, PID, st)
    \/ /\ ~ needs_sched_rr(l, st, t)
       /\ ticks_since_last_switch' = t
       /\ state' = st
       /\ links' = l
       /\ UNCHANGED current

clk_routine ==
    /\ fault = "none"
    /\ LET t == ticks_since_last_switch
       IN  schedule(links, state, IF t > INIT_QUANTUM THEN t ELSE t + 1)
    /\ UNCHANGED <<PID, parent, pending_unblocks, next_pid, fault>>

-----------------------------------------------------------------------------
(* fork.  The copy of the PCB duplicates the caller's links; only those of *)
(* a successful fork are then replaced.                                    *)

copy_data(l, p, c) ==
    LET copy(f) == [f EXCEPT ![node(c)] = f[node(p)],
                             ![bros(c)] = f[bros(p)],
                             ![sonlist(c)] = f[sonlist(p)]]
    IN  [next |-> copy(l.next), prev |-> copy(l.prev)]

HeadNotReset(l, c)   == l
NewSonsHead(l, c)    == INIT_LIST_HEAD(l, sonlist(c))

sys_fork(mm) ==
    /\ UserRuns
    /\ next_pid <= MAX_PID
    /\ ~ list_empty(links, freequeue)
    /\ LET elem   == list_first(links, freequeue)
           child  == list_head_to_task_struct(elem)
           copied == copy_data(list_del(links, elem), current, child)
           ready  == NewSonsHead(list_add_tail(copied, node(child), readyqueue),
                                 child)
       IN  \/ /\ mm
              /\ PID' = [PID EXCEPT ![child] = next_pid]
              /\ next_pid' = next_pid + 1
              /\ state' = [state EXCEPT ![child] = "READY"]
              /\ pending_unblocks' = [pending_unblocks EXCEPT ![child] = 0]
              /\ parent' = [parent EXCEPT ![child] = current]
              /\ links' = list_add_tail(ready, bros(child), sonlist(current))
           \/ /\ ~ mm
              /\ PID' = [PID EXCEPT ![child] = PID[current]]
              /\ state' = [state EXCEPT ![child] = state[current]]
              /\ pending_unblocks' = [pending_unblocks EXCEPT
                                        ![child] = pending_unblocks[current]]
              /\ parent' = [parent EXCEPT ![child] = parent[current]]
              /\ links' = copied
              /\ UNCHANGED next_pid
    /\ UNCHANGED <<current, ticks_since_last_switch, fault>>

-----------------------------------------------------------------------------
(* exit.                                                                   *)

victims == {i \in Task : parent[i] = current}

exit_fault ==
    IF \E i \in victims : ~ Linked(links, bros(i))     THEN "exit_null_bros"
    ELSE IF \E i \in victims : Copied(links, bros(i))  THEN "exit_copied_bros"
    ELSE IF Linked(links, node(current))               THEN "exit_while_blocked"
    ELSE "none"

(* The loop over task[], and one round of it.                              *)
Reparent(l, p) ==
    IF p \in victims
    THEN list_add_tail(list_del(l, bros(p)), bros(p), sonlist(idle_task))
    ELSE l

Reparented(l) ==
    LET round[i \in 0 .. NR_TASKS] ==
            IF i = 0 THEN l ELSE Reparent(round[i - 1], i - 1)
    IN  round[NR_TASKS]

sys_exit ==
    /\ UserRuns
    /\ \/ /\ exit_fault # "none"
          /\ fault' = exit_fault
          /\ UNCHANGED <<current, PID, state, parent, pending_unblocks, links,
                         ticks_since_last_switch, next_pid>>
       \/ /\ exit_fault = "none"
          /\ LET left == IF PID[current] # 1 THEN list_del(links, bros(current))
                         ELSE links
             IN  sched_next_rr(Enqueued(Reparented(left), current, freequeue),
                               [PID EXCEPT ![current] = -1],
                               [state EXCEPT ![current] = "ZOMBIE"])
          /\ PID' = [PID EXCEPT ![current] = -1]
          /\ parent' = [p \in Task |-> IF p \in victims THEN idle_task
                                       ELSE parent[p]]
          /\ UNCHANGED <<pending_unblocks, next_pid, fault>>

-----------------------------------------------------------------------------
(* block, unblock, numbros.                                                *)

sys_block ==
    /\ UserRuns
    /\ \/ /\ pending_unblocks[current] # 0
          /\ pending_unblocks' = [pending_unblocks EXCEPT ![current] = @ - 1]
          /\ UNCHANGED <<current, PID, state, parent, links,
                         ticks_since_last_switch, next_pid, fault>>
       \/ /\ pending_unblocks[current] = 0 /\ Linked(links, node(current))
          /\ fault' = "block_while_blocked"
          /\ UNCHANGED <<current, PID, state, parent, pending_unblocks, links,
                         ticks_since_last_switch, next_pid>>
       \/ /\ pending_unblocks[current] = 0 /\ ~ Linked(links, node(current))
          /\ schedule(list_add_tail(links, node(current), blocked),
                      [state EXCEPT ![current] = "BLOCKED"],
                      ticks_since_last_switch)
          /\ UNCHANGED <<PID, parent, pending_unblocks, next_pid, fault>>

(* The walk over the sons stops at the first with that PID; without one    *)
(* the call returns -ECHILD.                                               *)
sys_unblock(pid) ==
    /\ UserRuns
    /\ LET walk  == TasksOf(links, sonlist(current))
           found == {i \in DOMAIN walk : PID[walk[i]] = pid}
           son   == walk[CHOOSE i \in found : \A j \in found : i <= j]
       IN  \/ /\ found = {}
              /\ UNCHANGED <<state, pending_unblocks, links>>
           \/ /\ found # {} /\ state[son] = "BLOCKED"
              /\ state' = [state EXCEPT ![son] = "READY"]
              /\ pending_unblocks' = [pending_unblocks EXCEPT ![son] = 0]
              /\ links' = list_add_tail(list_del(links, node(son)), node(son),
                                        readyqueue)
           \/ /\ found # {} /\ state[son] # "BLOCKED"
              /\ pending_unblocks[son] < MAX_PENDING
              /\ pending_unblocks' = [pending_unblocks EXCEPT ![son] = @ + 1]
              /\ UNCHANGED <<state, links>>
    /\ UNCHANGED <<current, PID, parent, ticks_since_last_switch, next_pid,
                   fault>>

sys_numsons == list_size(links, sonlist(current)) - 1
sys_numbros == list_size(links, bros(current)) - 1

(* list_size of a node with NULL links follows NULL.                       *)
numbros_faults ==
    /\ UserRuns
    /\ ~ Linked(links, bros(current))
    /\ fault' = "numbros_null_bros"
    /\ UNCHANGED <<current, PID, state, parent, pending_unblocks, links,
                   ticks_since_last_switch, next_pid>>

pgf_spin == fault # "none" /\ UNCHANGED vars

Next ==
    \/ clk_routine
    \/ \E mm \in MemoryOutcomes : sys_fork(mm)
    \/ sys_exit
    \/ sys_block
    \/ \E pid \in 1 .. MAX_PID : sys_unblock(pid)
    \/ numbros_faults
    \/ pgf_spin

Spec == Init /\ [][Next]_vars

-----------------------------------------------------------------------------
(* The queues and relatives of Process, read off the links.  The sons head *)
(* of a PCB that was never used is NULL, that of a PCB leaked by a failed  *)
(* fork is a copy: neither is a list.                                      *)
IsList(l, p) == Linked(l, sonlist(p)) /\ ~ Copied(l, sonlist(p))

FamilyOf(l, p) == IF IsList(l, p) THEN ToSet(TasksOf(l, sonlist(p))) ELSE {}

FreeTasks    == TasksOf(links, freequeue)
ReadyTasks   == TasksOf(links, readyqueue)
BlockedTasks == ToSet(TasksOf(links, blocked))
Families     == [p \in Task |-> FamilyOf(links, p)]

P == INSTANCE Process WITH
        freequeue <- FreeTasks,    readyqueue <- ReadyTasks,
        blocked   <- BlockedTasks, sons       <- Families

(* The linked lists implement the queues and sets of Process: through      *)
(* every mix of list calls each queue is the sequence, and each family the *)
(* set, that Process says, and a call on a misplaced node is made in       *)
(* exactly the states where Process reports one (sched.c, sys.c, list.c).  *)
ListsImplementQueues == P!Spec

LostTasks == Task \ (P!Live \cup Range(FreeTasks))

(* Both directions of every list agree, its head included, and only a PCB  *)
(* lost by a failed fork holds links that do not lead back to it: a        *)
(* removal with list_del needs both neighbours, and fork's copy of the PCB *)
(* gives a child links that are someone else's.                            *)
LinksAgree ==
    \A n \in Node :
        \/ ~ Linked(links, n)
        \/ links.next[links.prev[n]] = n /\ links.prev[links.next[n]] = n
        \/ \E p \in LostTasks : n \in {node(p), bros(p), sonlist(p)}

(* The walks of numsons and numbros count what Process says they do, from  *)
(* the anchor in one case and from the middle of the ring in the other.    *)
WalksCount ==
    UserRuns =>
        /\ sys_numsons = P!sys_numsons
        /\ Linked(links, bros(current)) => sys_numbros = P!numbros

(* The circular lists as a whole: every list can be walked and changed     *)
(* from any of its nodes.                                                  *)
ListsSound == LinksAgree /\ WalksCount
=============================================================================
