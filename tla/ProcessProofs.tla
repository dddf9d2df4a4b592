--------------------------- MODULE ProcessProofs ---------------------------
(***************************************************************************)
(* Proofs about Process, for every number of PCBs, every quantum and every *)
(* bound: ProcessInv is inductive, and the safety properties follow.       *)
(***************************************************************************)
EXTENDS Process, SequenceTheorems, FiniteSetTheorems, TLAPS

-----------------------------------------------------------------------------
(* Queues: what taking the head and adding to the tail do to the set of    *)
(* the elements and to the absence of duplicates.                          *)

(* An empty queue has no elements.                                         *)
LEMMA EmptyRange == Range(<< >>) = {} /\ IsInjective(<< >>)
  BY DEF Range, IsInjective

(* The elements of a queue of PCBs are PCBs.                               *)
LEMMA QueueElements ==
  ASSUME NEW S, NEW q \in Seq(S)
  PROVE  Range(q) \subseteq S
  BY LenProperties, ElementOfSeq DEF Range

(* list_first and list_del of the first node: the rest has one element     *)
(* fewer and keeps its order and its freedom from duplicates.              *)
LEMMA TailLemma ==
  ASSUME NEW S, NEW q \in Seq(S), q # << >>
  PROVE  /\ Tail(q) \in Seq(S)
         /\ Head(q) \in S
         /\ Head(q) \in Range(q)
         /\ Range(Tail(q)) \subseteq Range(q)
         /\ Range(q) = Range(Tail(q)) \cup {Head(q)}
         /\ IsInjective(q) => /\ IsInjective(Tail(q))
                              /\ Head(q) \notin Range(Tail(q))
<1>1. /\ Tail(q) \in Seq(S) /\ Head(q) \in S /\ Head(q) = q[1]
      /\ Len(q) \in Nat \ {0} /\ DOMAIN q = 1 .. Len(q)
      /\ Len(Tail(q)) = Len(q) - 1 /\ DOMAIN Tail(q) = 1 .. Len(q) - 1
      /\ \A i \in 1 .. Len(q) - 1 : Tail(q)[i] = q[i + 1]
  BY HeadTailProperties, LenProperties, EmptySeq
<1>2. Head(q) \in Range(q)
  BY <1>1 DEF Range
<1>3. Range(Tail(q)) \subseteq Range(q)
  BY <1>1 DEF Range
<1>4. ASSUME NEW x \in Range(q), x # Head(q) PROVE x \in Range(Tail(q))
  <2>1. PICK i \in 1 .. Len(q) : x = q[i]
    BY <1>1 DEF Range
  <2>2. i - 1 \in 1 .. Len(q) - 1 /\ Tail(q)[i - 1] = q[i]
    BY <1>1, <1>4, <2>1
  <2> QED BY <1>1, <2>1, <2>2 DEF Range
<1>5. IsInjective(q) => IsInjective(Tail(q)) /\ Head(q) \notin Range(Tail(q))
  BY <1>1 DEF IsInjective, Range
<1> QED BY <1>1, <1>2, <1>3, <1>4, <1>5

(* list_add_tail: one more element, and no duplicate if it was not there.  *)
LEMMA AppendLemma ==
  ASSUME NEW S, NEW q \in Seq(S), NEW x \in S
  PROVE  /\ Append(q, x) \in Seq(S)
         /\ Append(q, x) # << >>
         /\ Range(Append(q, x)) = Range(q) \cup {x}
         /\ IsInjective(q) /\ x \notin Range(q) => IsInjective(Append(q, x))
<1>1. /\ Append(q, x) \in Seq(S) /\ Len(q) \in Nat /\ DOMAIN q = 1 .. Len(q)
      /\ Append(q, x) # << >>
      /\ DOMAIN Append(q, x) = 1 .. Len(q) + 1
      /\ \A i \in 1 .. Len(q) : Append(q, x)[i] = q[i]
      /\ Append(q, x)[Len(q) + 1] = x
  BY AppendProperties, LenProperties, EmptySeq
<1>2. Range(Append(q, x)) \subseteq Range(q) \cup {x}
  BY <1>1 DEF Range
<1>3. Range(q) \cup {x} \subseteq Range(Append(q, x))
  BY <1>1 DEF Range
<1>4. IsInjective(q) /\ x \notin Range(q) => IsInjective(Append(q, x))
  BY <1>1 DEF IsInjective, Range
<1> QED BY <1>1, <1>2, <1>3, <1>4

-----------------------------------------------------------------------------
(* idle and task1 are PCBs.                                                *)
LEMMA BootTasks ==
  /\ idle_task \in Task /\ task1_task \in Task /\ idle_task # task1_task
  /\ NULL \notin Task
  BY ProcessAssumption DEF idle_task, task1_task, Task, NULL

(* The free queue of Init holds every other PCB, once.                     *)
LEMMA InitFreequeue ==
  ASSUME Init
  PROVE  /\ freequeue \in Seq(Task)
         /\ IsInjective(freequeue)
         /\ idle_task \notin Range(freequeue)
         /\ task1_task \notin Range(freequeue)
<1>1. NR_TASKS - 2 \in Nat
  BY ProcessAssumption
<1>2. /\ freequeue = [i \in 1 .. NR_TASKS - 2 |-> NR_TASKS - 2 - i]
      /\ \A i \in 1 .. NR_TASKS - 2 : NR_TASKS - 2 - i \in Task
  BY <1>1, ProcessAssumption DEF Init, Task
<1>3. freequeue \in [1 .. NR_TASKS - 2 -> Task]
  BY <1>2
<1>4. freequeue \in Seq(Task)
  BY <1>1, <1>3, SeqDef
<1>5. IsInjective(freequeue)
  BY <1>1, <1>2 DEF IsInjective
<1>6. idle_task \notin Range(freequeue) /\ task1_task \notin Range(freequeue)
  BY <1>1, <1>2, ProcessAssumption DEF Range, idle_task, task1_task
<1> QED BY <1>4, <1>5, <1>6

(* The boot state satisfies the invariant.                                 *)
LEMMA InitInv == Init => ProcessInv
<1> SUFFICES ASSUME Init PROVE ProcessInv
  OBVIOUS
<1> USE BootTasks, ProcessAssumption
<1>0. Range(readyqueue) = {} /\ IsInjective(readyqueue)
  BY EmptyRange DEF Init
<1>1. TypeOK
  BY InitFreequeue, EmptySeq DEF Init, TypeOK, State, Fault, Ticks
<1>2. Live = {idle_task, task1_task} /\ current = task1_task /\ blocked = {}
  BY <1>0 DEF Live, Init
<1>3. QueuesDisjoint
  BY <1>0, <1>2, InitFreequeue DEF QueuesDisjoint
<1>4. StateMatchesQueue
  BY <1>0, <1>2 DEF Init, StateMatchesQueue
<1>5. FamilyTree
  BY <1>2 DEF Init, FamilyTree
<1>6. Pids
  BY <1>2 DEF Init, Pids
<1>7. BlockedNoPending /\ IdleAlone
  BY <1>2 DEF Init, BlockedNoPending, IdleAlone
<1> QED BY <1>1, <1>3, <1>4, <1>5, <1>6, <1>7 DEF ProcessInv

(* What sched_next_rr does to the ready queue and to the running process,  *)
(* in terms of the set of ready processes.                                 *)
ToIdle(st) ==
    /\ readyqueue = << >> /\ readyqueue' = << >>
    /\ Range(readyqueue) = {} /\ Range(readyqueue') = {}
    /\ current' = idle_task
    /\ state' = st

ToReady(pid, st) ==
    /\ readyqueue # << >>
    /\ current' \in Range(readyqueue)
    /\ current' \in Task
    /\ current' # current
    /\ Range(readyqueue') = (Range(readyqueue) \ {current'})
                            \cup (IF Requeue(pid, st) THEN {current} ELSE {})
    /\ \A p \in Task : state'[p] =
           IF p = current' THEN "RUN"
           ELSE IF p = current /\ Requeue(pid, st) THEN "READY"
           ELSE st[p]

LEMMA SchedNext ==
  ASSUME TypeOK, QueuesDisjoint, NEW pid, NEW st \in [Task -> State],
         sched_next_rr(pid, st)
  PROVE  /\ readyqueue' \in Seq(Task)
         /\ IsInjective(readyqueue')
         /\ state' \in [Task -> State]
         /\ current' \in Task
         /\ ticks_since_last_switch' = 0
         /\ ToIdle(st) \/ ToReady(pid, st)
<1> USE BootTasks
<1>1. CASE readyqueue = << >>
  BY <1>1, EmptyRange DEF sched_next_rr, IdleTime, TypeOK, QueuesDisjoint,
     ToIdle
<1>2. CASE readyqueue # << >>
  <2> DEFINE new == Head(readyqueue)
  <2>1. /\ current' = new
        /\ state' = [st EXCEPT
                       ![current] = IF Requeue(pid, st) THEN "READY" ELSE @,
                       ![new] = "RUN"]
        /\ readyqueue' = IF Requeue(pid, st)
                         THEN Append(Tail(readyqueue), current)
                         ELSE Tail(readyqueue)
        /\ ticks_since_last_switch' = 0
    BY <1>2 DEF sched_next_rr, IdleTime, list_add_tail
  <2>2. /\ Tail(readyqueue) \in Seq(Task) /\ new \in Task
        /\ new \in Range(readyqueue)
        /\ Range(Tail(readyqueue)) = Range(readyqueue) \ {new}
        /\ IsInjective(Tail(readyqueue))
    BY <1>2, TailLemma DEF TypeOK, QueuesDisjoint
  <2>3. current \in Task /\ current \notin Range(readyqueue)
    BY DEF TypeOK, QueuesDisjoint
  <2>4. /\ readyqueue' \in Seq(Task) /\ IsInjective(readyqueue')
        /\ Range(readyqueue') = (Range(readyqueue) \ {new})
             \cup (IF Requeue(pid, st) THEN {current} ELSE {})
    <3>1. CASE Requeue(pid, st)
      BY <2>1, <2>2, <2>3, <3>1, AppendLemma
    <3>2. CASE ~ Requeue(pid, st)
      BY <2>1, <2>2, <3>2
    <3> QED BY <3>1, <3>2
  <2>5. /\ state' \in [Task -> State]
        /\ \A p \in Task : state'[p] =
                     IF p = new THEN "RUN"
                     ELSE IF p = current /\ Requeue(pid, st) THEN "READY"
                     ELSE st[p]
    BY <2>1, <2>2, <2>3 DEF State
  <2> HIDE DEF new
  <2> QED BY <1>2, <2>1, <2>2, <2>3, <2>4, <2>5 DEF ToReady
<1> QED BY <1>1, <1>2

(* idle is the live process with PID 0, so the scheduler's tests on PID    *)
(* tell idle from the others.                                              *)
LEMMA PidZeroIsIdle ==
  ASSUME ProcessInv
  PROVE  /\ current \in Live /\ idle_task \in Live
         /\ PID[current] = 0 <=> current = idle_task
         /\ current # idle_task => PID[current] > 0
         /\ parent[idle_task] = NULL
<1> USE BootTasks DEF ProcessInv
<1>1. current \in Live /\ idle_task \in Live
  BY DEF Live
<1>2. PID[current] = 0 <=> current = idle_task
  BY <1>1 DEF Pids, IdleAlone
<1>3. PID[current] \in Nat /\ next_pid \in Nat
  BY <1>1 DEF Pids, TypeOK
<1>4. parent[idle_task] = NULL
  BY <1>1 DEF Pids, IdleAlone, FamilyTree, TypeOK
<1> QED BY <1>1, <1>2, <1>3, <1>4

(* Live processes are PCBs, and none of them is in the free queue.         *)
LEMMA LiveFacts ==
  ASSUME TypeOK, QueuesDisjoint
  PROVE  /\ Live \subseteq Task
         /\ Range(freequeue) \subseteq Task
         /\ Range(freequeue) \cap Live = {}
<1>1. Range(readyqueue) \subseteq Task /\ Range(freequeue) \subseteq Task
  BY QueueElements DEF TypeOK
<1> QED BY <1>1, BootTasks DEF Live, TypeOK, QueuesDisjoint

(* The clock interrupt preserves the invariant: a process that loses the   *)
(* CPU is requeued unless it is idle or blocked.                           *)
LEMMA ClkInv ==
  ASSUME ProcessInv, clk_routine
  PROVE  ProcessInv' /\ Live' = Live
<1> USE BootTasks DEF ProcessInv
<1> DEFINE t == IF ticks_since_last_switch > INIT_QUANTUM
                THEN ticks_since_last_switch
                ELSE ticks_since_last_switch + 1
<1>0. /\ schedule(state, t)
      /\ UNCHANGED <<PID, parent, sons, pending_unblocks, freequeue, blocked,
                     next_pid, fault>>
  BY DEF clk_routine
<1>t. t \in Ticks
  BY ProcessAssumption DEF TypeOK, Ticks
<1> HIDE DEF t
<1>1. CASE ~ needs_sched_rr(state, t)
  <2>1. ticks_since_last_switch' = t /\ UNCHANGED <<state, current, readyqueue>>
    BY <1>0, <1>1 DEF schedule
  <2> QED BY <1>0, <1>t, <2>1 DEF TypeOK, QueuesDisjoint, StateMatchesQueue,
        FamilyTree, Pids, BlockedNoPending, IdleAlone, Live
<1>2. CASE needs_sched_rr(state, t)
  <2>1. sched_next_rr(PID, state)
    BY <1>0, <1>2 DEF schedule
  <2>2. /\ readyqueue # << >> \/ current \in blocked
        /\ Requeue(PID, state) <=> current \notin blocked /\ current # idle_task
        /\ current \in Live
    BY <1>2, PidZeroIsIdle DEF needs_sched_rr, Requeue, StateMatchesQueue,
       IdleAlone
  <2>3. /\ readyqueue' \in Seq(Task) /\ IsInjective(readyqueue')
        /\ state' \in [Task -> State] /\ current' \in Task
        /\ ticks_since_last_switch' = 0
        /\ ToIdle(state) \/ ToReady(PID, state)
    <3>1. state \in [Task -> State]
      BY DEF TypeOK
    <3> QED BY <2>1, <3>1, SchedNext
  <2>4. TypeOK'
    BY <1>0, <2>3, ProcessAssumption DEF TypeOK, Ticks
  <2>5. QueuesDisjoint'
    <3>1. CASE ToIdle(state)
      BY <1>0, <2>2, <2>3, <3>1 DEF QueuesDisjoint, ToIdle
    <3>2. CASE ToReady(PID, state)
      BY <1>0, <2>2, <2>3, <3>2 DEF QueuesDisjoint, ToReady
    <3> QED BY <2>3, <3>1, <3>2
  <2>6. Live' = Live
    BY <1>0, <2>2, <2>3 DEF Live, ToIdle, ToReady
  <2>7. StateMatchesQueue'
    <3>1. CASE ToIdle(state)
      BY <1>0, <2>2, <2>3, <2>6, <3>1
         DEF QueuesDisjoint, StateMatchesQueue, ToIdle, Live
    <3>2. CASE ToReady(PID, state)
      <4> SUFFICES ASSUME NEW p \in Live
                   PROVE  /\ p \in Range(readyqueue') => state'[p] = "READY"
                          /\ state'[p] = "BLOCKED" <=> p \in blocked
                          /\ p \in {current', idle_task} \ blocked
                               => state'[p] = "RUN"
        BY <1>0, <2>6 DEF StateMatchesQueue
      <4>1. p \in Task
        BY LiveFacts
      <4>2. /\ p \in Range(readyqueue) => state[p] = "READY"
            /\ state[p] = "BLOCKED" <=> p \in blocked
            /\ p \in {current, idle_task} \ blocked => state[p] = "RUN"
        BY DEF StateMatchesQueue
      <4> QED BY <2>2, <3>2, <4>1, <4>2 DEF QueuesDisjoint, ToReady
    <3> QED BY <2>3, <3>1, <3>2
  <2>8. FamilyTree' /\ Pids' /\ BlockedNoPending'
    BY <1>0, <2>6 DEF FamilyTree, Pids, BlockedNoPending
  <2>9. IdleAlone'
    BY <1>0, <2>3 DEF IdleAlone, QueuesDisjoint, ToIdle, ToReady
  <2> QED BY <2>4, <2>5, <2>6, <2>7, <2>8, <2>9
<1> QED BY <1>1, <1>2

(* Steps that change none of the variables the invariant is about, or only *)
(* record a fault, preserve it.                                            *)
LEMMA FaultInv ==
  ASSUME ProcessInv,
         UNCHANGED <<current, pcbVars, queueVars, ticks_since_last_switch,
                     next_pid>>,
         fault' \in Fault
  PROVE  ProcessInv' /\ Live' = Live
  BY DEF ProcessInv, TypeOK, QueuesDisjoint, StateMatchesQueue, FamilyTree,
         Pids, BlockedNoPending, IdleAlone, Live, pcbVars, queueVars

(* block preserves the invariant: the caller enters the blocked queue and  *)
(* only another process can be made to run; if none is switched to, it     *)
(* keeps running from the blocked queue.                                   *)
LEMMA BlockInv ==
  ASSUME ProcessInv, sys_block
  PROVE  ProcessInv' /\ Live' = Live
<1> USE BootTasks
<1>0. TypeOK /\ QueuesDisjoint /\ StateMatchesQueue /\ FamilyTree /\ Pids
      /\ BlockedNoPending /\ IdleAlone
  BY DEF ProcessInv
<1>c. current \in Task /\ current # idle_task
  BY <1>0 DEF sys_block, UserRuns, TypeOK
<1>1. CASE ~ MustWait /\ sys_block
  <2>1. /\ pending_unblocks[current] # 0
        /\ pending_unblocks' = [pending_unblocks EXCEPT ![current] = @ - 1]
        /\ UNCHANGED <<current, PID, state, parent, sons, queueVars,
                       ticks_since_last_switch, next_pid, fault>>
    BY <1>1 DEF sys_block, MustWait
  <2>2. pending_unblocks' \in [Task -> 0 .. MAX_PENDING]
    BY <1>0, <1>c, <2>1, ProcessAssumption DEF TypeOK
  <2>3. TypeOK'
    BY <1>0, <2>1, <2>2 DEF TypeOK, queueVars
  <2>4. BlockedNoPending'
    BY <1>0, <1>c, <2>1 DEF BlockedNoPending, TypeOK, queueVars
  <2> QED BY <1>0, <2>1, <2>3, <2>4 DEF ProcessInv, QueuesDisjoint,
        StateMatchesQueue, FamilyTree, Pids, IdleAlone, Live, queueVars
<1>2. CASE MustWait /\ current \in blocked
  <2>1. /\ fault' = "block_while_blocked"
        /\ UNCHANGED <<current, pcbVars, queueVars,
                       ticks_since_last_switch, next_pid>>
    BY <1>2 DEF sys_block
  <2> QED BY <2>1, FaultInv DEF Fault
<1>3. CASE MustWait /\ current \notin blocked
  <2> DEFINE st == [state EXCEPT ![current] = "BLOCKED"]
             t  == ticks_since_last_switch
  <2>1. /\ blocked' = blocked \cup {current}
        /\ schedule(st, t)
        /\ pending_unblocks[current] = 0
        /\ UNCHANGED <<PID, parent, sons, pending_unblocks, freequeue,
                       next_pid, fault>>
    BY <1>3 DEF sys_block, MustWait
  <2>2. /\ st \in [Task -> State]
        /\ \A p \in Task : st[p] = IF p = current THEN "BLOCKED" ELSE state[p]
    BY <1>0, <1>c DEF TypeOK, State
  <2> HIDE DEF st
  <2>3. BlockedNoPending'
    BY <1>0, <2>1 DEF BlockedNoPending
  <2>4. \A p \in Live : p \in Task
    BY <1>0, LiveFacts
  <2>5. CASE ~ needs_sched_rr(st, t)
    <3>1. /\ ticks_since_last_switch' = t /\ state' = st
          /\ UNCHANGED <<current, readyqueue>>
      BY <2>1, <2>5 DEF schedule
    <3>2. Live' = Live
      BY <2>1, <3>1 DEF Live
    <3>3. TypeOK' /\ QueuesDisjoint'
      BY <1>0, <1>c, <2>1, <2>2, <3>1 DEF TypeOK, QueuesDisjoint
    <3>4. StateMatchesQueue'
      BY <1>0, <1>c, <2>1, <2>2, <2>4, <3>1, <3>2
         DEF StateMatchesQueue, QueuesDisjoint
    <3>5. FamilyTree' /\ Pids' /\ IdleAlone'
      BY <1>0, <2>1, <3>1, <3>2 DEF FamilyTree, Pids, IdleAlone
    <3> QED BY <2>3, <3>2, <3>3, <3>4, <3>5 DEF ProcessInv
  <2>6. CASE needs_sched_rr(st, t)
    <3>0. sched_next_rr(PID, st)
      BY <2>1, <2>6 DEF schedule
    <3>1. /\ readyqueue' \in Seq(Task) /\ IsInjective(readyqueue')
          /\ state' \in [Task -> State] /\ current' \in Task
          /\ ticks_since_last_switch' = 0
          /\ ToIdle(st) \/ ToReady(PID, st)
      BY <1>0, <2>2, <3>0, SchedNext
    <3>2. ~ Requeue(PID, st)
      BY <1>c, <2>2 DEF Requeue
    <3>3. Live' = Live
      BY <2>1, <3>1, <3>2 DEF Live, ToIdle, ToReady
    <3>4. TypeOK'
      BY <1>0, <1>c, <2>1, <3>1, ProcessAssumption DEF TypeOK, Ticks
    <3>5. QueuesDisjoint'
      <4>1. CASE ToIdle(st)
        BY <1>0, <1>c, <2>1, <3>1, <4>1 DEF QueuesDisjoint, ToIdle
      <4>2. CASE ToReady(PID, st)
        BY <1>0, <1>c, <2>1, <3>1, <3>2, <4>2 DEF QueuesDisjoint, ToReady
      <4> QED BY <3>1, <4>1, <4>2
    <3>6. StateMatchesQueue'
      <4>1. CASE ToIdle(st)
        BY <1>0, <1>c, <2>1, <2>2, <2>4, <3>3, <4>1
           DEF QueuesDisjoint, StateMatchesQueue, ToIdle
      <4>2. CASE ToReady(PID, st)
        BY <1>0, <1>c, <2>1, <2>2, <2>4, <3>2, <3>3, <4>2
           DEF QueuesDisjoint, StateMatchesQueue, ToReady
      <4> QED BY <3>1, <4>1, <4>2
    <3>7. FamilyTree' /\ Pids'
      BY <1>0, <2>1, <3>3 DEF FamilyTree, Pids
    <3>8. IdleAlone'
      BY <1>0, <2>1, <3>1 DEF IdleAlone, QueuesDisjoint, ToIdle, ToReady
    <3> QED BY <2>3, <3>3, <3>4, <3>5, <3>6, <3>7, <3>8
            DEF ProcessInv
  <2> QED BY <2>5, <2>6
<1> QED BY <1>1, <1>2, <1>3

(* unblock preserves the invariant: a blocked son moves to the ready queue,*)
(* any other one remembers the wakeup.                                     *)
LEMMA UnblockInv ==
  ASSUME ProcessInv, NEW son \in Task, sys_unblock(son)
  PROVE  ProcessInv' /\ Live' = Live
<1> USE BootTasks
<1>0. TypeOK /\ QueuesDisjoint /\ StateMatchesQueue /\ FamilyTree /\ Pids
      /\ BlockedNoPending /\ IdleAlone
  BY DEF ProcessInv
<1>1. /\ UNCHANGED <<current, PID, parent, sons, freequeue,
                     ticks_since_last_switch, next_pid, fault>>
      /\ son \in sons[current] /\ current # idle_task
  BY DEF sys_unblock, UserRuns, IsSon
<1>2. son \in Live /\ parent[son] = current /\ current \in Live
  BY <1>0, <1>1 DEF FamilyTree, TypeOK, Live
<1>3. son # current /\ son # idle_task
  <2>1. current \in Task /\ PID[current] \in Int /\ parent[son] # NULL
    BY <1>0, <1>2 DEF TypeOK
  <2>2. PID[current] < PID[son]
    BY <1>0, <1>2, <2>1 DEF Pids
  <2>3. son # idle_task
    BY <2>1, PidZeroIsIdle
  <2> QED BY <2>1, <2>2, <2>3
<1>4. \A p \in Live : p \in Task
  BY <1>0, LiveFacts
<1>5. CASE state[son] = "BLOCKED"
  <2>1. /\ state' = [state EXCEPT ![son] = "READY"]
        /\ pending_unblocks' = [pending_unblocks EXCEPT ![son] = 0]
        /\ blocked' = blocked \ {son}
        /\ readyqueue' = Append(readyqueue, son)
    BY <1>5 DEF sys_unblock, list_add_tail
  <2>2. son \in blocked /\ son \notin Range(readyqueue)
    BY <1>0, <1>2, <1>5 DEF StateMatchesQueue
  <2>3. /\ readyqueue' \in Seq(Task) /\ IsInjective(readyqueue')
        /\ Range(readyqueue') = Range(readyqueue) \cup {son}
    BY <1>0, <2>1, <2>2, AppendLemma DEF TypeOK, QueuesDisjoint
  <2>4. Live' = Live
    BY <1>1, <2>1, <2>2, <2>3 DEF Live
  <2>5. TypeOK'
    BY <1>0, <1>1, <2>1, <2>3, ProcessAssumption DEF TypeOK, State
  <2>6. QueuesDisjoint'
    BY <1>0, <1>1, <1>3, <2>1, <2>2, <2>3 DEF QueuesDisjoint
  <2>7. StateMatchesQueue'
    BY <1>0, <1>1, <1>3, <1>4, <2>1, <2>2, <2>3, <2>4
       DEF StateMatchesQueue, TypeOK
  <2>8. FamilyTree' /\ Pids'
    BY <1>0, <1>1, <2>4 DEF FamilyTree, Pids
  <2>9. BlockedNoPending' /\ IdleAlone'
    BY <1>0, <1>1, <2>1 DEF BlockedNoPending, IdleAlone, TypeOK
  <2> QED BY <2>4, <2>5, <2>6, <2>7, <2>8, <2>9 DEF ProcessInv
<1>6. CASE state[son] # "BLOCKED"
  <2>1. /\ pending_unblocks[son] < MAX_PENDING
        /\ pending_unblocks' = [pending_unblocks EXCEPT ![son] = @ + 1]
        /\ UNCHANGED <<state, blocked, readyqueue>>
    BY <1>6 DEF sys_unblock
  <2>2. Live' = Live
    BY <1>1, <2>1 DEF Live
  <2>3. pending_unblocks' \in [Task -> 0 .. MAX_PENDING]
    BY <1>0, <2>1, ProcessAssumption DEF TypeOK
  <2>4. TypeOK'
    BY <1>0, <1>1, <2>1, <2>3 DEF TypeOK
  <2>5. BlockedNoPending'
    BY <1>0, <1>2, <1>6, <2>1 DEF BlockedNoPending, StateMatchesQueue, TypeOK
  <2> QED BY <1>0, <1>1, <2>1, <2>2, <2>4, <2>5 DEF ProcessInv,
        QueuesDisjoint, StateMatchesQueue, FamilyTree, Pids, IdleAlone
<1> QED BY <1>5, <1>6

(* fork preserves the invariant: the PCB it takes from the free queue was  *)
(* nobody's son, parent or neighbour.                                      *)
LEMMA ForkInv ==
  ASSUME ProcessInv, NEW mm \in BOOLEAN, sys_fork(mm)
  PROVE  /\ ProcessInv'
         /\ Live' = IF mm THEN Live \cup {Head(freequeue)} ELSE Live
         /\ Range(freequeue') = Range(freequeue) \ {Head(freequeue)}
         /\ Head(freequeue) \in Range(freequeue) \ Live
<1> USE BootTasks
<1> DEFINE child == Head(freequeue)
<1>0. TypeOK /\ QueuesDisjoint /\ StateMatchesQueue /\ FamilyTree /\ Pids
      /\ BlockedNoPending /\ IdleAlone
  BY DEF ProcessInv
<1>1. /\ freequeue # << >> /\ freequeue' = Tail(freequeue)
      /\ current # idle_task
      /\ UNCHANGED <<current, blocked, ticks_since_last_switch, fault>>
  BY DEF sys_fork, UserRuns
<1>2. /\ freequeue' \in Seq(Task) /\ IsInjective(freequeue')
      /\ child \in Task /\ child \in Range(freequeue)
      /\ Range(freequeue') \subseteq Range(freequeue)
      /\ child \notin Range(freequeue')
      /\ Range(freequeue) = Range(freequeue') \cup {child}
  BY <1>0, <1>1, TailLemma DEF TypeOK, QueuesDisjoint
<1>3. /\ child \notin Live /\ current \in Live /\ idle_task \in Live
      /\ current \in Task /\ child # current
      /\ \A p \in Live : p \in Task
  BY <1>0, <1>2, LiveFacts DEF Live, TypeOK
<1>4. CASE mm
  <2>1. /\ PID' = [PID EXCEPT ![child] = next_pid]
        /\ next_pid' = next_pid + 1
        /\ state' = [state EXCEPT ![child] = "READY"]
        /\ pending_unblocks' = [pending_unblocks EXCEPT ![child] = 0]
        /\ readyqueue' = Append(readyqueue, child)
        /\ parent' = [parent EXCEPT ![child] = current]
        /\ sons' = [sons EXCEPT ![child] = {},
                                ![current] = @ \cup {child}]
    BY <1>4 DEF sys_fork, list_add_tail, ChildPid
  <2> HIDE DEF child
  <2>2. /\ readyqueue' \in Seq(Task) /\ IsInjective(readyqueue')
        /\ Range(readyqueue') = Range(readyqueue) \cup {child}
        /\ child \notin Range(readyqueue) /\ child \notin blocked
    BY <1>0, <1>2, <1>3, <2>1, AppendLemma DEF TypeOK, QueuesDisjoint, Live
  <2>3. Live' = Live \cup {child}
    BY <1>1, <2>2 DEF Live
  <2>4. TypeOK'
    <3>1. PID' \in [Task -> Int] /\ next_pid' \in Nat
      BY <1>0, <1>2, <2>1 DEF TypeOK
    <3>2. state' \in [Task -> State]
      BY <1>0, <1>2, <2>1 DEF TypeOK, State
    <3>3. parent' \in [Task -> Task \cup {NULL}]
      BY <1>0, <1>2, <1>3, <2>1 DEF TypeOK
    <3>4. sons' \in [Task -> SUBSET Task]
      BY <1>0, <1>2, <1>3, <2>1 DEF TypeOK
    <3>5. pending_unblocks' \in [Task -> 0 .. MAX_PENDING]
      BY <1>0, <1>2, <2>1, ProcessAssumption DEF TypeOK
    <3> QED BY <1>0, <1>1, <1>2, <2>2, <3>1, <3>2, <3>3, <3>4, <3>5
            DEF TypeOK
  <2>5. QueuesDisjoint'
    BY <1>0, <1>1, <1>2, <1>3, <2>2 DEF QueuesDisjoint
  <2>6. StateMatchesQueue'
    BY <1>0, <1>1, <1>2, <1>3, <2>1, <2>2, <2>3
       DEF StateMatchesQueue, TypeOK
  <2>7. FamilyTree'
    <3>1. \A c \in Live : parent[c] # child
      BY <1>0, <1>2, <1>3 DEF FamilyTree
    <3>2. \A p \in Task : sons[p] = {c \in Live : parent[c] = p}
      BY <1>0 DEF FamilyTree
    <3>3. /\ parent'[child] = current
          /\ \A c \in Live : parent'[c] = parent[c]
          /\ \A p \in Task : sons'[p] = IF p = child THEN {}
                                        ELSE IF p = current
                                        THEN sons[p] \cup {child}
                                        ELSE sons[p]
      BY <1>0, <1>2, <1>3, <2>1 DEF TypeOK
    <3>4. ASSUME NEW p \in Task
          PROVE  sons'[p] = {c \in Live' : parent'[c] = p}
      <4>1. CASE p = child
        <5>1. \A c \in Live' : parent'[c] # p
          BY <1>3, <2>3, <3>1, <3>3, <4>1
        <5> QED BY <3>3, <4>1, <5>1
      <4>2. CASE p = current
        <5>1. sons'[p] = {c \in Live : parent[c] = p} \cup {child}
          BY <1>3, <3>2, <3>3, <4>2
        <5>2. \A c : c \in Live' /\ parent'[c] = p
                     <=> (c \in Live /\ parent[c] = p) \/ c = child
          BY <2>3, <3>3, <4>2
        <5> QED BY <5>1, <5>2
      <4>3. CASE p # child /\ p # current
        <5>1. sons'[p] = {c \in Live : parent[c] = p}
          BY <3>2, <3>3, <4>3
        <5>2. \A c : c \in Live' /\ parent'[c] = p
                     <=> c \in Live /\ parent[c] = p
          BY <2>3, <3>3, <4>3
        <5> QED BY <5>1, <5>2
      <4> QED BY <4>1, <4>2, <4>3
    <3>5. \A c \in Live' : parent'[c] \in Live' \cup {NULL}
      BY <1>0, <1>3, <2>3, <3>3 DEF FamilyTree
    <3> QED BY <3>4, <3>5 DEF FamilyTree
  <2>8. Pids'
    <3>1. /\ next_pid \in Nat /\ PID'[child] = next_pid
          /\ parent'[child] = current
          /\ \A p \in Live : /\ PID'[p] = PID[p] /\ PID[p] \in Int
                             /\ parent'[p] = parent[p]
                             /\ PID[p] \in 0 .. next_pid - 1
      BY <1>0, <1>2, <1>3, <2>1 DEF TypeOK, Pids
    <3>2. \A p, q \in Live' : PID'[p] = PID'[q] => p = q
      BY <1>0, <2>3, <3>1 DEF Pids
    <3>3. \A p \in Live' : PID'[p] \in 0 .. next_pid' - 1
      BY <2>1, <2>3, <3>1
    <3>4. ASSUME NEW p \in Live', parent'[p] # NULL
          PROVE  PID'[parent'[p]] < PID'[p]
      <4>1. CASE p = child
        BY <1>3, <3>1, <4>1
      <4>2. CASE p \in Live
        <5>1. parent[p] \in Live /\ PID[parent[p]] < PID[p]
          BY <1>0, <3>1, <3>4, <4>2 DEF FamilyTree, Pids
        <5> QED BY <3>1, <4>2, <5>1
      <4> QED BY <2>3, <4>1, <4>2
    <3> QED BY <3>2, <3>3, <3>4 DEF Pids
  <2>9. BlockedNoPending' /\ IdleAlone'
    BY <1>0, <1>1, <1>2, <1>3, <2>1, <2>2
       DEF BlockedNoPending, IdleAlone, TypeOK
  <2>10. ProcessInv'
    BY <2>4, <2>5, <2>6, <2>7, <2>8, <2>9 DEF ProcessInv
  <2> QED BY <1>2, <1>3, <1>4, <2>3, <2>10 DEF child
<1>5. CASE ~ mm
  <2>1. /\ PID' = [PID EXCEPT ![child] = PID[current]]
        /\ state' = [state EXCEPT ![child] = state[current]]
        /\ pending_unblocks' = [pending_unblocks EXCEPT
                                  ![child] = pending_unblocks[current]]
        /\ parent' = [parent EXCEPT ![child] = parent[current]]
        /\ UNCHANGED <<next_pid, readyqueue, sons>>
    BY <1>5 DEF sys_fork
  <2> HIDE DEF child
  <2>2. Live' = Live
    BY <1>1, <2>1 DEF Live
  <2>3. \A p \in Live : /\ PID'[p] = PID[p] /\ state'[p] = state[p]
                        /\ parent'[p] = parent[p]
                        /\ pending_unblocks'[p] = pending_unblocks[p]
    BY <1>0, <1>3, <2>1 DEF TypeOK
  <2>4. TypeOK'
    BY <1>0, <1>1, <1>2, <1>3, <2>1 DEF TypeOK
  <2>5. QueuesDisjoint'
    BY <1>0, <1>1, <1>2, <2>1 DEF QueuesDisjoint
  <2>6. StateMatchesQueue'
    BY <1>0, <1>1, <2>1, <2>2, <2>3 DEF StateMatchesQueue
  <2>7. FamilyTree'
    BY <1>0, <2>1, <2>2, <2>3 DEF FamilyTree
  <2>8. Pids'
    BY <1>0, <2>1, <2>2, <2>3 DEF FamilyTree, Pids
  <2>9. BlockedNoPending' /\ IdleAlone'
    BY <1>0, <1>1, <1>3, <2>1, <2>3 DEF BlockedNoPending, IdleAlone, Live
  <2>10. ProcessInv'
    BY <2>4, <2>5, <2>6, <2>7, <2>8, <2>9 DEF ProcessInv
  <2> QED BY <1>2, <1>3, <1>5, <2>2, <2>10 DEF child
<1> QED BY <1>4, <1>5

(* exit preserves the invariant: the caller leaves its siblings, its sons  *)
(* become idle's, and the CPU goes to a ready process or to idle.          *)
LEMMA ExitInv ==
  ASSUME ProcessInv, sys_exit
  PROVE  /\ ProcessInv'
         /\ \/ exit_fault # "none" /\ Live' = Live
            \/ /\ exit_fault = "none" /\ Live' = Live \ {current}
               /\ Range(freequeue') = Range(freequeue) \cup {current}
<1> USE BootTasks
<1>0. TypeOK /\ QueuesDisjoint /\ StateMatchesQueue /\ FamilyTree /\ Pids
      /\ BlockedNoPending /\ IdleAlone
  BY DEF ProcessInv
<1>c. /\ current \in Task /\ current # idle_task /\ current \in Live
      /\ idle_task \in Live
  BY <1>0 DEF sys_exit, UserRuns, TypeOK, Live
<1>1. CASE exit_fault # "none"
  <2>1. /\ fault' = exit_fault
        /\ UNCHANGED <<current, pcbVars, queueVars,
                       ticks_since_last_switch, next_pid>>
    BY <1>1 DEF sys_exit
  <2>2. exit_fault \in Fault
    BY DEF exit_fault, Fault
  <2> QED BY <1>1, <2>1, <2>2, FaultInv
<1>2. CASE exit_fault = "none"
  <2> DEFINE st == [state EXCEPT ![current] = "ZOMBIE"]
  <2>1. /\ PID' = [PID EXCEPT ![current] = -1]
        /\ parent' = [p \in Task |-> IF p \in victims THEN idle_task
                                     ELSE parent[p]]
        /\ sons' = exit_sons
        /\ freequeue' = Append(freequeue, current)
        /\ sched_next_rr(PID', st)
        /\ UNCHANGED <<pending_unblocks, blocked, next_pid, fault>>
    BY <1>2 DEF sys_exit, list_add_tail
  <2>2. victims \subseteq sons[current] /\ current \notin blocked
    BY <1>2 DEF exit_fault
  <2>3. /\ st \in [Task -> State]
        /\ \A p \in Task : st[p] = IF p = current THEN "ZOMBIE" ELSE state[p]
    BY <1>0, <1>c DEF TypeOK, State
  <2> HIDE DEF st
  <2>4. /\ readyqueue' \in Seq(Task) /\ IsInjective(readyqueue')
        /\ state' \in [Task -> State] /\ current' \in Task
        /\ ticks_since_last_switch' = 0
        /\ ToIdle(st) \/ ToReady(PID', st)
    BY <1>0, <2>1, <2>3, SchedNext
  <2>5. ~ Requeue(PID', st)
    BY <1>0, <1>c, <2>1 DEF Requeue, TypeOK
  <2>6. /\ freequeue' \in Seq(Task) /\ IsInjective(freequeue')
        /\ Range(freequeue') = Range(freequeue) \cup {current}
    BY <1>0, <1>c, <2>1, AppendLemma DEF TypeOK, QueuesDisjoint
  <2>7. Live' = Live \ {current}
    <3>1. current \notin Range(readyqueue) /\ current \notin blocked
      BY <1>0, <2>2 DEF QueuesDisjoint
    <3>2. CASE ToIdle(st)
      BY <1>c, <2>1, <3>1, <3>2 DEF Live, ToIdle
    <3>3. CASE ToReady(PID', st)
      BY <1>c, <2>1, <2>5, <3>1, <3>3 DEF Live, ToReady
    <3> QED BY <2>4, <3>2, <3>3
  <2>8. \A p \in Live : p \in Task
    BY <1>0, LiveFacts
  <2>9. /\ \A p \in Live : parent[p] = current <=> p \in victims
        /\ \A p \in victims : p \in Live /\ p # current /\ p # idle_task
    <3>1. \A p \in Live : parent[p] = current <=> p \in victims
      BY <2>8 DEF victims
    <3>2. ASSUME NEW p \in victims
          PROVE  p \in Live /\ p # current /\ p # idle_task
      <4>1. p \in Live /\ parent[p] = current /\ parent[p] # NULL
        BY <1>0, <1>c, <2>2 DEF FamilyTree, victims
      <4>2. PID[current] < PID[p] /\ PID[current] \in Int
        BY <1>0, <1>c, <4>1 DEF Pids, TypeOK
      <4>3. p # idle_task
        BY <4>1, PidZeroIsIdle
      <4> QED BY <4>1, <4>2, <4>3
    <3> QED BY <3>1, <3>2
  <2>10. TypeOK'
    <3>1. PID' \in [Task -> Int]
      BY <1>0, <1>c, <2>1 DEF TypeOK
    <3>2. parent' \in [Task -> Task \cup {NULL}]
      BY <1>0, <2>1 DEF TypeOK
    <3>3. sons' \in [Task -> SUBSET Task]
      <4>1. \A p \in Task : sons[p] \in SUBSET Task
        BY <1>0 DEF TypeOK
      <4>2. victims \subseteq Task
        BY DEF victims
      <4> QED BY <2>1, <4>1, <4>2 DEF exit_sons, SonsAfterExit
    <3> QED BY <1>0, <2>1, <2>4, <2>6, <3>1, <3>2, <3>3, ProcessAssumption
            DEF TypeOK, Ticks
  <2>11. QueuesDisjoint'
    <3>1. CASE ToIdle(st)
      BY <1>0, <1>c, <2>1, <2>2, <2>4, <2>6, <3>1 DEF QueuesDisjoint, ToIdle
    <3>2. CASE ToReady(PID', st)
      BY <1>0, <1>c, <2>1, <2>2, <2>4, <2>5, <2>6, <3>2
         DEF QueuesDisjoint, ToReady
    <3> QED BY <2>4, <3>1, <3>2
  <2>12. StateMatchesQueue'
    <3>1. CASE ToIdle(st)
      BY <1>0, <1>c, <2>1, <2>3, <2>7, <2>8, <3>1
         DEF QueuesDisjoint, StateMatchesQueue, ToIdle
    <3>2. CASE ToReady(PID', st)
      BY <1>0, <1>c, <2>1, <2>3, <2>5, <2>7, <2>8, <3>2
         DEF QueuesDisjoint, StateMatchesQueue, ToReady
    <3> QED BY <2>4, <3>1, <3>2
  <2>13. \A p \in Live : parent'[p] = IF p \in victims THEN idle_task
                                      ELSE parent[p]
    BY <2>1, <2>8
  <2>14. FamilyTree'
    <3>1. \A p \in Task : sons[p] = {c \in Live : parent[c] = p}
      BY <1>0 DEF FamilyTree
    <3>2. \A p \in Task : sons'[p] =
              IF p = current THEN {}
              ELSE (sons[p] \ {current}) \cup
                   (IF p = idle_task THEN victims ELSE {})
      BY <2>1 DEF exit_sons, SonsAfterExit
    <3>3. ASSUME NEW p \in Task
          PROVE  sons'[p] = {c \in Live' : parent'[c] = p}
      <4>1. CASE p = current
        <5>1. \A c \in Live' : parent'[c] # p
          BY <1>c, <2>7, <2>9, <2>13, <4>1
        <5> QED BY <3>2, <4>1, <5>1
      <4>2. CASE p = idle_task
        <5>1. \A c : c \in sons'[p] <=>
                 (c \in Live /\ parent[c] = p /\ c # current) \/ c \in victims
          BY <1>c, <3>1, <3>2, <4>2
        <5>2. \A c : c \in Live' /\ parent'[c] = p <=>
                 (c \in Live /\ parent[c] = p /\ c # current) \/ c \in victims
          BY <2>7, <2>9, <2>13, <4>2
        <5> QED BY <5>1, <5>2
      <4>3. CASE p # current /\ p # idle_task
        <5>1. \A c : c \in sons'[p] <=>
                       c \in Live /\ parent[c] = p /\ c # current
          BY <3>1, <3>2, <4>3
        <5>2. \A c : c \in Live' /\ parent'[c] = p <=>
                       c \in Live /\ parent[c] = p /\ c # current
          BY <2>7, <2>9, <2>13, <4>3
        <5> QED BY <5>1, <5>2
      <4> QED BY <4>1, <4>2, <4>3
    <3>4. \A c \in Live' : parent'[c] \in Live' \cup {NULL}
      BY <1>0, <1>c, <2>7, <2>9, <2>13 DEF FamilyTree
    <3> QED BY <3>3, <3>4 DEF FamilyTree
  <2>15. Pids'
    <3>1. \A p \in Live' : /\ p \in Live /\ p # current
                           /\ PID'[p] = PID[p] /\ PID[p] \in 0 .. next_pid - 1
      BY <1>0, <2>1, <2>7, <2>8 DEF TypeOK, Pids
    <3>2. \A p, q \in Live' : PID'[p] = PID'[q] => p = q
      BY <1>0, <3>1 DEF Pids
    <3>3. \A p \in Live' : PID'[p] \in 0 .. next_pid' - 1
      BY <2>1, <3>1
    <3>4. ASSUME NEW p \in Live', parent'[p] # NULL
          PROVE  PID'[parent'[p]] < PID'[p]
      <4>0. next_pid \in Nat /\ PID[p] \in Nat /\ PID'[p] = PID[p] /\ p \in Live
        BY <1>0, <3>1 DEF TypeOK
      <4>1. CASE p \in victims
        <5>1. PID[idle_task] = 0 /\ PID[p] # 0
          BY <1>0, <1>c, <2>9, <4>0, <4>1 DEF IdleAlone, Pids
        <5>2. parent'[p] = idle_task /\ idle_task \in Live'
          BY <1>c, <2>7, <2>13, <4>0, <4>1
        <5> QED BY <3>1, <4>0, <5>1, <5>2
      <4>2. CASE p \notin victims
        <5>1. parent'[p] = parent[p] /\ parent[p] # current
          BY <2>9, <2>13, <4>0, <4>2
        <5>2. parent[p] \in Live' /\ PID[parent[p]] < PID[p]
          BY <1>0, <2>7, <3>4, <4>0, <5>1 DEF FamilyTree, Pids
        <5> QED BY <3>1, <4>0, <5>1, <5>2
      <4> QED BY <4>1, <4>2
    <3> QED BY <3>2, <3>3, <3>4 DEF Pids
  <2>16. BlockedNoPending'
    BY <1>0, <2>1 DEF BlockedNoPending
  <2>17. IdleAlone'
    <3>1. PID'[idle_task] = 0
      BY <1>0, <1>c, <2>1 DEF IdleAlone, TypeOK
    <3> QED BY <1>0, <2>4, <3>1 DEF IdleAlone, QueuesDisjoint, ToIdle, ToReady
  <2>18. ProcessInv'
    BY <2>10, <2>11, <2>12, <2>14, <2>15, <2>16, <2>17 DEF ProcessInv
  <2> QED BY <1>2, <2>6, <2>7, <2>18
<1> QED BY <1>1, <1>2

(* Every step preserves the invariant, one action at a time.               *)
LEMMA NextInv == ProcessInv /\ [Next]_vars => ProcessInv'
<1> SUFFICES ASSUME ProcessInv, [Next]_vars PROVE ProcessInv'
  OBVIOUS
<1>1. CASE clk_routine
  BY <1>1, ClkInv
<1>2. ASSUME NEW mm \in MemoryOutcomes, sys_fork(mm) PROVE ProcessInv'
  BY <1>2, ForkInv, ProcessAssumption
<1>3. CASE UNCHANGED vars
  BY <1>3, FaultInv DEF vars, ProcessInv, TypeOK
<1>4. CASE sys_exit
  BY <1>4, ExitInv
<1>5. CASE sys_block
  BY <1>5, BlockInv
<1>6. ASSUME NEW son \in Task, sys_unblock(son) PROVE ProcessInv'
  BY <1>6, UnblockInv
<1>7. CASE sys_numbros
  BY <1>7, FaultInv DEF sys_numbros, Fault, ProcessInv, TypeOK
<1> QED BY <1>1, <1>2, <1>3, <1>4, <1>5, <1>6, <1>7
        DEF Next, sys_fork_no_pcb, pgf_spin

-----------------------------------------------------------------------------
(* The inductive invariant holds in every reachable state.                 *)
THEOREM Invariance == Spec => []ProcessInv
  BY InitInv, NextInv, PTL DEF Spec

(* Types: no PCB index, queue or counter leaves its range, whatever        *)
(* sequence of system calls and clock interrupts is made.                  *)
THEOREM TypeCorrect == Spec => []TypeOK
<1>1. ProcessInv => TypeOK
  BY DEF ProcessInv
<1> QED BY <1>1, Invariance, PTL

(* A PCB's `node' is in one queue at most, and once.                       *)
THEOREM QueuesAreDisjoint == Spec => []QueuesDisjoint
<1>1. ProcessInv => QueuesDisjoint
  BY DEF ProcessInv
<1> QED BY <1>1, Invariance, PTL

(* The state field and the queue of a live process agree.                  *)
THEOREM StatesMatchQueues == Spec => []StateMatchesQueue
<1>1. ProcessInv => StateMatchesQueue
  BY DEF ProcessInv
<1> QED BY <1>1, Invariance, PTL

(* The sons lists and the parent pointers of live processes agree.         *)
THEOREM FamilyIsATree == Spec => []FamilyTree
<1>1. ProcessInv => FamilyTree
  BY DEF ProcessInv
<1> QED BY <1>1, Invariance, PTL

(* PIDs identify live processes and grow from parent to child.             *)
THEOREM PidsAreUnique == Spec => []Pids
<1>1. ProcessInv => Pids
  BY DEF ProcessInv
<1> QED BY <1>1, Invariance, PTL

(* A blocked process has no unconsumed wakeup.                             *)
THEOREM NoLostWakeup == Spec => []BlockedNoPending
<1>1. ProcessInv => BlockedNoPending
  BY DEF ProcessInv
<1> QED BY <1>1, Invariance, PTL

(* numbros counts the other sons of the caller's parent: the ring it walks *)
(* is the sons list of that parent.                                        *)
THEOREM NumbrosIsRight == Spec => []NumbrosCountsSiblings
<1>1. ProcessInv => NumbrosCountsSiblings
  <2> SUFFICES ASSUME ProcessInv, siblings(current) # {}
               PROVE  numbros = Cardinality({c \in Live \ {current} :
                                              parent[c] = parent[current]})
    BY DEF NumbrosCountsSiblings
  <2> DEFINE bros == {c \in Live \ {current} : parent[c] = parent[current]}
  <2>1. TypeOK /\ QueuesDisjoint /\ FamilyTree
    BY DEF ProcessInv
  <2>2. PICK q \in Task : current \in sons[q]
    BY DEF siblings
  <2>3. \A r \in Task : current \in sons[r] <=> r = parent[current]
    BY <2>1, <2>2 DEF FamilyTree, Live
  <2>4. siblings(current) = sons[parent[current]] /\ parent[current] \in Task
    BY <2>2, <2>3 DEF siblings
  <2>5. siblings(current) \ {current} = bros
    BY <2>1, <2>4 DEF FamilyTree
  <2>6. IsFiniteSet(bros)
    <3>1. IsFiniteSet(Task)
      BY ProcessAssumption, FS_Interval DEF Task
    <3>2. bros \subseteq Task
      BY <2>1, LiveFacts
    <3> QED BY <3>1, <3>2, FS_Subset
  <2>7. Cardinality(bros) \in Nat
    BY <2>6, FS_CardinalityType
  <2> HIDE DEF bros
  <2>8. numbros = (Cardinality(bros) + 1) - 1
    BY <2>5 DEF numbros, list_size_bros
  <2>9. numbros = Cardinality(bros)
    BY <2>7, <2>8
  <2> QED BY <2>9 DEF bros
<1> QED BY <1>1, Invariance, PTL

(* A switch goes to idle or to a ready process, never to a blocked one.    *)
LEMMA SwitchNotBlocked ==
  ASSUME QueuesDisjoint, TypeOK, NEW pid, NEW st, sched_next_rr(pid, st)
  PROVE  current' \notin blocked \cup {current} \/ current' = idle_task
<1>1. CASE current' = idle_task
  BY <1>1
<1>2. CASE readyqueue # << >> /\ current' = Head(readyqueue)
  <2>1. Head(readyqueue) \in Range(readyqueue)
    BY <1>2, TailLemma DEF TypeOK, QueuesDisjoint
  <2> QED BY <1>2, <2>1 DEF QueuesDisjoint
<1> QED BY <1>1, <1>2 DEF sched_next_rr, IdleTime

(* A process keeps running after block only with an expired quantum: in    *)
(* every other case schedule switches to a process that is not blocked.    *)
THEOREM BlockedRunsOnlyExpired == Spec => []RunsBlockedOnlyExpired
<1>1. Init => RunsBlockedOnlyExpired
  BY DEF Init, RunsBlockedOnlyExpired
<1>2. ProcessInv /\ RunsBlockedOnlyExpired /\ [Next]_vars
        => RunsBlockedOnlyExpired'
  <2> SUFFICES ASSUME ProcessInv, RunsBlockedOnlyExpired, [Next]_vars
               PROVE  RunsBlockedOnlyExpired'
    OBVIOUS
  <2> USE ProcessAssumption
  <2>1. TypeOK /\ QueuesDisjoint /\ StateMatchesQueue
    BY DEF ProcessInv
  <2>2. CASE clk_routine
    <3> DEFINE t == IF ticks_since_last_switch > INIT_QUANTUM
                    THEN ticks_since_last_switch
                    ELSE ticks_since_last_switch + 1
    <3>1. CASE sched_next_rr(PID, state)
      BY <2>1, <2>2, <3>1, SwitchNotBlocked
         DEF clk_routine, QueuesDisjoint, RunsBlockedOnlyExpired, idle_task
    <3>2. CASE ticks_since_last_switch' = t /\ UNCHANGED current
      BY <2>1, <2>2, <3>2 DEF clk_routine, RunsBlockedOnlyExpired, TypeOK, Ticks
    <3> QED BY <2>2, <3>1, <3>2 DEF clk_routine, schedule
  <2>3. CASE sys_exit
    <3>1. CASE exit_fault # "none"
      BY <2>3, <3>1 DEF sys_exit, queueVars, RunsBlockedOnlyExpired
    <3>2. CASE exit_fault = "none"
      BY <2>1, <2>3, <3>2, SwitchNotBlocked
         DEF sys_exit, QueuesDisjoint, RunsBlockedOnlyExpired, idle_task
    <3> QED BY <3>1, <3>2
  <2>4. CASE sys_block
    <3>1. CASE UNCHANGED <<current, blocked, ticks_since_last_switch>>
      BY <3>1 DEF RunsBlockedOnlyExpired
    <3>2. CASE /\ blocked' = blocked \cup {current}
               /\ schedule([state EXCEPT ![current] = "BLOCKED"],
                           ticks_since_last_switch)
      <4> DEFINE st == [state EXCEPT ![current] = "BLOCKED"]
      <4>1. current # idle_task /\ PID[current] # 0
        BY <2>1, <2>4, PidZeroIsIdle DEF sys_block, UserRuns, ProcessInv, TypeOK, Live
      <4>2. CASE sched_next_rr(PID, st)
        BY <2>1, <3>2, <4>1, <4>2, SwitchNotBlocked
           DEF QueuesDisjoint, RunsBlockedOnlyExpired, idle_task
      <4>3. CASE ~ needs_sched_rr(st, ticks_since_last_switch)
        <5>1. st[current] = "BLOCKED"
          BY <2>1 DEF TypeOK
        <5>2. INIT_QUANTUM < ticks_since_last_switch
          BY <4>1, <4>3, <5>1 DEF needs_sched_rr
        <5>3. UNCHANGED ticks_since_last_switch
          BY <3>2, <4>3 DEF schedule
        <5> QED BY <2>1, <5>2, <5>3 DEF RunsBlockedOnlyExpired, TypeOK, Ticks
      <4> QED BY <3>2, <4>2, <4>3 DEF schedule
    <3> QED BY <2>4, <3>1, <3>2 DEF sys_block, queueVars
  <2>5. ASSUME NEW son \in Task, sys_unblock(son)
        PROVE  RunsBlockedOnlyExpired'
    BY <2>5 DEF sys_unblock, RunsBlockedOnlyExpired
  <2>6. ASSUME NEW mm \in MemoryOutcomes, sys_fork(mm)
        PROVE  RunsBlockedOnlyExpired'
    BY <2>6 DEF sys_fork, RunsBlockedOnlyExpired
  <2> QED BY <2>2, <2>3, <2>4, <2>5, <2>6 DEF Next, sys_fork_no_pcb,
          sys_numbros, pgf_spin, vars, queueVars, RunsBlockedOnlyExpired
<1> QED BY <1>1, <1>2, Invariance, PTL DEF Spec

(* Once idle runs, it runs for ever: the ready queue is empty, and idle    *)
(* makes no system call that could fill it.                                *)
THEOREM IdleRunsForever == Spec => IdleForever
<1>1. ProcessInv /\ [Next]_vars
        => [current = idle_task => current' = idle_task]_vars
  <2> SUFFICES ASSUME ProcessInv, Next, current = idle_task
               PROVE  current' = idle_task
    BY DEF vars
  <2>1. PID[current] = 0 /\ readyqueue = << >>
    BY DEF ProcessInv, IdleAlone
  <2>2. CASE clk_routine
    BY <2>1, <2>2 DEF clk_routine, schedule, needs_sched_rr
  <2>3. CASE pgf_spin
    BY <2>3 DEF pgf_spin, vars
  <2> QED BY <2>2, <2>3 DEF Next, sys_fork, sys_fork_no_pcb, sys_exit,
        sys_block, sys_unblock, sys_numbros, UserRuns
<1> QED BY <1>1, Invariance, PTL DEF Spec, IdleForever

(* A process that stops being live has exited and is in the free queue: a  *)
(* switch to idle never drops the process that was running.                *)
THEOREM NoProcessIsLost == Spec => NoProcessLost
<1>1. ProcessInv /\ [Next]_vars
        => [\A p \in Live \ Live' : p = current /\ p \in Range(freequeue')]_vars
  <2> SUFFICES ASSUME ProcessInv, Next, NEW p \in Live \ Live'
               PROVE  p = current /\ p \in Range(freequeue')
    OBVIOUS
  <2>1. CASE UNCHANGED vars
    BY <2>1 DEF vars, queueVars, Live
  <2>2. CASE clk_routine
    BY <2>2, ClkInv
  <2>3. ASSUME NEW mm \in MemoryOutcomes, sys_fork(mm) PROVE FALSE
    BY <2>3, ForkInv, ProcessAssumption
  <2>4. CASE sys_exit
    BY <2>4, ExitInv
  <2>5. CASE sys_block
    BY <2>5, BlockInv
  <2>6. ASSUME NEW son \in Task, sys_unblock(son) PROVE FALSE
    BY <2>6, UnblockInv
  <2>7. CASE sys_numbros
    BY <2>7 DEF sys_numbros, queueVars, Live
  <2> QED BY <2>1, <2>2, <2>3, <2>4, <2>5, <2>6, <2>7
          DEF Next, sys_fork_no_pcb, pgf_spin
<1> QED BY <1>1, Invariance, PTL DEF Spec, NoProcessLost

(* Only a process's parent takes it out of the blocked queue.              *)
THEOREM OnlyTheParentUnblocks == Spec => OnlyParentUnblocks
<1>1. ProcessInv /\ [Next]_vars
        => [\A p \in blocked \ blocked' : parent[p] = current]_vars
  <2> SUFFICES ASSUME ProcessInv, Next, NEW p \in blocked \ blocked'
               PROVE  parent[p] = current
    OBVIOUS
  <2>1. ASSUME NEW son \in Task, sys_unblock(son) PROVE parent[p] = current
    <3>1. blocked \ blocked' \subseteq {son} /\ son \in sons[current]
      BY <2>1 DEF sys_unblock, IsSon
    <3> QED BY <3>1 DEF ProcessInv, FamilyTree, TypeOK
  <2>2. CASE sys_block
    BY <2>2 DEF sys_block, queueVars
  <2>3. CASE sys_exit
    BY <2>3 DEF sys_exit, queueVars
  <2>4. ASSUME NEW mm \in MemoryOutcomes, sys_fork(mm) PROVE FALSE
    BY <2>4 DEF sys_fork
  <2> QED BY <2>1, <2>2, <2>3, <2>4 DEF Next, clk_routine, sys_fork_no_pcb,
          sys_numbros, pgf_spin, vars, queueVars
<1> QED BY <1>1, Invariance, PTL DEF Spec, OnlyParentUnblocks

=============================================================================
