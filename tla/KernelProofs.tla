---------------------------- MODULE KernelProofs ----------------------------
(***************************************************************************)
(* Processes and memory agree for every number of PCBs, pages and frames.  *)
(* The invariants of ProcessProofs and MemoryProofs hold of the two parts  *)
(* of the composition, because each of its steps is a step of one or of    *)
(* both; what relates the parts is PcbsAgree.                              *)
(***************************************************************************)
EXTENDS Kernel, TLAPS

PP == INSTANCE ProcessProofs
MP == INSTANCE MemoryProofs WITH NR_TASKS <- NR_TASKS - 1

LEMMA Assumptions == PP!ProcessAssumption /\ MP!MemoryAssumption
<1>1. PP!ProcessAssumption
  BY KernelAssumption DEF P!ProcessAssumption, PP!ProcessAssumption
<1>2. M!AnyPage = MP!AnyPage
  BY Zenon DEF M!AnyPage, MP!AnyPage
<1>3. MP!MemoryAssumption
  BY <1>2, KernelAssumption DEF M!MemoryAssumption, MP!MemoryAssumption,
     M!USER_LAST_PAGE, MP!USER_LAST_PAGE, M!USER_FIRST_PAGE,
     MP!USER_FIRST_PAGE, M!FrameNo, MP!FrameNo
<1> QED BY <1>1, <1>3

(* The components of Kernel are those of the two proof modules.            *)
LEMMA SameProcess ==
  /\ P!Init => PP!Init
  /\ P!Task = PP!Task /\ P!Live = PP!Live /\ P!Live' = PP!Live'
  /\ P!UserRuns => current # PP!idle_task
  /\ P!clk_routine => PP!clk_routine
  /\ \A mm : P!sys_fork(mm) => PP!sys_fork(mm)
  /\ P!sys_exit => PP!sys_exit
  /\ P!sys_block => PP!sys_block
  /\ \A son : P!sys_unblock(son) => PP!sys_unblock(son)
  /\ P!sys_numbros => PP!sys_numbros
<1> USE DEF P!Task, PP!Task, P!idle_task, PP!idle_task, P!Running, PP!Running,
        P!UserRuns, PP!UserRuns, P!pcbVars, PP!pcbVars, P!queueVars, PP!queueVars,
        P!list_add_tail, PP!list_add_tail
<1>1. P!Init => PP!Init
  BY DEF P!Init, PP!Init, P!task1_task, PP!task1_task, P!NULL, PP!NULL
<1>2. P!Task = PP!Task /\ P!Live = PP!Live /\ P!Live' = PP!Live'
  BY DEF P!Live, PP!Live, P!Range, PP!Range
<1>3. P!UserRuns => current # PP!idle_task
  OBVIOUS
<1>4. \A pid, st : P!sched_next_rr(pid, st) => PP!sched_next_rr(pid, st)
  BY DEF P!sched_next_rr, PP!sched_next_rr, P!IdleTime, PP!IdleTime,
         P!Requeue, PP!Requeue
<1>5. \A st, t : P!schedule(st, t) => PP!schedule(st, t)
  BY <1>4 DEF P!schedule, PP!schedule, P!needs_sched_rr, PP!needs_sched_rr
<1>6. P!clk_routine => PP!clk_routine
  BY <1>5 DEF P!clk_routine, PP!clk_routine
<1>7. \A mm : P!sys_fork(mm) => PP!sys_fork(mm)
  BY DEF P!sys_fork, PP!sys_fork, P!ChildPid, PP!ChildPid
<1>8. P!sys_exit => PP!sys_exit
  <2>1. /\ P!exit_fault = PP!exit_fault /\ P!exit_sons = PP!exit_sons
        /\ P!victims = PP!victims
    BY DEF P!Range, PP!Range, P!exit_fault, PP!exit_fault, P!exit_sons, PP!exit_sons,
           P!SonsAfterExit, PP!SonsAfterExit, P!victims, PP!victims
  <2> QED BY <1>4, <2>1 DEF P!sys_exit, PP!sys_exit
<1>9. P!sys_block => PP!sys_block
  BY <1>5 DEF P!sys_block, PP!sys_block, P!MustWait, PP!MustWait
<1>10. \A son : P!sys_unblock(son) => PP!sys_unblock(son)
  BY DEF P!sys_unblock, PP!sys_unblock, P!IsSon, PP!IsSon
<1>11. P!sys_numbros => PP!sys_numbros
  BY DEF P!sys_numbros, PP!sys_numbros, P!siblings, PP!siblings
<1> QED BY <1>1, <1>2, <1>3, <1>6, <1>7, <1>8, <1>9, <1>10, <1>11

LEMMA SamePages ==
  /\ M!Task = MP!Task /\ M!Frame = MP!Frame /\ M!UserPage = MP!UserPage
  /\ M!DataPage = MP!DataPage /\ M!CodePage = MP!CodePage
  /\ M!HighPage = MP!HighPage /\ M!ShmId = MP!ShmId /\ M!NoEntry = MP!NoEntry
  /\ M!FreeFrames = MP!FreeFrames
  /\ \A p : M!FreePages(p) = MP!FreePages(p)
  /\ \A p : M!Runs(p) <=> MP!Runs(p)
  /\ \A S : M!Min(S) = MP!Min(S)
  /\ \A S, n : M!Nth(S, n) = MP!Nth(S, n)
  /\ \A f : M!is_frame_shared(f) = MP!is_frame_shared(f)
<1> USE DEF M!Task, MP!Task, M!Frame, MP!Frame, M!UserPage, MP!UserPage,
        M!DataPage, MP!DataPage, M!CodePage, MP!CodePage, M!HighPage,
        MP!HighPage, M!ShmId, MP!ShmId, M!USER_FIRST_PAGE,
        MP!USER_FIRST_PAGE, M!USER_LAST_PAGE, MP!USER_LAST_PAGE, M!NoEntry,
        MP!NoEntry
<1>1. /\ M!Task = MP!Task /\ M!Frame = MP!Frame /\ M!UserPage = MP!UserPage
      /\ M!DataPage = MP!DataPage /\ M!CodePage = MP!CodePage
      /\ M!HighPage = MP!HighPage /\ M!ShmId = MP!ShmId /\ M!NoEntry = MP!NoEntry
  OBVIOUS
<1>2. M!FreeFrames = MP!FreeFrames
  BY DEF M!FreeFrames, MP!FreeFrames
<1>3. \A p : M!FreePages(p) = MP!FreePages(p)
  BY DEF M!FreePages, MP!FreePages
<1>4. \A p : M!Runs(p) <=> MP!Runs(p)
  BY DEF M!Runs, MP!Runs
<1>5. \A S : M!Min(S) = MP!Min(S)
  BY DEF M!Min, MP!Min
<1>6. \A S, n : M!Nth(S, n) = MP!Nth(S, n)
  BY DEF M!Nth, MP!Nth, M!Cardinality, MP!Cardinality
<1>7. \A f : M!is_frame_shared(f) = MP!is_frame_shared(f)
  BY DEF M!is_frame_shared, MP!is_frame_shared, M!Min, MP!Min
<1> QED BY <1>1, <1>2, <1>3, <1>4, <1>5, <1>6, <1>7

LEMMA SameEntries ==
  ASSUME NEW p, NEW n
  PROVE  /\ M!TableOf(p, n) = MP!TableOf(p, n) /\ M!PageOf(n) = MP!PageOf(n)
         /\ M!InTable(p, n) <=> MP!InTable(p, n)
         /\ M!EntryAt(p, n) = MP!EntryAt(p, n)
         /\ M!Behind(p, n) <=> MP!Behind(p, n)
         /\ M!MayBeFree(p, n) <=> MP!MayBeFree(p, n)
         /\ M!MayBeUsed(p, n) <=> MP!MayBeUsed(p, n)
         /\ M!is_cow_page(p, n) <=> MP!is_cow_page(p, n)
         /\ M!PH_PAGE(n) = MP!PH_PAGE(n)
<1>1. M!TableOf(p, n) = MP!TableOf(p, n) /\ M!PageOf(n) = MP!PageOf(n)
  BY DEF M!TableOf, MP!TableOf, M!PageOf, MP!PageOf
<1>2. /\ M!InTable(p, n) <=> MP!InTable(p, n)
      /\ M!EntryAt(p, n) = MP!EntryAt(p, n)
      /\ M!Behind(p, n) <=> MP!Behind(p, n)
  BY <1>1, SamePages DEF M!InTable, MP!InTable, M!EntryAt, MP!EntryAt,
     M!Behind, MP!Behind
<1>3. M!MayBeFree(p, n) <=> MP!MayBeFree(p, n)
  BY <1>1, <1>2, SamePages DEF M!MayBeFree, MP!MayBeFree
<1>4. M!MayBeUsed(p, n) <=> MP!MayBeUsed(p, n)
  BY <1>1, <1>2, SamePages DEF M!MayBeUsed, MP!MayBeUsed
<1>5. M!is_cow_page(p, n) <=> MP!is_cow_page(p, n)
  BY <1>2, SamePages DEF M!is_cow_page, MP!is_cow_page
<1>6. M!PH_PAGE(n) = MP!PH_PAGE(n)
  BY Zenon DEF M!PH_PAGE, MP!PH_PAGE
<1> QED BY <1>1, <1>2, <1>3, <1>4, <1>5, <1>6

LEMMA SameMemory ==
  /\ M!Init => MP!Init
  /\ M!FrameRefs <=> MP!FrameRefs
  /\ \A p, c : M!sys_fork(p, c) => MP!sys_fork(p, c)
  /\ \A p : M!sys_exit(p) => MP!sys_exit(p)
  /\ MemoryOnly => MP!UserStep(current)
<1>1. M!Init => MP!Init
  BY DEF M!Init, MP!Init, M!task1, MP!task1, M!FrameNo, MP!FrameNo, M!Task,
     MP!Task, M!Frame, MP!Frame, M!UserPage, MP!UserPage, M!DataPage,
     MP!DataPage, M!CodePage, MP!CodePage, M!HighPage, MP!HighPage, M!ShmId,
     MP!ShmId, M!USER_FIRST_PAGE, MP!USER_FIRST_PAGE, M!USER_LAST_PAGE,
     MP!USER_LAST_PAGE, M!NoEntry, MP!NoEntry
<1>2. M!FrameRefs <=> MP!FrameRefs
  BY SamePages DEF M!FrameRefs, MP!FrameRefs, M!Entries, MP!Entries,
     M!FrameNo, MP!FrameNo, M!Cardinality, MP!Cardinality
<1>3. ASSUME NEW p PROVE M!SharedOf(p) = MP!SharedOf(p)
  BY SamePages DEF M!SharedOf, MP!SharedOf
<1>4. ASSUME NEW p, NEW n PROVE M!AddRefs(p, n) = MP!AddRefs(p, n)
  BY DEF M!AddRefs, MP!AddRefs, M!Cardinality, MP!Cardinality, M!SharedOf,
     MP!SharedOf, M!is_frame_shared, MP!is_frame_shared, M!Min, MP!Min,
     M!HighPage, MP!HighPage, M!ShmId, MP!ShmId, M!NoEntry, MP!NoEntry,
     M!USER_FIRST_PAGE, MP!USER_FIRST_PAGE, M!USER_LAST_PAGE,
     MP!USER_LAST_PAGE
<1>5. ASSUME NEW p, NEW c, NEW data, NEW copied
      PROVE  M!ChildTable(p, c, data, copied) = MP!ChildTable(p, c, data, copied)
  BY SamePages DEF M!ChildTable, MP!ChildTable
<1>6. ASSUME NEW n
      PROVE M!NewFrame(n) = MP!NewFrame(n) /\ M!NewEntry(n) = MP!NewEntry(n)
  BY SamePages DEF M!NewFrame, MP!NewFrame, M!NewEntry, MP!NewEntry
<1>7. ASSUME NEW p
      PROVE M!NewPages(p) = MP!NewPages(p) /\ M!NewFrames = MP!NewFrames
  BY SamePages DEF M!NewPages, MP!NewPages, M!NewFrames, MP!NewFrames,
     M!Cardinality, MP!Cardinality
<1>8. ASSUME NEW p, NEW n PROVE M!TempMapped(p, n) = MP!TempMapped(p, n)
  BY <1>6, SamePages DEF M!TempMapped, MP!TempMapped
<1>9. ASSUME NEW p, NEW c, M!fork_cow(p, c) PROVE MP!fork_cow(p, c)
  <2>1. M!ParentReadOnly(p) = MP!ParentReadOnly(p)
    BY SamePages DEF M!ParentReadOnly, MP!ParentReadOnly, M!ReadOnly,
       MP!ReadOnly
  <2>2. [g \in M!DataPage |-> M!ReadOnly(pt[p][g])]
          = [g \in MP!DataPage |-> MP!ReadOnly(pt[p][g])]
    BY SamePages DEF M!ReadOnly, MP!ReadOnly
  <2>3. \A f : M!Cardinality({g \in M!DataPage : pt[p][g].frame = f})
          = MP!Cardinality({g \in MP!DataPage : pt[p][g].frame = f})
    BY SamePages DEF M!Cardinality, MP!Cardinality
  <2> QED BY <1>3, <1>4, <1>5, <1>9, <2>1, <2>2, <2>3, SamePages
          DEF M!fork_cow, MP!fork_cow
<1>10. ASSUME NEW p, NEW c, M!fork_copy(p, c) PROVE MP!fork_copy(p, c)
  BY <1>3, <1>4, <1>5, <1>6, <1>7, <1>10, SamePages DEF M!fork_copy,
     MP!fork_copy, M!TempDeleted, MP!TempDeleted, M!DataNo, MP!DataNo,
     M!CopiedPage, MP!CopiedPage, M!USER_FIRST_PAGE, MP!USER_FIRST_PAGE
<1>11. ASSUME NEW p, NEW c, M!fork_no_page(p, c) PROVE MP!fork_no_page(p, c)
  BY <1>5, <1>6, <1>7, <1>8, <1>11, SamePages DEF M!fork_no_page,
     MP!fork_no_page, M!DataNo, MP!DataNo, M!USER_FIRST_PAGE,
     MP!USER_FIRST_PAGE
<1>12. ASSUME NEW p, NEW c, M!fork_no_frame(p, c) PROVE MP!fork_no_frame(p, c)
  BY <1>5, <1>7, <1>8, <1>12, SamePages DEF M!fork_no_frame, MP!fork_no_frame
<1>13. ASSUME NEW p, NEW c, M!sys_fork(p, c) PROVE MP!sys_fork(p, c)
  BY <1>9, <1>10, <1>11, <1>12, <1>13, SamePages DEF M!sys_fork, MP!sys_fork
<1>14. ASSUME NEW p, M!sys_exit(p) PROVE MP!sys_exit(p)
  BY <1>4, <1>14, SamePages DEF M!sys_exit, MP!sys_exit,
     M!free_user_pages_mem, MP!free_user_pages_mem, M!free_user_pages_pt,
     MP!free_user_pages_pt, M!free_frames, MP!free_frames, M!Cardinality,
     MP!Cardinality
<1>15. ASSUME NEW p, NEW id, NEW addr, M!sys_shmat(p, id, addr)
       PROVE MP!sys_shmat(p, id, addr)
  BY <1>15, SamePages, SameEntries DEF M!sys_shmat, MP!sys_shmat, M!Attached,
     MP!Attached
<1>16. ASSUME NEW p, NEW addr, M!sys_shmdt(p, addr) PROVE MP!sys_shmdt(p, addr)
  <2>1. ASSUME NEW t, NEW page, M!shmdt_ok(t, page) /\ M!shmdt_entry(p, t, page)
        PROVE  MP!shmdt_ok(t, page) /\ MP!shmdt_entry(p, t, page)
    BY <2>1, SamePages DEF M!shmdt_ok, MP!shmdt_ok, M!shmdt_entry,
       MP!shmdt_entry, M!RefsLess, MP!RefsLess
  <2> QED BY <1>16, <2>1, SamePages, SameEntries DEF M!sys_shmdt, MP!sys_shmdt
<1>17. ASSUME NEW p, NEW id, M!sys_shmrm(p, id) PROVE MP!sys_shmrm(p, id)
  BY <1>17, SamePages DEF M!sys_shmrm, MP!sys_shmrm
<1>18. ASSUME NEW p, NEW page, NEW v, M!user_write(p, page, v)
       PROVE MP!user_write(p, page, v)
  BY <1>18, SamePages DEF M!user_write, MP!user_write
<1>19. ASSUME NEW p, NEW page, NEW v, M!copy_to_user(p, page, v)
       PROVE MP!copy_to_user(p, page, v)
  BY <1>19, SamePages DEF M!copy_to_user, MP!copy_to_user
<1>20. ASSUME NEW p, NEW addr, M!pgf_routine(p, addr)
       PROVE MP!pgf_routine(p, addr)
  <2>1. ASSUME NEW n, M!pgf_entry(p, n) PROVE MP!pgf_entry(p, n)
    BY <2>1, SamePages, SameEntries DEF M!pgf_entry, MP!pgf_entry,
       M!RefMoved, MP!RefMoved
  <2> QED BY <1>20, <2>1, SamePages, SameEntries DEF M!pgf_routine,
          MP!pgf_routine
<1>21. MemoryOnly => MP!UserStep(current)
  BY <1>15, <1>16, <1>17, <1>18, <1>19, <1>20, SamePages
     DEF MemoryOnly, MP!UserStep
<1> QED BY <1>1, <1>2, <1>13, <1>14, <1>21

-----------------------------------------------------------------------------
(* The inductive invariant.                                                *)
KInv == PP!ProcessInv /\ MP!IInv /\ PcbsAgree

(* PcbsAgree in the terms of the two proof modules.                        *)
Agree ==
    \A p \in MP!Task :
        /\ pcb[p] = "free"  <=> p \in PP!Range(freequeue)
        /\ pcb[p] = "alive" <=> p \in PP!Live

LEMMA AgreeIs == (PcbsAgree <=> Agree) /\ (PcbsAgree' <=> Agree')
<1>1. \A q : Range(q) = PP!Range(q)
  BY DEF Range, PP!Range
<1> QED BY <1>1, SamePages, SameProcess DEF PcbsAgree, Agree

(* Memory knows every PCB but idle's.                                      *)
LEMMA Tasks ==
  /\ MP!Task = PP!Task \ {PP!idle_task}
  /\ PP!idle_task \in PP!Task
  BY Assumptions DEF MP!Task, PP!Task, PP!idle_task, PP!ProcessAssumption

LEMMA InitInv == Init => KInv
<1> SUFFICES ASSUME Init PROVE KInv
  OBVIOUS
<1>1. PP!Init /\ MP!Init
  BY SameProcess, SameMemory DEF Init
<1>2. PP!ProcessInv /\ MP!IInv
  BY <1>1, Assumptions, PP!InitInv, MP!InitInv
<1>3. PP!Live = {PP!idle_task, PP!task1_task}
  <2>1. PP!Range(<< >>) = {}
    BY DEF PP!Range
  <2> QED BY <1>1, <2>1 DEF PP!Init, PP!Live
<1>4. \A p : p \in PP!Range(freequeue) <=> p \in 0 .. NR_TASKS - 3
  <2>1. NR_TASKS \in Nat /\ NR_TASKS >= 2
    BY Assumptions DEF PP!ProcessAssumption
  <2>2. /\ freequeue = [n \in 1 .. NR_TASKS - 2 |-> NR_TASKS - 2 - n]
        /\ DOMAIN freequeue = 1 .. NR_TASKS - 2
    BY <1>1 DEF PP!Init
  <2>3. ASSUME NEW p \in 0 .. NR_TASKS - 3 PROVE p \in PP!Range(freequeue)
    <3>1. /\ NR_TASKS - 2 - p \in 1 .. NR_TASKS - 2
          /\ NR_TASKS - 2 - (NR_TASKS - 2 - p) = p
      BY <2>1
    <3>2. freequeue[NR_TASKS - 2 - p] = p
      BY <2>2, <3>1
    <3> QED BY <2>2, <3>1, <3>2 DEF PP!Range
  <2>4. ASSUME NEW p \in PP!Range(freequeue) PROVE p \in 0 .. NR_TASKS - 3
    BY <2>1, <2>2 DEF PP!Range
  <2> QED BY <2>3, <2>4
<1>5. Agree
  <2> SUFFICES ASSUME NEW p \in MP!Task
               PROVE  /\ pcb[p] = "free"  <=> p \in PP!Range(freequeue)
                      /\ pcb[p] = "alive" <=> p \in PP!Live
    BY DEF Agree
  <2>1. NR_TASKS \in Nat /\ NR_TASKS >= 2
    BY Assumptions DEF PP!ProcessAssumption
  <2>2. pcb[p] = IF p = NR_TASKS - 2 THEN "alive" ELSE "free"
    BY <1>1, <2>1 DEF MP!Init, MP!task1
  <2>3. p \in 0 .. NR_TASKS - 2
    BY <2>1 DEF MP!Task
  <2> QED BY <1>3, <1>4, <2>1, <2>2, <2>3 DEF PP!idle_task, PP!task1_task
<1> QED BY <1>2, <1>5, AgreeIs DEF KInv

(* The running process, unless it is idle, is one that has memory.         *)
LEMMA RunningTask ==
  ASSUME KInv, P!UserRuns
  PROVE  current \in MP!Task /\ pcb[current] = "alive"
<1>1. current \in PP!Task /\ current # PP!idle_task /\ current \in PP!Live
  BY SameProcess DEF KInv, PP!ProcessInv, PP!TypeOK, PP!Live
<1> QED BY <1>1, Tasks, AgreeIs DEF KInv, Agree

(* fork.                                                                   *)
LEMMA ForkStep ==
  ASSUME KInv, sys_fork
  PROVE  KInv' /\ MP!OthersKept(current)
<1> DEFINE child == Head(freequeue)
           mm == pcb'[child] = "alive"
<1>1. /\ P!UserRuns /\ MP!sys_fork(current, child)
      /\ PP!sys_fork(mm) /\ mm \in BOOLEAN
  BY SameProcess, SameMemory DEF sys_fork
<1>2. current \in MP!Task
  BY <1>1, RunningTask
<1>3. /\ PP!ProcessInv'
      /\ PP!Live' = IF mm THEN PP!Live \cup {child} ELSE PP!Live
      /\ PP!Range(freequeue') = PP!Range(freequeue) \ {child}
      /\ child \in PP!Range(freequeue) \ PP!Live
  <2>1. PP!ProcessInv /\ PP!ProcessAssumption
    BY Assumptions DEF KInv
  <2>2. child = Head(freequeue)
    OBVIOUS
  <2> HIDE DEF mm, child
  <2> QED BY <1>1, <2>1, <2>2, PP!ForkInv
<1>4. child \in MP!Task
  <2>1. PP!Range(freequeue) \subseteq PP!Task /\ PP!idle_task \in PP!Live
    BY Assumptions, PP!LiveFacts DEF KInv, PP!ProcessInv, PP!Live
  <2> QED BY <1>3, <2>1, Tasks
<1>5. MP!IInv'
  BY <1>1, <1>2, <1>4, Assumptions, MP!Step DEF KInv, MP!Next
<1>6. pcb' \in {[pcb EXCEPT ![child] = "alive"], [pcb EXCEPT ![child] = "leaked"]}
  BY <1>1 DEF MP!sys_fork, MP!fork_cow, MP!fork_copy, MP!fork_no_page,
     MP!fork_no_frame
<1>7. Agree /\ pcb \in [MP!Task -> {"free", "alive", "leaked"}]
  BY AgreeIs DEF KInv, MP!IInv, MP!Types
<1> HIDE DEF child
<1>8. Agree'
  <2> SUFFICES ASSUME NEW p \in MP!Task
               PROVE  /\ pcb'[p] = "free"  <=> p \in PP!Range(freequeue')
                      /\ pcb'[p] = "alive" <=> p \in PP!Live'
    BY DEF Agree
  <2>1. CASE p # child
    <3>1. pcb'[p] = pcb[p]
      BY <1>6, <1>7, <2>1
    <3> QED BY <1>3, <1>7, <2>1, <3>1 DEF Agree
  <2>2. CASE p = child
    <3>1. pcb'[p] \in {"alive", "leaked"}
      BY <1>4, <1>6, <1>7, <2>2
    <3> QED BY <1>3, <2>2, <3>1
  <2> QED BY <2>1, <2>2
<1>9. MP!OthersKept(current)
  BY <1>1, <1>2, <1>4, Assumptions, MP!ForkOwn DEF KInv
<1> QED BY <1>3, <1>5, <1>8, <1>9, AgreeIs DEF KInv

LEMMA MemorySame ==
  ASSUME UNCHANGED memVars
  PROVE  /\ KInv => MP!IInv'
         /\ MP!OthersKept(current)
<1>1. UNCHANGED MP!vars
  BY DEF memVars, MP!vars
<1>2. KInv => MP!IInv'
  BY <1>1, Assumptions, MP!Step DEF KInv
<1>3. MP!OthersKept(current)
  BY DEF memVars, MP!OthersKept, MP!Alive, MP!DataOf
<1> QED BY <1>2, <1>3

(* exit.                                                                   *)
LEMMA ExitStep ==
  ASSUME KInv, sys_exit
  PROVE  KInv' /\ MP!OthersKept(current)
<1>1. /\ PP!sys_exit
      /\ \/ fault' = "none" /\ MP!sys_exit(current)
         \/ fault' # "none" /\ UNCHANGED memVars
  BY SameProcess, SameMemory DEF sys_exit
<1>2. current \in MP!Task /\ fault = "none"
  BY RunningTask DEF sys_exit, P!sys_exit, P!UserRuns, P!Running
<1>3. /\ PP!ProcessInv'
      /\ \/ PP!exit_fault # "none" /\ PP!Live' = PP!Live
         \/ /\ PP!exit_fault = "none" /\ PP!Live' = PP!Live \ {current}
            /\ PP!Range(freequeue') = PP!Range(freequeue) \cup {current}
  BY <1>1, Assumptions, PP!ExitInv DEF KInv
<1>4. Agree /\ pcb \in [MP!Task -> {"free", "alive", "leaked"}]
  BY AgreeIs DEF KInv, MP!IInv, MP!Types
<1>5. CASE PP!exit_fault # "none"
  <2>1. fault' = PP!exit_fault /\ freequeue' = freequeue
    BY <1>1, <1>5 DEF PP!sys_exit, PP!queueVars
  <2>2. UNCHANGED memVars
    BY <1>1, <1>5, <2>1
  <2>3. Agree'
    BY <1>3, <1>4, <1>5, <2>1, <2>2 DEF Agree, memVars
  <2> QED BY <1>3, <2>2, <2>3, AgreeIs, MemorySame DEF KInv
<1>6. CASE PP!exit_fault = "none"
  <2>1. fault' = "none"
    BY <1>1, <1>2, <1>6 DEF PP!sys_exit
  <2>2. MP!sys_exit(current) /\ pcb' = [pcb EXCEPT ![current] = "free"]
    BY <1>1, <2>1 DEF MP!sys_exit
  <2>3. MP!IInv' /\ MP!OthersKept(current)
    BY <1>2, <2>2, Assumptions, MP!Step, MP!ExitOwn DEF KInv, MP!Next
  <2>4. Agree'
    <3> SUFFICES ASSUME NEW p \in MP!Task
                 PROVE  /\ pcb'[p] = "free"  <=> p \in PP!Range(freequeue')
                        /\ pcb'[p] = "alive" <=> p \in PP!Live'
      BY DEF Agree
    <3>1. pcb'[p] = IF p = current THEN "free" ELSE pcb[p]
      BY <1>4, <2>2
    <3> QED BY <1>3, <1>4, <1>6, <3>1 DEF Agree
  <2> QED BY <1>3, <2>3, <2>4, AgreeIs DEF KInv
<1> QED BY <1>5, <1>6

(* The other handlers of Process keep every process and the free queue.    *)
LEMMA ProcessStep ==
  ASSUME KInv, ProcessOnly
  PROVE  KInv' /\ MP!OthersKept(current)
<1>0. PP!ProcessInv /\ PP!ProcessAssumption
  BY Assumptions DEF KInv
<1>1. UNCHANGED memVars
  BY DEF ProcessOnly
<1>2. PP!ProcessInv' /\ PP!Live' = PP!Live /\ freequeue' = freequeue
  <2>1. CASE P!clk_routine
    BY <1>0, <2>1, SameProcess, PP!ClkInv DEF PP!clk_routine
  <2>2. CASE P!sys_fork_no_pcb
    <3>1. /\ UNCHANGED <<current, PP!pcbVars, PP!queueVars,
                         ticks_since_last_switch, next_pid>>
          /\ fault' = fault
      BY <2>2 DEF P!sys_fork_no_pcb, P!vars, P!pcbVars, P!queueVars,
         PP!pcbVars, PP!queueVars
    <3> QED BY <1>0, <3>1, PP!FaultInv DEF PP!ProcessInv, PP!TypeOK, PP!queueVars
  <2>3. CASE P!sys_block
    <3>1. freequeue' = freequeue
      BY <2>3, SameProcess DEF PP!sys_block, PP!queueVars
    <3> QED BY <1>0, <2>3, <3>1, SameProcess, PP!BlockInv
  <2>4. ASSUME NEW son \in P!Task, P!sys_unblock(son)
        PROVE  PP!ProcessInv' /\ PP!Live' = PP!Live /\ freequeue' = freequeue
    <3>1. son \in PP!Task /\ PP!sys_unblock(son)
      BY <2>4, SameProcess
    <3> QED BY <1>0, <3>1, PP!UnblockInv DEF PP!sys_unblock
  <2>5. CASE P!sys_numbros
    <3>1. /\ UNCHANGED <<current, PP!pcbVars, PP!queueVars,
                         ticks_since_last_switch, next_pid>>
          /\ fault' \in {fault, "numbros_null_bros"}
      BY <2>5, SameProcess DEF PP!sys_numbros
    <3>2. fault' \in PP!Fault
      BY <1>0, <3>1 DEF PP!ProcessInv, PP!TypeOK, PP!Fault
    <3> QED BY <1>0, <3>1, <3>2, PP!FaultInv DEF PP!queueVars
  <2> QED BY <2>1, <2>2, <2>3, <2>4, <2>5 DEF ProcessOnly
<1>3. Agree'
  BY <1>1, <1>2, AgreeIs DEF KInv, Agree, memVars
<1> QED BY <1>1, <1>2, <1>3, AgreeIs, MemorySame DEF KInv

(* Steps that leave the processes alone.                                   *)
LEMMA ProcessSame ==
  ASSUME KInv, UNCHANGED procVars, pcb' = pcb
  PROVE  PP!ProcessInv' /\ Agree'
<1>1. /\ UNCHANGED <<current, PP!pcbVars, PP!queueVars,
                     ticks_since_last_switch, next_pid>>
      /\ fault' = fault /\ freequeue' = freequeue
  BY DEF procVars, PP!pcbVars, PP!queueVars
<1>2. PP!ProcessInv' /\ PP!Live' = PP!Live
  BY <1>1, Assumptions, PP!FaultInv DEF KInv, PP!ProcessInv, PP!TypeOK
<1> QED BY <1>1, <1>2, AgreeIs DEF KInv, Agree

LEMMA MemoryStep ==
  ASSUME KInv, MemoryOnly
  PROVE  KInv'
<1>1. MP!UserStep(current) /\ UNCHANGED procVars /\ P!UserRuns
  BY SameMemory DEF MemoryOnly
<1>2. current \in MP!Task
  BY <1>1, RunningTask
<1>3. MP!Next /\ pcb' = pcb
  <2>1. MP!Next
    BY <1>1, <1>2 DEF MP!UserStep, MP!Next
  <2>2. pcb' = pcb
    BY <1>1 DEF MP!UserStep, MP!sys_shmat, MP!sys_shmdt, MP!sys_shmrm,
       MP!user_write, MP!copy_to_user, MP!pgf_routine
  <2> QED BY <2>1, <2>2
<1>4. MP!IInv'
  BY <1>3, Assumptions, MP!Step DEF KInv
<1> QED BY <1>1, <1>3, <1>4, AgreeIs, ProcessSame DEF KInv

LEMMA Step == KInv /\ [Next]_vars => KInv'
<1> SUFFICES ASSUME KInv, [Next]_vars PROVE KInv'
  OBVIOUS
<1>1. CASE UNCHANGED vars
  <2>1. UNCHANGED procVars /\ UNCHANGED memVars /\ pcb' = pcb
    BY <1>1 DEF vars, memVars
  <2> QED BY <2>1, AgreeIs, ProcessSame, MemorySame DEF KInv
<1> QED BY <1>1, ForkStep, ExitStep, ProcessStep, MemoryStep DEF Next, spin

LEMMA Invariant == Spec => []KInv
  BY InitInv, Step, PTL DEF Spec

(* The scheduler never runs a process without memory, fork never takes a   *)
(* PCB whose memory is in use, and exit gives back both at once.           *)
THEOREM PcbsAlwaysAgree == Spec => []PcbsAgree
<1>1. KInv => PcbsAgree
  BY DEF KInv
<1> QED BY <1>1, Invariant, PTL

(* Frames are counted right under the scheduler too.                       *)
THEOREM FramesAlwaysCounted == Spec => []FramesCounted
<1>1. KInv => FramesCounted
  BY SameMemory DEF KInv, MP!IInv, MP!DataInv, FramesCounted
<1> QED BY <1>1, Invariant, PTL

(* A process whose pages above the code are free or shared is not stray.   *)
LEMMA StrayIs ==
  ASSUME KInv, NEW p \in MP!Task
  PROVE  Stray(p) <=> \E g \in MP!HighPage : /\ pt[p][g] # MP!NoEntry
                                             /\ pt[p][g].frame \notin MP!SharedFrame
<1>1. \A id \in MP!ShmId : shared_pages[id].frame = MP!FrameNo(id + 1)
  BY DEF KInv, MP!IInv, MP!HighInv, MP!SharedKept
<1>2. \A f : f \in MP!SharedFrame <=>
               \E id \in MP!ShmId : f = shared_pages[id].frame
  <2>0. NUM_SHARED_PAGES \in Nat
    BY Assumptions DEF MP!MemoryAssumption
  <2>1. ASSUME NEW n \in 1 .. NUM_SHARED_PAGES
        PROVE  \E id \in MP!ShmId : MP!FrameNo(n) = shared_pages[id].frame
    <3>1. n - 1 \in MP!ShmId /\ n - 1 + 1 = n
      BY <2>0 DEF MP!ShmId
    <3> QED BY <1>1, <3>1
  <2>2. \A id \in MP!ShmId : id + 1 \in 1 .. NUM_SHARED_PAGES
    BY <2>0 DEF MP!ShmId
  <2> QED BY <1>1, <2>1, <2>2 DEF MP!SharedFrame
<1> QED BY <1>2, SamePages DEF Stray

(* Only a failed fork leaves a temporary page in a table.                  *)
THEOREM TempMapsAlwaysRemoved == Spec => []TempMapsRemoved
<1>1. ASSUME KInv PROVE TempMapsRemoved
  <2> SUFFICES ASSUME NEW p \in MP!Task, Stray(p)
               PROVE  \E q \in MP!Task : pcb[q] = "leaked"
    BY SamePages DEF TempMapsRemoved
  <2>1. ~ MP!HighShared
    BY <1>1, StrayIs DEF MP!HighShared
  <2>2. ~ MP!NoLeak
    BY <1>1, <2>1 DEF KInv, MP!IInv, MP!Separate
  <2> QED BY <2>2 DEF MP!NoLeak
<1> QED BY <1>1, Invariant, PTL

(* Separate memory spaces under the scheduler: whatever the schedule and   *)
(* the failed forks, a step changes no data page of a process that is not  *)
(* running, and a new process starts with its parent's.  With copy on      *)
(* write this needs that read, which ignores read-only entries, is not     *)
(* called.                                                                 *)
THEOREM OnlyOwnMemoryChanges ==
  ASSUME ~ USE_COW \/ ~ CallsRead
  PROVE  Spec => OnlyOwnMemory
<1> DEFINE Own == \A p \in M!Alive' \ {current} :
              \/ p \in M!Alive /\ Memory(p)' = Memory(p)
              \/ p \notin M!Alive /\ Memory(p)' = Memory(current)
              \/ Stray(current)
<1>1. ASSUME KInv, [Next]_vars PROVE [Own]_vars
  <2>1. M!Alive = MP!Alive /\ M!Alive' = MP!Alive'
    BY SamePages DEF M!Alive, MP!Alive
  <2>2. \A p : Memory(p) = MP!DataOf(p) /\ Memory(p)' = MP!DataOf(p)'
    BY SamePages DEF Memory, MP!DataOf
  <2>3. MP!OthersKept(current) => Own
    BY <2>1, <2>2 DEF MP!OthersKept
  <2>4. CASE UNCHANGED vars
    BY <2>4
  <2>5. CASE MemoryOnly
    <3>1. MP!UserStep(current) /\ current \in MP!Task
      BY <1>1, <2>5, RunningTask, SameMemory DEF MemoryOnly
    <3>2. CASE Stray(current)
      BY <3>2
    <3>3. CASE ~ Stray(current)
      <4>1. \A g \in MP!HighPage : \/ pt[current][g] = MP!NoEntry
                                   \/ pt[current][g].frame \in MP!SharedFrame
        BY <1>1, <3>1, <3>3, StrayIs
      <4> QED BY <1>1, <2>3, <3>1, <4>1, Assumptions, MP!UserOwn DEF KInv
    <3> QED BY <3>2, <3>3
  <2>6. CASE sys_fork \/ sys_exit \/ ProcessOnly
    BY <1>1, <2>3, <2>6, ForkStep, ExitStep, ProcessStep
  <2> QED BY <1>1, <2>4, <2>5, <2>6 DEF Next, spin
<1> QED BY <1>1, Invariant, PTL DEF Spec, OnlyOwnMemory
=============================================================================
