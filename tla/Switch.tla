------------------------------- MODULE Switch -------------------------------
(***************************************************************************)
(* Several processes on the processor of Syscall: task_switch and          *)
(* switch_stacks (kernel_misc.S), inner_task_switch (sched.c), the stacks  *)
(* that init_idle and sys_fork prepare for processes that have never run,  *)
(* and the three ways into a switch: the clock, block and exit.  Which     *)
(* process comes next is the scheduler's choice (Process); here it is any. *)
(*                                                                         *)
(* The variables of Syscall are those of the running process; task holds   *)
(* what memory keeps of the others.  Registers are not kept: a process     *)
(* gets back only what was pushed on its kernel stack.                     *)
(*                                                                         *)
(* PopsSwapped and MsrNotSet are plausible bugs: each is a wrong form of   *)
(* the definition that follows it.                                         *)
(***************************************************************************)
EXTENDS Syscall

CONSTANT NR_TASKS

ASSUME SwitchAssumption == NR_TASKS \in Nat /\ NR_TASKS >= 2

Proc  == 0 .. NR_TASKS - 1
idle  == 0
task1 == 1

VARIABLES
    current,          \* the process whose stack esp points into
    task,             \* process -> what is kept of it
    tss, msr, cr3,    \* processes whose stack and directory they point to
    kept              \* did the last task_switch to return keep registers?

swvars  == <<current, task, tss, msr, cr3, kept>>
allvars == <<vars, swvars>>

(* Return addresses.                                                       *)
AFTER_INNER   == 501      \* in task_switch, after the call
IN_KERNEL     == 502      \* in the C function that called task_switch
CLK_HANDLER   == 503      \* in clk_handler, after the call
SYS_HANDLER   == 504      \* in sys_call_handler_sysenter, after the call
ret_from_fork == 505
cpu_idle      == 506

Saved == {"ebx", "esi", "edi", "ebp"}
Keep(r) == [x \in Saved |-> r[x]]

Free    == [state |-> "free"]
Running == [state |-> "running"]

(* What is kept of a process: its stacks, kernel_esp0, the memory of the   *)
(* program, and (for the properties) the registers it had when it called   *)
(* task_switch.                                                            *)
Kept(k, h, was) ==
    [state |-> "kept", kstk |-> k, kernel_esp0 |-> Len(k), ustk |-> ustk,
     errno |-> errno, routine |-> routine, history |-> h, was |-> was]

(* init_idle: the stack from which switch_stacks will return to cpu_idle.  *)
(* init_task1 runs without a switch.                                       *)
SwitchInit ==
    /\ Init
    /\ current = task1
    /\ task = [p \in Proc |->
                 IF p = task1 THEN Running
                 ELSE IF p = idle THEN Kept(<<cpu_idle, 0>>, NoCall, Keep(regs))
                 ELSE Free]
    /\ tss = task1 /\ msr = task1 /\ cr3 = task1
    /\ kept = TRUE

-----------------------------------------------------------------------------
(* The C functions between the handler and task_switch: they save the      *)
(* registers that belong to their caller and use them.                     *)
KernelFrame(handler, r) == <<handler, r.ebp, r.ebx, r.esi, r.edi>>
KernelPops    == <<"edi", "esi", "ebx", "ebp">>
KernelRegs(p) == [x \in Reg |-> CASE x = "ebx" -> 610 + p [] x = "esi" -> 620 + p
                                   [] x = "edi" -> 630 + p [] x = "ebp" -> 640 + p
                                   [] OTHER -> Junk]

(* task_switch(new) up to the call of inner_task_switch, and the ebp that  *)
(* inner_task_switch pushes: there switch_stacks leaves kernel_esp0.       *)
SwitchFrame(r) ==
    <<IN_KERNEL, r.ebp, r.esi, r.edi, r.ebx, Junk, AFTER_INNER, 0>>

(* From AFTER_INNER to the end of task_switch: the parameter, new, goes to *)
(* ebx first.                                                              *)
PopsSwapped     == <<"ebx", "ebx", "esi", "edi", "ebp">>
TaskSwitchPops  == <<"ebx", "ebx", "edi", "esi", "ebp">>

(* The stack of the process that gives the processor away.                 *)
Leaving(k, handler) ==
    k \o KernelFrame(handler, regs) \o SwitchFrame(KernelRegs(current))

-----------------------------------------------------------------------------
(* Where an interrupt finds a process.                                     *)
Address == [user |-> 410, sysenter |-> 411, returned |-> 412, idle |-> 413]
PlaceOf(eip) == CHOOSE x \in DOMAIN Address : Address[x] = eip

MsrNotSet(q) == msr
MsrOf(q)     == q

(* inner_task_switch and switch_stacks with q as the new process, and how  *)
(* q goes on: out of task_switch, to the end of its system call or of the  *)
(* clock interrupt; or for the first time.                                 *)
enter(q) ==
    LET t   == task[q]
        s   == SubSeq(t.kstk, 1, t.kernel_esp0)
        ret == s[Len(s) - 1]                 \* after popl %ebp
        s1  == Drop(s, 2)
        r1  == PopInto(KernelRegs(current), s1, TaskSwitchPops)
        s2  == Drop(s1, 6)                   \* back in C
        r2  == PopInto(r1, s2, KernelPops)
        s3  == Drop(s2, 5)                   \* back in the handler
        to  == s2[Len(s2) - 4]
        r3  == RESTORE_ALL(s3)
        s4  == Drop(s3, 7)
    IN  /\ current' = q /\ tss' = q /\ msr' = MsrOf(q) /\ cr3' = q
        /\ ustk' = t.ustk /\ errno' = t.errno /\ routine' = t.routine
        /\ \/ /\ ret = AFTER_INNER /\ to = SYS_HANDLER
              /\ kstk' = s3
              /\ regs' = [r2 EXCEPT !.eax = 0]
              /\ pc' = "sysexit"
              /\ history' = t.history
              /\ kept' = (Keep(r1) = t.was)
           \/ /\ ret = AFTER_INNER /\ to = CLK_HANDLER
              /\ kstk' = Drop(s4, 2)
              /\ regs' = r3
              /\ pc' = PlaceOf(Last(s4))
              /\ history' = t.history
              /\ kept' = (Keep(r1) = t.was)
           \/ /\ ret = ret_from_fork
              /\ kstk' = Front(s1)
              /\ regs' = [KernelRegs(current) EXCEPT !.eax = 0, !.ebp = Last(s)]
              /\ pc' = "sysexit"
              /\ history' = t.history
              /\ UNCHANGED kept
           \/ /\ ret = cpu_idle
              /\ kstk' = s1
              /\ regs' = [x \in Reg |-> Junk]        \* it uses none
              /\ pc' = "idle"
              /\ history' = NoCall
              /\ UNCHANGED kept

Ready(q) == q # current /\ task[q].state = "kept"

(* clk_handler, when schedule finds that q is to run.  In user mode the    *)
(* processor takes the stack from the TSS; idle is interrupted in its own. *)
clk_switch(q) ==
    /\ pc \in DOMAIN Address
    /\ Ready(q)
    /\ LET old == IF pc = "idle" THEN kstk ELSE <<>>
           k   == old \o <<Len(ustk), Address[pc]>> \o SAVE_ALL(regs)
       IN  task' = [task EXCEPT
                      ![current] = Kept(Leaving(k, CLK_HANDLER), history,
                                        Keep(KernelRegs(current))),
                      ![q] = Running]
    /\ enter(q)

sys_block(q) ==
    /\ pc = "routine" /\ routine = "block"
    /\ Ready(q)
    /\ task' = [task EXCEPT
                  ![current] = Kept(Leaving(kstk, SYS_HANDLER), history,
                                    Keep(KernelRegs(current))),
                  ![q] = Running]
    /\ enter(q)

sys_exit(q) ==
    /\ pc = "routine" /\ routine = "exit"
    /\ Ready(q)
    /\ task' = [task EXCEPT ![current] = Free, ![q] = Running]
    /\ enter(q)

(* The child gets a copy of the parent's stack, in which the return        *)
(* address of the call of sys_fork stays and what lies below it makes      *)
(* switch_stacks return to ret_from_fork.                                  *)
ChildStack(k) == k \o <<SYS_HANDLER, ret_from_fork, 0>>

sys_fork(c) ==
    /\ pc = "routine" /\ routine = "fork"
    /\ task[c].state = "free"
    /\ task' = [task EXCEPT ![c] = Kept(ChildStack(kstk),
                                        [history EXCEPT !.result = 0], Keep(regs))]
    /\ regs' = [regs EXCEPT !.eax = c, !.ecx = Junk, !.edx = Junk]
    /\ pc' = "sysexit"
    /\ history' = [history EXCEPT !.result = c]
    /\ UNCHANGED <<ustk, kstk, errno, routine, current, tss, msr, cr3, kept>>

(* cpu_idle until the next interrupt.                                      *)
idles == pc = "idle" /\ UNCHANGED allvars

SwitchNext ==
    \/ Step /\ UNCHANGED swvars
    \/ \E q \in Proc : clk_switch(q) \/ sys_block(q) \/ sys_exit(q)
    \/ \E c \in Proc \ {idle} : sys_fork(c)
    \/ idles

SwitchSpec == SwitchInit /\ [][SwitchNext]_allvars

-----------------------------------------------------------------------------
(* task_switch is to its caller a function like any other: when a process  *)
(* comes back from it, ebx, esi, edi and ebp are what they were, although  *)
(* other processes have used them and switch_stacks skips the end of       *)
(* inner_task_switch.                                                      *)
TaskSwitchKeeps == kept

(* The processor enters the kernel on the stack of the process that runs,  *)
(* through interrupts and sysenter alike, and translates with its          *)
(* directory; in user mode that stack is empty.                            *)
StacksAreCurrents ==
    /\ tss = current /\ msr = current /\ cr3 = current
    /\ pc \in {"user", "sysenter", "returned", "idle"} => kstk = <<>>

(* After a switch the whole machine belongs to the new process: what it    *)
(* left in its registers and the stacks and directory that the processor   *)
(* will use next.                                                          *)
SwitchComplete == TaskSwitchKeeps /\ StacksAreCurrents
=============================================================================
