------------------------------ MODULE Syscall -------------------------------
(***************************************************************************)
(* How a system call travels: the wrappers of user_misc.S, the sysenter    *)
(* handler, SAVE_ALL and RESTORE_ALL of entry.S, sys_call_table.S, and     *)
(* back through the epilogue that all wrappers share.  This is the view of *)
(* the process that has the processor: its registers, user stack and       *)
(* kernel stack.  What a routine does is the business of the other         *)
(* modules; here it returns some value.  Interrupts come while the process *)
(* is in user mode, since the kernel runs with them disabled.  Switch adds *)
(* the other processes, and the routines that change to one of them.       *)
(*                                                                         *)
(* A stack is a sequence whose last element is its top, and an address in  *)
(* it is an index.  Segment registers and flags are left out.  A value     *)
(* that nobody chose is Junk.                                              *)
(*                                                                         *)
(* TableOffByOne, EaxNotSaved (the end of interrupt is signalled, through  *)
(* al, before SAVE_ALL) and EdiFirst are plausible bugs: each is a wrong   *)
(* form of the definition that follows it.                                 *)
(***************************************************************************)
EXTENDS Integers, SequencesExt

CONSTANTS
    RawCalls,        \* numbers that programs load in eax themselves
    Loads,           \* what programs load in their registers: a number
    Results          \* what routines return: errors, zero and others

ASSUME SyscallAssumption == RawCalls \subseteq Int /\ Results \subseteq Int
                            /\ 0 \in Loads /\ Loads \subseteq 0 .. 9

Reg    == {"eax", "ebx", "ecx", "edx", "esi", "edi", "ebp"}
Junk   == 999
ENOSYS == 40

(* The wrappers: number of the call and of its arguments.                  *)
Wrapper ==
    [write   |-> <<4, 3>>,  gettime |-> <<10, 0>>, getpid    |-> <<20, 0>>,
     fork    |-> <<2, 0>>,  exit    |-> <<1, 0>>,  block     |-> <<18, 0>>,
     unblock |-> <<19, 1>>, numsons |-> <<21, 0>>, numbros   |-> <<22, 0>>,
     read    |-> <<3, 2>>,  gotoxy  |-> <<11, 2>>, set_color |-> <<12, 2>>,
     shmat   |-> <<15, 2>>, shmdt   |-> <<16, 1>>, shmrm     |-> <<17, 1>>]

(* The routines in the order of the table, which starts at 0.              *)
ni == "ni_syscall"
table ==
    <<ni, "exit", "fork", "read", "write", ni, ni, ni, ni, ni, "gettime",
      "gotoxy", "set_color", ni, ni, "shmat", "shmdt", "shmrm", "block",
      "unblock", "getpid", "numsons", "numbros">>
MAX_SYSCALL == Len(table)

TableOffByOne(n)  == table[IF n = 0 THEN 1 ELSE n]
sys_call_table(n) == table[n + 1]

VARIABLES
    pc,        \* "user", "sysenter", "routine", "sysexit", "returned",
               \* "wild"
    regs, ustk, kstk, errno,
    routine,   \* that the handler has called
    history    \* what the program did and had before the call

vars == <<pc, regs, ustk, kstk, errno, routine, history>>

(* Values of the registers while the program runs, and the arguments that  *)
(* it pushes for a call, the first one last.                               *)
UserRegs(v) == [eax |-> Junk, ebx |-> 210 + v, ecx |-> Junk, edx |-> Junk,
                esi |-> 220 + v, edi |-> 230 + v, ebp |-> 240 + v]
Args     == <<301, 302, 303>>
RETURN   == 401                   \* address after the call of the wrapper
sysenter_return == 402

NoCall == [call |-> "none", errno |-> 0, result |-> 0, regs |-> UserRegs(0)]

Init ==
    /\ pc = "user" /\ regs = UserRegs(0)
    /\ ustk = <<>> /\ kstk = <<>>
    /\ errno = 0 /\ routine = ni
    /\ history = NoCall

-----------------------------------------------------------------------------
(* The registers after popping the listed ones in order.                   *)
PopInto(r, s, order) ==
    [x \in Reg |->
        LET last == {i \in DOMAIN order : order[i] = x}
        IN  IF last = {} THEN r[x]
            ELSE s[Len(s) + 1 - (CHOOSE i \in last : \A j \in last : j <= i)]]

Drop(s, n) == SubSeq(s, 1, Len(s) - n)

EaxNotSaved(r) == <<Junk, r.ebp, r.edi, r.esi, r.ebx, r.ecx, r.edx>>
SAVE_ALL(r)    == <<r.eax, r.ebp, r.edi, r.esi, r.ebx, r.ecx, r.edx>>

EdiFirst        == <<"edx", "ecx", "ebx", "edi", "esi", "ebp", "eax">>
RestoreOrder    == <<"edx", "ecx", "ebx", "esi", "edi", "ebp", "eax">>
RESTORE_ALL(s)  == PopInto(UserRegs(0), s, RestoreOrder)

(* 0x18(%esp), where SAVE_ALL has put eax.                                 *)
EaxSlot(s) == Len(s) - 6

-----------------------------------------------------------------------------
(* A wrapper up to its sysenter: the arguments go to edx, ecx and ebx, and *)
(* the address where sysexit is to return is left above ebp.               *)
user_call(w) ==
    LET nr == Wrapper[w][1]
        n  == Wrapper[w][2]
        s1 == <<Args[3], Args[2], Args[1], RETURN, regs.ebp>>
        fp == Len(s1)
        s2 == s1 \o <<regs.ebx, regs.esi, regs.edi>>
        r  == [regs EXCEPT !.eax = nr,
                           !.edx = IF n >= 1 THEN s1[fp - 2] ELSE @,
                           !.ecx = IF n >= 2 THEN s1[fp - 3] ELSE @,
                           !.ebx = IF n >= 3 THEN s1[fp - 4] ELSE @]
        s3 == s2 \o <<r.ecx, r.edx, sysenter_return, fp>>
    IN  /\ pc = "user"
        /\ ustk' = s3
        /\ regs' = [r EXCEPT !.ebp = Len(s3)]
        /\ pc' = "sysenter"
        /\ history' = [call |-> w, errno |-> errno, result |-> 0, regs |-> regs]
        /\ UNCHANGED <<kstk, errno, routine>>

(* A program that does the same with a number of its own.                  *)
raw_call(nr) ==
    LET s == <<Args[3], Args[2], Args[1], RETURN, regs.ebp,
               regs.ebx, regs.esi, regs.edi,
               regs.ecx, regs.edx, sysenter_return, 5>>
    IN  /\ pc = "user"
        /\ ustk' = s
        /\ regs' = [regs EXCEPT !.eax = nr, !.ebp = Len(s)]
        /\ pc' = "sysenter"
        /\ history' = [call |-> "raw", errno |-> errno, result |-> 0, regs |-> regs]
        /\ UNCHANGED <<kstk, errno, routine>>

(* kbd_handler, clk_handler: the code they call may leave anything in eax, *)
(* ecx and edx.                                                            *)
interrupt ==
    /\ pc \in {"user", "sysenter", "returned"}
    /\ regs' = RESTORE_ALL(SAVE_ALL(regs))
    /\ UNCHANGED <<pc, ustk, kstk, errno, routine, history>>

-----------------------------------------------------------------------------
(* The handler builds the context that sysenter does not save, checks eax  *)
(* and calls the routine, or whatever is in memory after the table.        *)
sys_call_handler_sysenter ==
    LET nr    == regs.eax
        frame == <<regs.ebp, ustk[regs.ebp - 1]>> \o SAVE_ALL(regs)
    IN  /\ pc = "sysenter"
        /\ kstk' = frame
        /\ \/ /\ nr < 0 \/ nr > MAX_SYSCALL
              /\ regs' = [regs EXCEPT !.eax = - ENOSYS]
              /\ pc' = "sysexit"
              /\ history' = [history EXCEPT !.result = - ENOSYS]
              /\ UNCHANGED routine
           \/ /\ nr \in 0 .. MAX_SYSCALL - 1
              /\ routine' = sys_call_table(nr)
              /\ pc' = "routine"
              /\ UNCHANGED <<regs, history>>
           \/ /\ nr = MAX_SYSCALL
              /\ pc' = "wild"
              /\ UNCHANGED <<regs, routine, history>>
        /\ UNCHANGED <<ustk, errno>>

(* What a routine leaves in eax.  exit does not return, and neither does a *)
(* fork that succeeds or a block that blocks: see Switch.                  *)
ResultsOf(r) ==
    CASE r = ni      -> {-38}
      [] r = "exit"  -> {}
      [] r = "fork"  -> {n \in Results : n < 0}
      [] r = "block" -> {0}
      [] OTHER       -> Results

routine_returns(res) ==
    /\ pc = "routine"
    /\ res \in ResultsOf(routine)
    /\ regs' = [x \in Reg |-> IF x = "eax" THEN res
                              ELSE IF x \in {"ecx", "edx"} THEN Junk
                              ELSE regs[x]]
    /\ pc' = "sysexit"
    /\ history' = [history EXCEPT !.result = res]
    /\ UNCHANGED <<ustk, kstk, errno, routine>>

(* eax goes to its slot, RESTORE_ALL, and sysexit takes the return address *)
(* from edx and the user stack from ecx.  From sysenter_return on:         *)
sysenter_return_code ==
    LET saved == [kstk EXCEPT ![EaxSlot(kstk)] = regs.eax]
        r     == RESTORE_ALL(saved)
        rest  == Drop(saved, Len(SAVE_ALL(r)))
        esp   == rest[1]
        s     == SubSeq(ustk, 1, esp)
        r1    == PopInto(r, s, <<"ebp", "edx", "edx", "ecx",
                                "edi", "esi", "ebx">>)
        s1    == Drop(s, 7)
        ok    == r.eax >= 0
    IN  /\ pc = "sysexit"
        /\ Last(rest) = sysenter_return
        /\ errno' = IF ok THEN errno ELSE - r.eax
        /\ regs' = [r1 EXCEPT !.eax = IF ok THEN r.eax ELSE -1,
                              !.ebp = Last(s1)]
        /\ ustk' = Front(s1)
        /\ kstk' = <<>>
        /\ pc' = "returned"
        /\ UNCHANGED <<routine, history>>

(* ret; the program drops its arguments, uses the result and goes on with  *)
(* other values.                                                           *)
resume(v) ==
    /\ pc = "returned" /\ Last(ustk) = RETURN
    /\ ustk' = <<>>
    /\ regs' = UserRegs(v)
    /\ pc' = "user"
    /\ routine' = ni /\ history' = NoCall
    /\ UNCHANGED <<kstk, errno>>

(* The process runs what no one wrote.                                     *)
wild == pc = "wild" /\ UNCHANGED vars

Step ==
    \/ \E w \in DOMAIN Wrapper : user_call(w)
    \/ \E nr \in RawCalls : raw_call(nr)
    \/ interrupt
    \/ sys_call_handler_sysenter
    \/ \E res \in ResultsOf(routine) : routine_returns(res)
    \/ sysenter_return_code
    \/ \E v \in Loads : resume(v)
    \/ wild

-----------------------------------------------------------------------------
(* Each wrapper reaches the routine of its name, which finds the arguments *)
(* of the call in order on top of the kernel stack.                        *)
RightRoutine ==
    pc = "routine" /\ history.call \in DOMAIN Wrapper =>
        /\ routine = history.call
        /\ \A i \in 1 .. Wrapper[history.call][2] :
              kstk[Len(kstk) + 1 - i] = Args[i]

(* A call that returns has kept what the C calling convention says a       *)
(* function keeps: ebx, esi, edi, ebp and the caller's stack, for every    *)
(* wrapper, whatever interrupts came, whichever processes ran meanwhile    *)
(* and although all wrappers leave through the epilogue of write.  The     *)
(* child of a fork returns from it with all that its parent had.           *)
CallerStateKept ==
    pc = "returned" =>
        /\ \A x \in {"ebx", "esi", "edi", "ebp"} : regs[x] = history.regs[x]
        /\ ustk = <<Args[3], Args[2], Args[1], RETURN>>

(* The program gets the result of the routine; if it is an error, it gets  *)
(* -1, and the error in errno, which is left alone otherwise.  The child   *)
(* of a fork gets 0.                                                       *)
ErrnoConvention ==
    pc = "returned" =>
        IF history.result < 0
        THEN regs.eax = -1 /\ errno = - history.result
        ELSE regs.eax = history.result /\ errno = history.errno

-----------------------------------------------------------------------------
(* What comments say and the code violates.                                *)

(* The handler calls through the table only when "eax < MAX_SYSCALL".      *)
EaxBelowMax == pc # "wild"

(* A call that is not implemented fails with "ENOSYS".                     *)
NotImplementedIsENOSYS ==
    pc = "returned" /\ history.call = "raw" /\ routine = ni
    /\ history.result < 0 => errno = ENOSYS
=============================================================================
