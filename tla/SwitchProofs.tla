---------------------------- MODULE SwitchProofs ----------------------------
(***************************************************************************)
(* System calls and context switches, for any number of processes, any     *)
(* numbers that programs load in eax and any values that routines return.  *)
(*                                                                         *)
(* View says what the registers and the two stacks of a process hold at    *)
(* each place of its way through the kernel.  The running process has that *)
(* view; one that waits has it on its kernel stack, in the frames that     *)
(* task_switch will unwind.                                                *)
(***************************************************************************)
EXTENDS Switch, SequenceTheorems, TLAPS

-----------------------------------------------------------------------------
(* The inductive invariant.                                                *)

Places  == {"user", "sysenter", "routine", "sysexit", "returned", "idle", "wild"}
InUser  == {"user", "sysenter", "returned", "idle"}
Routines == {sys_call_table(n) : n \in 0 .. MAX_SYSCALL - 1}
History == [call : DOMAIN Wrapper \cup {"raw", "none"}, errno : Int,
            result : Int, regs : [Reg -> Int]]

(* The user stack between sysenter and sysexit: arguments, return address, *)
(* what the epilogue pops, and where sysexit is to return.                 *)
UserFrame(u, h) ==
    /\ Len(u) = 12
    /\ u[1] = Args[3] /\ u[2] = Args[2] /\ u[3] = Args[1] /\ u[4] = RETURN
    /\ u[5] = h.regs.ebp /\ u[6] = h.regs.ebx /\ u[7] = h.regs.esi
    /\ u[8] = h.regs.edi /\ u[11] = sysenter_return

(* The context that the sysenter handler builds.                           *)
CallFrame(k) == Len(k) = 9 /\ k[1] = 12 /\ k[2] = sysenter_return

(* A wrapper's arguments, as n of them are in edx, ecx and ebx.            *)
ArgsIn(n, edx, ecx, ebx) ==
    /\ n >= 1 => edx = Args[1]
    /\ n >= 2 => ecx = Args[2]
    /\ n >= 3 => ebx = Args[3]

View(at, r, u, k, e, ro, h) ==
    /\ at \in Places /\ r \in [Reg -> Int]
    /\ u \in Seq(Int) /\ k \in Seq(Int) /\ e \in Int /\ h \in History
    /\ at \in InUser => k = <<>>
    /\ at \in {"sysenter", "routine", "sysexit"} =>
         UserFrame(u, h) /\ e = h.errno
    /\ at = "sysenter" =>
         /\ r["ebp"] = 12 /\ h.result = 0
         /\ h.call \in DOMAIN Wrapper =>
              /\ r["eax"] = Wrapper[h.call][1]
              /\ ArgsIn(Wrapper[h.call][2], r["edx"], r["ecx"], r["ebx"])
    /\ at = "routine" =>
         /\ CallFrame(k) /\ h.result = 0
         /\ h.call \in DOMAIN Wrapper =>
              ro = h.call /\ ArgsIn(Wrapper[h.call][2], k[9], k[8], k[7])
    /\ at = "sysexit" => CallFrame(k) /\ r["eax"] = h.result
    /\ at = "returned" =>
         /\ \A x \in Saved : r[x] = h.regs[x]
         /\ u = <<Args[3], Args[2], Args[1], RETURN>>
         /\ IF h.result < 0 THEN r["eax"] = -1 /\ e = - h.result
                            ELSE r["eax"] = h.result /\ e = h.errno

(* Process p waits in task_switch: the clock took it away from user mode,  *)
(* or it blocked in a system call.                                         *)
InTaskSwitch(k, was) ==
    /\ Len(k) = 22 /\ k[21] = AFTER_INNER
    /\ was = [x \in Saved |-> k[CASE x = "ebx" -> 19 [] x = "esi" -> 17
                                   [] x = "edi" -> 18 [] x = "ebp" -> 16]]

Preempted(t) ==
    /\ InTaskSwitch(t.kstk, t.was) /\ t.kstk[10] = CLK_HANDLER
    /\ \E at \in InUser :
         /\ t.kstk[2] = Address[at]
         /\ View(at, RESTORE_ALL(SubSeq(t.kstk, 1, 9)), t.ustk, <<>>, t.errno,
                 t.routine, t.history)

(* In a call that will return 0: block, or fork in the child.              *)
InCall(t) ==
    /\ t.history.result = 0 /\ t.errno = t.history.errno
    /\ UserFrame(t.ustk, t.history) /\ CallFrame(SubSeq(t.kstk, 1, 9))

Blocked(t) == InTaskSwitch(t.kstk, t.was) /\ t.kstk[10] = SYS_HANDLER /\ InCall(t)
Forked(t)  == Len(t.kstk) = 12 /\ t.kstk[11] = ret_from_fork /\ InCall(t)
Fresh(t)   == t.kstk = <<cpu_idle, 0>>

KeptType == [state : {"kept"}, kstk : Seq(Int), kernel_esp0 : Nat,
             ustk : Seq(Int), errno : Int, routine : Routines, history : History,
             was : [Saved -> Int]]

Waits(t) ==
    /\ t.kernel_esp0 = Len(t.kstk)
    /\ Preempted(t) \/ Blocked(t) \/ Forked(t) \/ Fresh(t)

TaskInv ==
    /\ task \in [Proc -> KeptType \cup {Free, Running}]
    /\ current \in Proc
    /\ \A p \in Proc : task[p] \in KeptType => Waits(task[p])

IInv ==
    /\ routine \in Routines
    /\ View(pc, regs, ustk, kstk, errno, routine, history)
    /\ TaskInv
    /\ tss = current /\ msr = current /\ cr3 = current
    /\ kept = TRUE

-----------------------------------------------------------------------------
(* Stacks.                                                                 *)

LEMMA DropLemma ==
  ASSUME NEW s \in Seq(Int), NEW n \in Nat, n <= Len(s)
  PROVE  /\ Drop(s, n) = SubSeq(s, 1, Len(s) - n)
         /\ Drop(s, n) \in Seq(Int) /\ Len(Drop(s, n)) = Len(s) - n
         /\ \A i \in 1 .. Len(s) - n : Drop(s, n)[i] = s[i]
<1>1. Len(s) \in Nat /\ \A i \in 1 .. Len(s) : s[i] \in Int
  BY LenProperties, ElementOfSeq
<1>2. \A i \in 1 .. Len(s) - n : s[i] \in Int
  BY <1>1
<1> QED BY <1>1, <1>2, SubSeqProperties DEF Drop

LEMMA Top ==
  ASSUME NEW s \in Seq(Int), NEW n \in Nat, n <= Len(s)
  PROVE  /\ SubSeq(s, 1, n) \in Seq(Int) /\ Len(SubSeq(s, 1, n)) = n
         /\ \A i \in 1 .. n : SubSeq(s, 1, n)[i] = s[i]
<1>1. Len(s) \in Nat /\ \A i \in 1 .. Len(s) : s[i] \in Int
  BY LenProperties, ElementOfSeq
<1> QED BY <1>1, SubSeqProperties

(* The bottom of what lies on the bottom of a stack.                       *)
LEMMA Bottom ==
  ASSUME NEW s \in Seq(Int), NEW n \in Nat, NEW m \in Nat, m <= n, n <= Len(s)
  PROVE  SubSeq(SubSeq(s, 1, n), 1, m) = SubSeq(s, 1, m)
<1> DEFINE t == SubSeq(s, 1, n)
<1>1. t \in Seq(Int) /\ Len(t) = n /\ \A i \in 1 .. n : t[i] = s[i]
  BY Top
<1>2. Len(s) \in Nat
  BY LenProperties
<1> HIDE DEF t
<1>3. /\ SubSeq(t, 1, m) \in Seq(Int) /\ Len(SubSeq(t, 1, m)) = m
      /\ \A i \in 1 .. m : SubSeq(t, 1, m)[i] = t[i]
  BY <1>1, Top
<1>4. /\ SubSeq(s, 1, m) \in Seq(Int) /\ Len(SubSeq(s, 1, m)) = m
      /\ \A i \in 1 .. m : SubSeq(s, 1, m)[i] = s[i]
  BY <1>2, Top
<1>5. \A i \in 1 .. m : SubSeq(t, 1, m)[i] = SubSeq(s, 1, m)[i]
  BY <1>1, <1>3, <1>4
<1> QED BY <1>3, <1>4, <1>5, SeqEqual DEF t

LEMMA Popped ==
  ASSUME NEW r \in [Reg -> Int], NEW s \in Seq(Int), NEW order,
         NEW i \in DOMAIN order, order[i] \in Reg, DOMAIN order \subseteq Int,
         \A j \in DOMAIN order : order[j] = order[i] => j <= i
  PROVE  PopInto(r, s, order)[order[i]] = s[Len(s) + 1 - i]
<1> DEFINE x    == order[i]
           last == {j \in DOMAIN order : order[j] = x}
           top  == CHOOSE k \in last : \A j \in last : j <= k
<1>1. i \in last /\ \A j \in last : j <= i
  OBVIOUS
<1>2. top \in last /\ \A j \in last : j <= top
  BY <1>1
<1>3. top = i
  BY <1>1, <1>2
<1> HIDE DEF top, x
<1>4. PopInto(r, s, order)[x] = IF last = {} THEN r[x] ELSE s[Len(s) + 1 - top]
  BY DEF PopInto, top, x
<1> QED BY <1>1, <1>3, <1>4 DEF x

LEMMA NotPopped ==
  ASSUME NEW r \in [Reg -> Int], NEW s \in Seq(Int), NEW order,
         NEW x \in Reg, \A j \in DOMAIN order : order[j] # x
  PROVE  PopInto(r, s, order)[x] = r[x]
  BY DEF PopInto

LEMMA Push ==
  ASSUME NEW s \in Seq(Int), NEW t \in Seq(Int)
  PROVE  /\ s \o t \in Seq(Int) /\ Len(s \o t) = Len(s) + Len(t)
         /\ \A i \in 1 .. Len(s) : (s \o t)[i] = s[i]
         /\ \A i \in 1 .. Len(t) : (s \o t)[Len(s) + i] = t[i]
<1>1. Len(s) \in Nat /\ Len(t) \in Nat
  BY LenProperties
<1>2. /\ s \o t \in Seq(Int) /\ Len(s \o t) = Len(s) + Len(t)
      /\ \A i \in 1 .. Len(s) + Len(t) : (s \o t)[i] =
                     IF i <= Len(s) THEN s[i] ELSE t[i - Len(s)]
  BY ConcatProperties
<1>3. ASSUME NEW i \in 1 .. Len(t) PROVE (s \o t)[Len(s) + i] = t[i]
  <2>1. /\ Len(s) + i \in 1 .. Len(s) + Len(t) /\ ~ (Len(s) + i <= Len(s))
        /\ Len(s) + i - Len(s) = i
    BY <1>1
  <2> QED BY <1>2, <2>1
<1>4. ASSUME NEW i \in 1 .. Len(s) PROVE (s \o t)[i] = s[i]
  <2>1. i \in 1 .. Len(s) + Len(t) /\ i <= Len(s)
    BY <1>1
  <2> QED BY <1>2, <2>1
<1> QED BY <1>2, <1>3, <1>4

(* RESTORE_ALL finds what SAVE_ALL has pushed.                             *)
LEMMA Restored ==
  ASSUME NEW s \in Seq(Int), Len(s) >= 7
  PROVE  /\ RESTORE_ALL(s) \in [Reg -> Int]
         /\ RESTORE_ALL(s)["edx"] = s[Len(s)]
         /\ RESTORE_ALL(s)["ecx"] = s[Len(s) - 1]
         /\ RESTORE_ALL(s)["ebx"] = s[Len(s) - 2]
         /\ RESTORE_ALL(s)["esi"] = s[Len(s) - 3]
         /\ RESTORE_ALL(s)["edi"] = s[Len(s) - 4]
         /\ RESTORE_ALL(s)["ebp"] = s[Len(s) - 5]
         /\ RESTORE_ALL(s)["eax"] = s[Len(s) - 6]
<1> DEFINE R == RestoreOrder
           v == RESTORE_ALL(s)
<1>0. Len(s) \in Nat /\ \A i \in 1 .. Len(s) : s[i] \in Int
  BY LenProperties, ElementOfSeq
<1>1. /\ DOMAIN R = 1 .. 7 /\ R[1] = "edx" /\ R[2] = "ecx" /\ R[3] = "ebx"
      /\ R[4] = "esi" /\ R[5] = "edi" /\ R[6] = "ebp" /\ R[7] = "eax"
  BY DEF RestoreOrder
<1>2. UserRegs(0) \in [Reg -> Int]
  BY DEF UserRegs, Reg, Junk
<1>3. \A i \in 1 .. 7 : R[i] \in Reg /\ v[R[i]] = s[Len(s) + 1 - i]
  <2> SUFFICES ASSUME NEW i \in 1 .. 7
               PROVE  R[i] \in Reg /\ v[R[i]] = s[Len(s) + 1 - i]
    OBVIOUS
  <2>1. R[i] \in Reg /\ \A j \in DOMAIN R : R[j] = R[i] => j <= i
    BY <1>1 DEF Reg
  <2>2. DOMAIN R \subseteq Int /\ i \in DOMAIN R
    BY <1>1
  <2> HIDE DEF R
  <2>3. PopInto(UserRegs(0), s, R)[R[i]] = s[Len(s) + 1 - i]
    BY <1>2, <2>1, <2>2, Popped
  <2> QED BY <2>1, <2>3 DEF RESTORE_ALL, R
<1> HIDE DEF R, v
<1>4. v = [x \in Reg |-> v[x]]
  BY DEF v, RESTORE_ALL, PopInto
<1>5. \A x \in Reg : \E i \in 1 .. 7 : x = R[i]
  BY <1>1 DEF Reg
<1>6. \A i \in 1 .. 7 : v[R[i]] \in Int
  <2>1. \A i \in 1 .. 7 : Len(s) + 1 - i \in 1 .. Len(s)
    BY <1>0
  <2> QED BY <1>0, <1>3, <2>1
<1>7. v \in [Reg -> Int]
  BY <1>4, <1>5, <1>6
<1>8. /\ v["edx"] = s[Len(s) + 1 - 1] /\ v["ecx"] = s[Len(s) + 1 - 2]
      /\ v["ebx"] = s[Len(s) + 1 - 3] /\ v["esi"] = s[Len(s) + 1 - 4]
      /\ v["edi"] = s[Len(s) + 1 - 5] /\ v["ebp"] = s[Len(s) + 1 - 6]
      /\ v["eax"] = s[Len(s) + 1 - 7]
  BY <1>1, <1>3
<1>9. /\ Len(s) + 1 - 1 = Len(s) /\ Len(s) + 1 - 2 = Len(s) - 1
      /\ Len(s) + 1 - 3 = Len(s) - 2 /\ Len(s) + 1 - 4 = Len(s) - 3
      /\ Len(s) + 1 - 5 = Len(s) - 4 /\ Len(s) + 1 - 6 = Len(s) - 5
      /\ Len(s) + 1 - 7 = Len(s) - 6
  BY <1>0
<1> QED BY <1>7, <1>8, <1>9, Zenon DEF v

LEMMA SameRegs ==
  ASSUME NEW r \in [Reg -> Int], NEW s \in Seq(Int), Len(s) >= 7,
         s[Len(s)] = r["edx"], s[Len(s) - 1] = r["ecx"],
         s[Len(s) - 2] = r["ebx"], s[Len(s) - 3] = r["esi"],
         s[Len(s) - 4] = r["edi"], s[Len(s) - 5] = r["ebp"],
         s[Len(s) - 6] = r["eax"]
  PROVE  RESTORE_ALL(s) = r
<1>1. RESTORE_ALL(s) \in [Reg -> Int]
  BY Restored
<1>2. \A x \in Reg : RESTORE_ALL(s)[x] = r[x]
  BY Restored DEF Reg
<1> QED BY <1>1, <1>2

LEMMA SavedStack ==
  ASSUME NEW r \in [Reg -> Int]
  PROVE  /\ SAVE_ALL(r) \in Seq(Int) /\ Len(SAVE_ALL(r)) = 7
         /\ SAVE_ALL(r)[1] = r["eax"] /\ SAVE_ALL(r)[2] = r["ebp"]
         /\ SAVE_ALL(r)[3] = r["edi"] /\ SAVE_ALL(r)[4] = r["esi"]
         /\ SAVE_ALL(r)[5] = r["ebx"] /\ SAVE_ALL(r)[6] = r["ecx"]
         /\ SAVE_ALL(r)[7] = r["edx"]
         /\ RESTORE_ALL(SAVE_ALL(r)) = r
<1>1. \A x \in Reg : r[x] \in Int
  OBVIOUS
<1>2. /\ r["eax"] \in Int /\ r["ebp"] \in Int /\ r["edi"] \in Int
      /\ r["esi"] \in Int /\ r["ebx"] \in Int /\ r["ecx"] \in Int
      /\ r["edx"] \in Int
  BY <1>1 DEF Reg
<1>3. /\ SAVE_ALL(r) \in Seq(Int) /\ Len(SAVE_ALL(r)) = 7
      /\ SAVE_ALL(r)[1] = r["eax"] /\ SAVE_ALL(r)[2] = r["ebp"]
      /\ SAVE_ALL(r)[3] = r["edi"] /\ SAVE_ALL(r)[4] = r["esi"]
      /\ SAVE_ALL(r)[5] = r["ebx"] /\ SAVE_ALL(r)[6] = r["ecx"]
      /\ SAVE_ALL(r)[7] = r["edx"]
  BY <1>2 DEF SAVE_ALL
<1>4. RESTORE_ALL(SAVE_ALL(r)) = r
  <2> DEFINE t == SAVE_ALL(r)
  <2>1. /\ t[Len(t)] = r["edx"] /\ t[Len(t) - 1] = r["ecx"]
        /\ t[Len(t) - 2] = r["ebx"] /\ t[Len(t) - 3] = r["esi"]
        /\ t[Len(t) - 4] = r["edi"] /\ t[Len(t) - 5] = r["ebp"]
        /\ t[Len(t) - 6] = r["eax"] /\ Len(t) >= 7 /\ t \in Seq(Int)
    BY <1>3
  <2> HIDE DEF t
  <2> QED BY <2>1, SameRegs DEF t
<1> QED BY <1>3, <1>4

(* Two words and the registers on top of them: the context of a system     *)
(* call and of an interrupt.                                               *)
LEMMA ContextStack ==
  ASSUME NEW s \in Seq(Int), NEW t \in Seq(Int), Len(s) = 2, Len(t) = 7
  PROVE  LET k == s \o t
         IN  /\ k \in Seq(Int) /\ Len(k) = 9 /\ k[1] = s[1] /\ k[2] = s[2]
             /\ k[3] = t[1] /\ k[4] = t[2] /\ k[5] = t[3] /\ k[6] = t[4]
             /\ k[7] = t[5] /\ k[8] = t[6] /\ k[9] = t[7]
<1> DEFINE k == s \o t
<1>1. /\ k \in Seq(Int) /\ Len(k) = Len(s) + Len(t)
      /\ \A i \in 1 .. Len(s) : k[i] = s[i]
      /\ \A i \in 1 .. Len(t) : k[Len(s) + i] = t[i]
  BY Push
<1> HIDE DEF k
<1>2. Len(k) = 9 /\ k[1] = s[1] /\ k[2] = s[2]
  BY <1>1
<1>3. \A i \in 1 .. 7 : k[2 + i] = t[i]
  BY <1>1
<1>4. /\ k[2 + 1] = t[1] /\ k[2 + 2] = t[2] /\ k[2 + 3] = t[3]
      /\ k[2 + 4] = t[4] /\ k[2 + 5] = t[5] /\ k[2 + 6] = t[6]
      /\ k[2 + 7] = t[7]
  BY <1>3
<1>5. /\ k[3] = t[1] /\ k[4] = t[2] /\ k[5] = t[3] /\ k[6] = t[4]
      /\ k[7] = t[5] /\ k[8] = t[6] /\ k[9] = t[7]
  BY <1>4
<1> QED BY <1>1, <1>2, <1>5 DEF k

LEMMA Context ==
  ASSUME NEW r \in [Reg -> Int], NEW s \in Seq(Int), Len(s) = 2
  PROVE  LET k == s \o SAVE_ALL(r)
         IN  /\ k \in Seq(Int) /\ Len(k) = 9 /\ k[1] = s[1] /\ k[2] = s[2]
             /\ k[3] = r["eax"] /\ k[4] = r["ebp"] /\ k[5] = r["edi"]
             /\ k[6] = r["esi"] /\ k[7] = r["ebx"] /\ k[8] = r["ecx"]
             /\ k[9] = r["edx"] /\ RESTORE_ALL(k) = r
<1> DEFINE t == SAVE_ALL(r)
           k == s \o t
<1>1. t \in Seq(Int) /\ Len(t) = 7
  BY SavedStack
<1> HIDE DEF t
<1>2. /\ k \in Seq(Int) /\ Len(k) = 9 /\ k[1] = s[1] /\ k[2] = s[2]
      /\ k[3] = t[1] /\ k[4] = t[2] /\ k[5] = t[3] /\ k[6] = t[4]
      /\ k[7] = t[5] /\ k[8] = t[6] /\ k[9] = t[7]
  BY <1>1, ContextStack
<1> HIDE DEF k
<1>3. /\ k[3] = r["eax"] /\ k[4] = r["ebp"] /\ k[5] = r["edi"]
      /\ k[6] = r["esi"] /\ k[7] = r["ebx"] /\ k[8] = r["ecx"]
      /\ k[9] = r["edx"]
  BY <1>2, SavedStack DEF t
<1>4. RESTORE_ALL(k) = r
  <2>1. /\ Len(k) - 1 = 8 /\ Len(k) - 2 = 7 /\ Len(k) - 3 = 6
        /\ Len(k) - 4 = 5 /\ Len(k) - 5 = 4 /\ Len(k) - 6 = 3 /\ Len(k) >= 7
    BY <1>2
  <2> QED BY <1>2, <1>3, <2>1, SameRegs
<1> QED BY <1>2, <1>3, <1>4 DEF k, t

(* Every wrapper loads a number of the table, and the routine there has    *)
(* its name.                                                               *)
LEMMA Wrappers ==
  ASSUME NEW w \in DOMAIN Wrapper
  PROVE  /\ Wrapper[w][1] \in 0 .. MAX_SYSCALL - 1 /\ Wrapper[w][2] \in 0 .. 3
         /\ sys_call_table(Wrapper[w][1]) = w
<1>1. DOMAIN Wrapper = {"write", "gettime", "getpid", "fork", "exit", "block", "unblock",
                       "numsons", "numbros", "read", "gotoxy", "set_color", "shmat", "shmdt", "shmrm"}
  BY DEF Wrapper
<1>2. MAX_SYSCALL = 23
  BY DEF MAX_SYSCALL, table
<1> QED BY <1>1, <1>2 DEF Wrapper, sys_call_table, table

-----------------------------------------------------------------------------
(* The steps of a system call.                                             *)

Now == View(pc, regs, ustk, kstk, errno, routine, history)

LEMMA RegTypes ==
  ASSUME NEW r \in [Reg -> Int]
  PROVE  /\ r["eax"] \in Int /\ r["ebx"] \in Int /\ r["ecx"] \in Int
         /\ r["edx"] \in Int /\ r["esi"] \in Int /\ r["edi"] \in Int
         /\ r["ebp"] \in Int
<1>1. \A x \in Reg : r[x] \in Int
  OBVIOUS
<1> QED BY <1>1 DEF Reg

(* What a wrapper pushes after the arguments, return address and ebp.      *)
LEMMA WrapperStack ==
  ASSUME NEW s \in Seq(Int), NEW t \in Seq(Int), NEW v \in Seq(Int),
         Len(s) = 5, Len(t) = 3, Len(v) = 4
  PROVE  LET u == (s \o t) \o v
         IN  /\ u \in Seq(Int) /\ Len(u) = 12
             /\ u[1] = s[1] /\ u[2] = s[2] /\ u[3] = s[3] /\ u[4] = s[4]
             /\ u[5] = s[5] /\ u[6] = t[1] /\ u[7] = t[2] /\ u[8] = t[3]
             /\ u[11] = v[3]
<1> DEFINE k == s \o t
           u == k \o v
<1>1. /\ k \in Seq(Int) /\ Len(k) = Len(s) + Len(t)
      /\ \A i \in 1 .. Len(s) : k[i] = s[i]
      /\ \A i \in 1 .. Len(t) : k[Len(s) + i] = t[i]
  BY Push
<1> HIDE DEF k
<1>2. /\ Len(k) = 8 /\ k[1] = s[1] /\ k[2] = s[2] /\ k[3] = s[3] /\ k[4] = s[4]
      /\ k[5] = s[5] /\ k[5 + 1] = t[1] /\ k[5 + 2] = t[2] /\ k[5 + 3] = t[3]
  BY <1>1
<1>3. k[6] = t[1] /\ k[7] = t[2] /\ k[8] = t[3]
  BY <1>2
<1>4. /\ u \in Seq(Int) /\ Len(u) = Len(k) + Len(v)
      /\ \A i \in 1 .. Len(k) : u[i] = k[i]
      /\ \A i \in 1 .. Len(v) : u[Len(k) + i] = v[i]
  BY <1>1, Push
<1> HIDE DEF u
<1>5. /\ Len(u) = 12 /\ u[8 + 3] = v[3]
      /\ \A i \in 1 .. 8 : u[i] = k[i]
  BY <1>2, <1>4
<1>6. u[11] = v[3]
  BY <1>5
<1>7. /\ u[1] = k[1] /\ u[2] = k[2] /\ u[3] = k[3] /\ u[4] = k[4]
      /\ u[5] = k[5] /\ u[6] = k[6] /\ u[7] = k[7] /\ u[8] = k[8]
  BY <1>5
<1>8. /\ u \in Seq(Int) /\ Len(u) = 12
      /\ u[1] = s[1] /\ u[2] = s[2] /\ u[3] = s[3] /\ u[4] = s[4]
      /\ u[5] = s[5] /\ u[6] = t[1] /\ u[7] = t[2] /\ u[8] = t[3]
      /\ u[11] = v[3]
  BY <1>2, <1>3, <1>4, <1>5, <1>6, <1>7
<1> QED BY <1>8 DEF u, k

LEMMA WrapperCalls ==
  ASSUME Now, NEW w \in DOMAIN Wrapper, user_call(w)
  PROVE  Now'
<1> DEFINE nr == Wrapper[w][1]
           n  == Wrapper[w][2]
           s1 == <<Args[3], Args[2], Args[1], RETURN, regs.ebp>>
           t  == <<regs.ebx, regs.esi, regs.edi>>
           r  == [regs EXCEPT !.eax = nr,
                              !.edx = IF n >= 1 THEN s1[Len(s1) - 2] ELSE @,
                              !.ecx = IF n >= 2 THEN s1[Len(s1) - 3] ELSE @,
                              !.ebx = IF n >= 3 THEN s1[Len(s1) - 4] ELSE @]
           v  == <<r.ecx, r.edx, sysenter_return, Len(s1)>>
           s3 == (s1 \o t) \o v
<1>1. /\ regs \in [Reg -> Int] /\ kstk = <<>> /\ errno \in Int
      /\ pc = "user" /\ ustk' = s3 /\ regs' = [r EXCEPT !.ebp = Len(s3)]
      /\ pc' = "sysenter" /\ kstk' = kstk /\ errno' = errno
      /\ history' = [call |-> w, errno |-> errno, result |-> 0, regs |-> regs]
  BY DEF Now, View, user_call, InUser
<1>2. /\ s1 \in Seq(Int) /\ t \in Seq(Int) /\ Len(s1) = 5 /\ Len(t) = 3
      /\ s1[1] = Args[3] /\ s1[2] = Args[2] /\ s1[3] = Args[1]
      /\ s1[4] = RETURN /\ s1[5] = regs["ebp"] /\ t[1] = regs["ebx"]
      /\ t[2] = regs["esi"] /\ t[3] = regs["edi"]
  BY <1>1, RegTypes DEF Args, RETURN
<1>3. /\ s1[Len(s1) - 2] = Args[1] /\ s1[Len(s1) - 3] = Args[2]
      /\ s1[Len(s1) - 4] = Args[3]
  BY <1>2
<1>4. nr \in 0 .. MAX_SYSCALL - 1 /\ nr \in Int /\ n \in 0 .. 3
  BY Wrappers DEF MAX_SYSCALL, table
<1> HIDE DEF nr, n, s1, t
<1>5. /\ r \in [Reg -> Int] /\ r["eax"] = nr
      /\ ArgsIn(n, r["edx"], r["ecx"], r["ebx"])
  <2>1. regs \in [Reg -> Int]
    BY <1>1
  <2>2. /\ "eax" \in Reg /\ "edx" \in Reg /\ "ecx" \in Reg /\ "ebx" \in Reg
    BY DEF Reg
  <2>3. /\ s1[Len(s1) - 2] \in Int /\ s1[Len(s1) - 3] \in Int
        /\ s1[Len(s1) - 4] \in Int
    BY <1>3 DEF Args
  <2>4. /\ r \in [Reg -> Int] /\ r["eax"] = nr
        /\ r["edx"] = IF n >= 1 THEN s1[Len(s1) - 2] ELSE regs["edx"]
        /\ r["ecx"] = IF n >= 2 THEN s1[Len(s1) - 3] ELSE regs["ecx"]
        /\ r["ebx"] = IF n >= 3 THEN s1[Len(s1) - 4] ELSE regs["ebx"]
    BY <2>1, <2>2, <2>3, <1>4
  <2> HIDE DEF r
  <2> QED BY <1>3, <1>4, <2>4 DEF ArgsIn
<1> HIDE DEF r
<1>6. v \in Seq(Int) /\ Len(v) = 4 /\ v[3] = sysenter_return
  BY <1>2, <1>5, RegTypes DEF sysenter_return
<1> HIDE DEF v
<1>7. /\ s3 \in Seq(Int) /\ Len(s3) = 12
      /\ s3[1] = s1[1] /\ s3[2] = s1[2] /\ s3[3] = s1[3] /\ s3[4] = s1[4]
      /\ s3[5] = s1[5] /\ s3[6] = t[1] /\ s3[7] = t[2] /\ s3[8] = t[3]
      /\ s3[11] = v[3]
  <2>1. /\ s1 \in Seq(Int) /\ t \in Seq(Int) /\ v \in Seq(Int)
        /\ Len(s1) = 5 /\ Len(t) = 3 /\ Len(v) = 4
    BY <1>2, <1>6
  <2> HIDE DEF s1, t
  <2> QED BY <2>1, WrapperStack, ZenonT(60)
<1> HIDE DEF s3
<1>8. /\ regs' \in [Reg -> Int] /\ regs'["ebp"] = 12 /\ regs'["eax"] = nr
      /\ ArgsIn(n, regs'["edx"], regs'["ecx"], regs'["ebx"])
  <2>1. /\ regs' = [r EXCEPT !["ebp"] = Len(s3)] /\ Len(s3) = 12
        /\ "eax" \in Reg /\ "edx" \in Reg /\ "ecx" \in Reg /\ "ebx" \in Reg
        /\ "ebp" \in Reg
    BY <1>1, <1>7 DEF Reg
  <2>2. /\ regs' \in [Reg -> Int] /\ regs'["ebp"] = 12
        /\ regs'["eax"] = r["eax"] /\ regs'["edx"] = r["edx"]
        /\ regs'["ecx"] = r["ecx"] /\ regs'["ebx"] = r["ebx"]
    BY <1>5, <2>1
  <2> QED BY <1>5, <2>2
<1>9. /\ history' \in History /\ history'.call = w /\ history'.regs = regs
      /\ history'.errno = errno /\ history'.result = 0
  BY <1>1 DEF History
<1>10. UserFrame(ustk', history')
  BY <1>1, <1>2, <1>6, <1>7, <1>9 DEF UserFrame
<1> QED BY <1>1, <1>7, <1>8, <1>9, <1>10 DEF Now, View, Places, InUser, nr, n

LEMMA ProgramCalls ==
  ASSUME Now, NEW nr \in RawCalls, raw_call(nr)
  PROVE  Now'
<1> DEFINE s == <<Args[3], Args[2], Args[1], RETURN, regs.ebp,
                  regs.ebx, regs.esi, regs.edi,
                  regs.ecx, regs.edx, sysenter_return, 5>>
<1>1. /\ regs \in [Reg -> Int] /\ kstk = <<>> /\ errno \in Int
      /\ ustk' = s /\ regs' = [regs EXCEPT !.eax = nr, !.ebp = Len(s)]
      /\ pc' = "sysenter" /\ kstk' = kstk /\ errno' = errno
      /\ history' = [call |-> "raw", errno |-> errno, result |-> 0, regs |-> regs]
  BY DEF Now, View, raw_call, InUser
<1>2. /\ s \in Seq(Int) /\ Len(s) = 12
      /\ s[1] = Args[3] /\ s[2] = Args[2] /\ s[3] = Args[1]
      /\ s[4] = RETURN /\ s[5] = regs["ebp"] /\ s[6] = regs["ebx"]
      /\ s[7] = regs["esi"] /\ s[8] = regs["edi"] /\ s[11] = sysenter_return
  <2>1. /\ regs["ebx"] \in Int /\ regs["ecx"] \in Int /\ regs["edx"] \in Int
        /\ regs["esi"] \in Int /\ regs["edi"] \in Int /\ regs["ebp"] \in Int
    BY <1>1, RegTypes
  <2>2. /\ Args[1] \in Int /\ Args[2] \in Int /\ Args[3] \in Int
        /\ RETURN \in Int /\ sysenter_return \in Int
    BY DEF Args, RETURN, sysenter_return
  <2> QED BY <2>1, <2>2
<1> HIDE DEF s
<1>3. regs' \in [Reg -> Int] /\ regs'["ebp"] = 12
  <2>1. "eax" \in Reg /\ "ebp" \in Reg /\ nr \in Int /\ Len(s) = 12
    BY <1>2, SyscallAssumption DEF Reg
  <2> DEFINE q == [regs EXCEPT !["eax"] = nr]
  <2>2. q \in [Reg -> Int]
    BY <1>1, <2>1
  <2>3. regs' = [q EXCEPT !["ebp"] = 12]
    BY <1>1, <2>1
  <2> HIDE DEF q
  <2> QED BY <2>1, <2>2, <2>3
<1>4. /\ history' \in History /\ history'.call = "raw" /\ history'.regs = regs
      /\ history'.errno = errno /\ history'.result = 0
  BY <1>1 DEF History
<1>5. UserFrame(ustk', history')
  BY <1>1, <1>2, <1>4 DEF UserFrame
<1>6. "raw" \notin DOMAIN Wrapper
  BY DEF Wrapper
<1> QED BY <1>1, <1>2, <1>3, <1>4, <1>5, <1>6 DEF Now, View, Places, InUser

LEMMA Interrupts ==
  ASSUME Now, interrupt
  PROVE  Now'
<1>1. regs' = regs
  BY SavedStack DEF Now, View, interrupt
<1> QED BY <1>1 DEF Now, View, interrupt

LEMMA HandlerEnters ==
  ASSUME Now, routine \in Routines, sys_call_handler_sysenter
  PROVE  Now' /\ routine' \in Routines
<1> DEFINE nr == regs.eax
           k  == <<regs.ebp, ustk[regs.ebp - 1]>> \o SAVE_ALL(regs)
<1>1. /\ regs \in [Reg -> Int] /\ ustk \in Seq(Int) /\ errno \in Int
      /\ history \in History /\ UserFrame(ustk, history) /\ errno = history.errno
      /\ regs["ebp"] = 12 /\ history.result = 0
      /\ history.call \in DOMAIN Wrapper =>
            /\ regs["eax"] = Wrapper[history.call][1]
            /\ ArgsIn(Wrapper[history.call][2], regs["edx"], regs["ecx"], regs["ebx"])
      /\ kstk' = k /\ ustk' = ustk /\ errno' = errno
  BY DEF Now, View, sys_call_handler_sysenter
<1>2. regs.ebp = 12 /\ ustk[regs.ebp - 1] = sysenter_return /\ sysenter_return \in Int
  BY <1>1 DEF UserFrame, sysenter_return
<1>3. /\ k \in Seq(Int) /\ Len(k) = 9 /\ k[1] = 12 /\ k[2] = sysenter_return
      /\ k[7] = regs["ebx"] /\ k[8] = regs["ecx"] /\ k[9] = regs["edx"]
  <2> DEFINE two == <<regs.ebp, ustk[regs.ebp - 1]>>
  <2>1. two \in Seq(Int) /\ Len(two) = 2 /\ two[1] = 12 /\ two[2] = sysenter_return
    BY <1>2
  <2> HIDE DEF two
  <2>2. k = two \o SAVE_ALL(regs)
    BY DEF two
  <2> HIDE DEF k
  <2> QED BY <1>1, <2>1, <2>2, Context
<1> HIDE DEF k
<1>4. CallFrame(kstk') /\ kstk' \in Seq(Int)
  BY <1>1, <1>3 DEF CallFrame
<1>5. CASE /\ nr < 0 \/ nr > MAX_SYSCALL
           /\ regs' = [regs EXCEPT !.eax = - ENOSYS] /\ pc' = "sysexit"
           /\ history' = [history EXCEPT !.result = - ENOSYS]
           /\ routine' = routine
  <2>1. /\ history' \in History /\ history'.regs = history.regs
        /\ history'.errno = history.errno /\ history'.result = - ENOSYS
    <3>1. - ENOSYS \in Int
      BY DEF ENOSYS
    <3> QED BY <1>1, <1>5, <3>1 DEF History
  <2>2. regs' \in [Reg -> Int] /\ regs'["eax"] = - ENOSYS
    <3>1. "eax" \in Reg /\ - ENOSYS \in Int
      BY DEF Reg, ENOSYS
    <3> QED BY <1>1, <1>5, <3>1
  <2>3. UserFrame(ustk', history')
    BY <1>1, <2>1 DEF UserFrame
  <2> QED BY <1>1, <1>4, <1>5, <2>1, <2>2, <2>3 DEF Now, View, Places, InUser
<1>6. CASE /\ nr \in 0 .. MAX_SYSCALL - 1 /\ routine' = sys_call_table(nr)
           /\ pc' = "routine" /\ regs' = regs /\ history' = history
  <2>1. ASSUME history.call \in DOMAIN Wrapper
        PROVE  /\ routine' = history.call
               /\ ArgsIn(Wrapper[history.call][2], kstk'[9], kstk'[8], kstk'[7])
    BY <1>1, <1>3, <1>6, <2>1, Wrappers
  <2>2. routine' \in Routines
    BY <1>6 DEF Routines
  <2> QED BY <1>1, <1>4, <1>6, <2>1, <2>2 DEF Now, View, Places, InUser
<1>7. CASE /\ pc' = "wild" /\ regs' = regs /\ routine' = routine
           /\ history' = history
  BY <1>1, <1>4, <1>7 DEF Now, View, Places, InUser
<1> QED BY <1>5, <1>6, <1>7 DEF sys_call_handler_sysenter

LEMMA RoutineReturns ==
  ASSUME Now, NEW res \in ResultsOf(routine), routine_returns(res)
  PROVE  Now'
<1>1. res \in Int
  BY SyscallAssumption DEF ResultsOf
<1>2. /\ regs \in [Reg -> Int] /\ ustk' = ustk /\ kstk' = kstk /\ errno' = errno
      /\ ustk \in Seq(Int) /\ kstk \in Seq(Int) /\ errno \in Int
      /\ history \in History /\ UserFrame(ustk, history) /\ errno = history.errno
      /\ CallFrame(kstk) /\ pc' = "sysexit"
      /\ history' = [history EXCEPT !.result = res]
      /\ regs' = [x \in Reg |-> IF x = "eax" THEN res
                                 ELSE IF x \in {"ecx", "edx"} THEN Junk
                                 ELSE regs[x]]
  BY DEF Now, View, routine_returns
<1>3. /\ history' \in History /\ history'.regs = history.regs
      /\ history'.errno = history.errno /\ history'.result = res
  BY <1>1, <1>2 DEF History
<1>4. regs' \in [Reg -> Int] /\ regs'["eax"] = res
  BY <1>1, <1>2 DEF Reg, Junk
<1>5. UserFrame(ustk', history')
  BY <1>2, <1>3 DEF UserFrame
<1> QED BY <1>2, <1>3, <1>4, <1>5 DEF Now, View, Places, InUser

(* What the epilogue of the wrappers pops.                                 *)
LEMMA EpiloguePops ==
  ASSUME NEW r \in [Reg -> Int], NEW s \in Seq(Int), Len(s) = 12
  PROVE  LET v == PopInto(r, s, <<"ebp", "edx", "edx", "ecx",
                                  "edi", "esi", "ebx">>)
         IN  /\ v \in [Reg -> Int] /\ v["eax"] = r["eax"] /\ v["ebx"] = s[6]
             /\ v["esi"] = s[7] /\ v["edi"] = s[8]
<1> DEFINE R == <<"ebp", "edx", "edx", "ecx", "edi", "esi", "ebx">>
           v == PopInto(r, s, R)
<1>0. \A i \in 1 .. 12 : s[i] \in Int
  BY ElementOfSeq
<1>1. /\ DOMAIN R = 1 .. 7 /\ R[1] = "ebp" /\ R[2] = "edx" /\ R[3] = "edx"
      /\ R[4] = "ecx" /\ R[5] = "edi" /\ R[6] = "esi" /\ R[7] = "ebx"
  OBVIOUS
<1> HIDE DEF R
<1>2. \A i \in 1 .. 7 : i # 2 => R[i] \in Reg /\ v[R[i]] = s[Len(s) + 1 - i]
  <2> SUFFICES ASSUME NEW i \in 1 .. 7, i # 2
               PROVE  R[i] \in Reg /\ v[R[i]] = s[Len(s) + 1 - i]
    OBVIOUS
  <2>1. R[i] \in Reg /\ \A j \in DOMAIN R : R[j] = R[i] => j <= i
    BY <1>1 DEF Reg
  <2>2. DOMAIN R \subseteq Int /\ i \in DOMAIN R
    BY <1>1
  <2>3. PopInto(r, s, R)[R[i]] = s[Len(s) + 1 - i]
    BY <2>1, <2>2, Popped, ZenonT(60)
  <2> QED BY <2>1, <2>3
<1>3. v["eax"] = r["eax"] /\ "eax" \in Reg
  <2>1. "eax" \in Reg /\ \A j \in DOMAIN R : R[j] # "eax"
    BY <1>1 DEF Reg
  <2>2. PopInto(r, s, R)["eax"] = r["eax"]
    BY <2>1, NotPopped, ZenonT(60)
  <2> QED BY <2>1, <2>2
<1>4. v = [x \in Reg |-> v[x]]
  BY DEF PopInto
<1> HIDE DEF v
<1>5. /\ v["ebp"] = s[Len(s) + 1 - 1] /\ v["edx"] = s[Len(s) + 1 - 3]
      /\ v["ecx"] = s[Len(s) + 1 - 4] /\ v["edi"] = s[Len(s) + 1 - 5]
      /\ v["esi"] = s[Len(s) + 1 - 6] /\ v["ebx"] = s[Len(s) + 1 - 7]
  BY <1>1, <1>2
<1>6. /\ v["ebp"] = s[12] /\ v["edx"] = s[10] /\ v["ecx"] = s[9]
      /\ v["edi"] = s[8] /\ v["esi"] = s[7] /\ v["ebx"] = s[6]
  <2>1. /\ Len(s) + 1 - 1 = 12 /\ Len(s) + 1 - 3 = 10 /\ Len(s) + 1 - 4 = 9
        /\ Len(s) + 1 - 5 = 8 /\ Len(s) + 1 - 6 = 7 /\ Len(s) + 1 - 7 = 6
    OBVIOUS
  <2> QED BY <1>5, <2>1
<1>7. \A x \in Reg : v[x] \in Int
  <2>1. r["eax"] \in Int
    BY <1>3
  <2>2. /\ s[12] \in Int /\ s[10] \in Int /\ s[9] \in Int /\ s[8] \in Int
        /\ s[7] \in Int /\ s[6] \in Int
    BY <1>0
  <2> QED BY <1>3, <1>6, <2>1, <2>2 DEF Reg
<1> QED BY <1>3, <1>4, <1>6, <1>7 DEF v, R

LEMMA CallReturns ==
  ASSUME Now, sysenter_return_code
  PROVE  Now'
<1> DEFINE saved == [kstk EXCEPT ![EaxSlot(kstk)] = regs.eax]
           r     == RESTORE_ALL(saved)
           rest  == Drop(saved, Len(SAVE_ALL(r)))
           s     == SubSeq(ustk, 1, rest[1])
           r1    == PopInto(r, s, <<"ebp", "edx", "edx", "ecx",
                                    "edi", "esi", "ebx">>)
           s1    == Drop(s, 7)
           ok    == r.eax >= 0
<1>1. /\ regs \in [Reg -> Int] /\ ustk \in Seq(Int) /\ kstk \in Seq(Int)
      /\ errno \in Int /\ history \in History /\ UserFrame(ustk, history)
      /\ errno = history.errno /\ CallFrame(kstk) /\ regs["eax"] = history.result
      /\ errno' = (IF ok THEN errno ELSE - r.eax)
      /\ regs' = [r1 EXCEPT !.eax = IF ok THEN r.eax ELSE -1, !.ebp = Last(s1)]
      /\ ustk' = Front(s1) /\ kstk' = <<>> /\ pc' = "returned"
      /\ history' = history
  BY DEF Now, View, sysenter_return_code
<1>2. /\ saved \in Seq(Int) /\ Len(saved) = 9 /\ saved[1] = 12
      /\ saved[3] = history.result
  <2>1. EaxSlot(kstk) = 3 /\ Len(kstk) = 9 /\ kstk[1] = 12
    BY <1>1 DEF EaxSlot, CallFrame
  <2>2. saved = [kstk EXCEPT ![3] = regs["eax"]] /\ regs["eax"] \in Int
    BY <1>1, <2>1, RegTypes
  <2> HIDE DEF saved
  <2>3. DOMAIN kstk = 1 .. 9 /\ \A i \in 1 .. 9 : kstk[i] \in Int
    BY <1>1, <2>1, LenProperties, ElementOfSeq
  <2>4. saved \in Seq(Int) /\ Len(saved) = 9
    BY <1>1, <2>1, <2>2, ExceptSeq
  <2> QED BY <1>1, <2>1, <2>2, <2>3, <2>4
<1> HIDE DEF saved
<1>3. r \in [Reg -> Int] /\ r["eax"] = history.result
  <2>1. Len(saved) - 6 = 3 /\ Len(saved) >= 7
    BY <1>2
  <2> QED BY <1>2, <2>1, Restored
<1> HIDE DEF r
<1>4. rest[1] = 12
  <2>1. Len(SAVE_ALL(r)) = 7
    BY <1>3, SavedStack
  <2>2. 7 \in Nat /\ 7 <= Len(saved) /\ 1 \in 1 .. Len(saved) - 7
    BY <1>2
  <2>3. Drop(saved, 7)[1] = saved[1]
    BY <1>2, <2>2, DropLemma, Zenon
  <2> QED BY <1>2, <2>1, <2>3
<1> HIDE DEF rest
<1>5. s \in Seq(Int) /\ Len(s) = 12 /\ \A i \in 1 .. 12 : s[i] = ustk[i]
  <2>1. 12 \in Nat /\ 12 <= Len(ustk) /\ s = SubSeq(ustk, 1, 12)
    BY <1>1, <1>4 DEF UserFrame
  <2> HIDE DEF s
  <2> QED BY <1>1, <2>1, Top, Zenon
<1> HIDE DEF s
<1>6. /\ s[1] = Args[3] /\ s[2] = Args[2] /\ s[3] = Args[1] /\ s[4] = RETURN
      /\ s[5] = history.regs.ebp /\ s[6] = history.regs.ebx
      /\ s[7] = history.regs.esi /\ s[8] = history.regs.edi
  BY <1>1, <1>5 DEF UserFrame
<1>7. /\ r1 \in [Reg -> Int] /\ r1["eax"] = r["eax"] /\ r1["ebx"] = s[6]
      /\ r1["esi"] = s[7] /\ r1["edi"] = s[8]
  BY <1>3, <1>5, EpiloguePops
<1> HIDE DEF r1
<1>8. s1 \in Seq(Int) /\ Len(s1) = 5 /\ \A i \in 1 .. 5 : s1[i] = s[i]
  <2>1. 7 \in Nat /\ 7 <= Len(s) /\ Len(s) - 7 = 5
    BY <1>5
  <2>2. /\ Drop(s, 7) \in Seq(Int) /\ Len(Drop(s, 7)) = Len(s) - 7
        /\ \A i \in 1 .. Len(s) - 7 : Drop(s, 7)[i] = s[i]
    BY <1>5, <2>1, DropLemma, Zenon
  <2> QED BY <2>1, <2>2
<1> HIDE DEF s1
<1>9. Last(s1) = s[5] /\ s[5] \in Int
  <2>1. 5 \in 1 .. Len(s) /\ Last(s1) = s1[5]
    BY <1>5, <1>8 DEF Last
  <2>2. s[5] \in Int
    BY <1>5, <2>1, ElementOfSeq, Zenon
  <2> QED BY <1>8, <2>1, <2>2
<1>10. Front(s1) = <<s[1], s[2], s[3], s[4]>> /\ Front(s1) \in Seq(Int)
  <2>1. Front(s1) = SubSeq(s1, 1, 4)
    BY <1>8 DEF Front
  <2> DEFINE f == SubSeq(s1, 1, 4)
  <2>2. f \in Seq(Int) /\ Len(f) = 4 /\ \A i \in 1 .. 4 : f[i] = s[i]
    <3>1. 4 \in Nat /\ 4 <= Len(s1)
      BY <1>8
    <3>2. /\ SubSeq(s1, 1, 4) \in Seq(Int) /\ Len(SubSeq(s1, 1, 4)) = 4
          /\ \A i \in 1 .. 4 : SubSeq(s1, 1, 4)[i] = s1[i]
      BY <1>8, <3>1, Top, Zenon
    <3> HIDE DEF f
    <3> QED BY <1>8, <3>2 DEF f
  <2> HIDE DEF f
  <2>3. f = <<s[1], s[2], s[3], s[4]>>
    BY <2>2
  <2> QED BY <2>1, <2>2, <2>3 DEF f
<1>11. /\ regs' \in [Reg -> Int] /\ regs'["ebp"] = s[5] /\ regs'["ebx"] = s[6]
       /\ regs'["esi"] = s[7] /\ regs'["edi"] = s[8]
       /\ regs'["eax"] = IF ok THEN r["eax"] ELSE -1
  <2> DEFINE q == [r1 EXCEPT !["eax"] = IF ok THEN r["eax"] ELSE -1]
  <2>1. /\ "eax" \in Reg /\ "ebx" \in Reg /\ "esi" \in Reg /\ "edi" \in Reg
        /\ "ebp" \in Reg /\ r["eax"] \in Int
    BY <1>3, RegTypes DEF Reg
  <2> HIDE DEF ok
  <2>2. /\ q \in [Reg -> Int] /\ q["ebx"] = s[6] /\ q["esi"] = s[7]
        /\ q["edi"] = s[8] /\ q["eax"] = IF ok THEN r["eax"] ELSE -1
    BY <1>7, <2>1
  <2>3. regs' = [q EXCEPT !["ebp"] = s[5]]
    BY <1>1, <1>9
  <2> HIDE DEF q
  <2> QED BY <1>9, <2>1, <2>2, <2>3
<1>12. \A x \in Saved : regs'[x] = history.regs[x]
  BY <1>6, <1>11 DEF Saved
<1>13. history.result \in Int /\ errno' \in Int
  BY <1>1, <1>3 DEF History
<1>14. IF history.result < 0 THEN regs'["eax"] = -1 /\ errno' = - history.result
       ELSE regs'["eax"] = history.result /\ errno' = history.errno
  <2>1. r["eax"] = history.result /\ errno = history.errno
    BY <1>1, <1>3
  <2>2. /\ errno' = IF ok THEN errno ELSE - r["eax"]
        /\ regs'["eax"] = IF ok THEN r["eax"] ELSE -1
    BY <1>1, <1>11
  <2>3. ok <=> history.result >= 0
    BY <2>1
  <2> HIDE DEF ok, r
  <2> QED BY <1>13, <2>1, <2>2, <2>3
<1> QED BY <1>1, <1>6, <1>10, <1>11, <1>12, <1>13, <1>14
        DEF Now, View, Places, InUser

LEMMA Resumes ==
  ASSUME Now, NEW v \in Loads, resume(v)
  PROVE  Now' /\ routine' \in Routines
<1>1. v \in Int
  BY SyscallAssumption
<1>2. UserRegs(v) \in [Reg -> Int] /\ UserRegs(0) \in [Reg -> Int]
  BY <1>1 DEF UserRegs, Reg, Junk
<1>3. NoCall \in History
  BY <1>2 DEF NoCall, History
<1>4. kstk' = <<>> /\ errno' \in Int /\ ustk' = <<>>
  BY DEF Now, View, resume, InUser
<1>5. ni \in Routines
  <2>1. ni = sys_call_table(0) /\ MAX_SYSCALL = 23
    BY DEF sys_call_table, table, MAX_SYSCALL
  <2> QED BY <2>1 DEF Routines
<1> QED BY <1>2, <1>3, <1>4, <1>5 DEF Now, View, Places, InUser, resume

LEMMA Steps ==
  ASSUME Now, routine \in Routines, Step
  PROVE  Now' /\ routine' \in Routines
<1>1. CASE \E w \in DOMAIN Wrapper : user_call(w)
  BY <1>1, WrapperCalls DEF user_call
<1>2. CASE \E nr \in RawCalls : raw_call(nr)
  BY <1>2, ProgramCalls DEF raw_call
<1>3. CASE interrupt
  BY <1>3, Interrupts DEF interrupt
<1>4. CASE sys_call_handler_sysenter
  BY <1>4, HandlerEnters
<1>5. CASE \E res \in ResultsOf(routine) : routine_returns(res)
  BY <1>5, RoutineReturns DEF routine_returns
<1>6. CASE sysenter_return_code
  BY <1>6, CallReturns DEF sysenter_return_code
<1>7. CASE \E v \in Loads : resume(v)
  BY <1>7, Resumes
<1>8. CASE wild
  BY <1>8 DEF wild, vars, Now
<1> QED BY <1>1, <1>2, <1>3, <1>4, <1>5, <1>6, <1>7, <1>8 DEF Step

-----------------------------------------------------------------------------
(* Leaving the processor.                                                  *)

LEMMA KernelRegsType ==
  ASSUME NEW p \in Int
  PROVE  /\ KernelRegs(p) \in [Reg -> Int]
         /\ Keep(KernelRegs(p)) \in [Saved -> Int]
         /\ \A x \in Saved : Keep(KernelRegs(p))[x] = KernelRegs(p)[x]
<1>1. \A x \in Reg : (CASE x = "ebx" -> 610 + p [] x = "esi" -> 620 + p
                        [] x = "edi" -> 630 + p [] x = "ebp" -> 640 + p
                        [] OTHER -> Junk) \in Int
  BY DEF Reg, Junk
<1>2. KernelRegs(p) \in [Reg -> Int]
  BY <1>1 DEF KernelRegs
<1>3. Saved \subseteq Reg
  BY DEF Saved, Reg
<1> QED BY <1>2, <1>3 DEF Keep

(* The stack that a process leaves behind in task_switch.                  *)
LEMMA ThreeFrames ==
  ASSUME NEW k \in Seq(Int), NEW f \in Seq(Int), NEW g \in Seq(Int),
         Len(k) = 9, Len(f) = 5, Len(g) = 8
  PROVE  LET u == (k \o f) \o g
         IN  /\ u \in Seq(Int) /\ Len(u) = 22 /\ SubSeq(u, 1, 9) = k
             /\ u[2] = k[2] /\ u[10] = f[1] /\ u[16] = g[2] /\ u[17] = g[3]
             /\ u[18] = g[4] /\ u[19] = g[5] /\ u[21] = g[7]
<1> DEFINE h == k \o f
           u == h \o g
<1>1. /\ h \in Seq(Int) /\ Len(h) = Len(k) + Len(f)
      /\ \A i \in 1 .. Len(k) : h[i] = k[i]
      /\ \A i \in 1 .. Len(f) : h[Len(k) + i] = f[i]
  BY Push
<1> HIDE DEF h
<1>2. Len(h) = 14 /\ h[9 + 1] = f[1] /\ \A i \in 1 .. 9 : h[i] = k[i]
  BY <1>1
<1>3. h[10] = f[1]
  BY <1>2
<1>4. /\ u \in Seq(Int) /\ Len(u) = Len(h) + Len(g)
      /\ \A i \in 1 .. Len(h) : u[i] = h[i]
      /\ \A i \in 1 .. Len(g) : u[Len(h) + i] = g[i]
  BY <1>1, Push
<1> HIDE DEF u
<1>5. /\ Len(u) = 22 /\ \A i \in 1 .. 14 : u[i] = h[i]
      /\ u[14 + 2] = g[2] /\ u[14 + 3] = g[3] /\ u[14 + 4] = g[4]
      /\ u[14 + 5] = g[5] /\ u[14 + 7] = g[7]
  BY <1>2, <1>4
<1>6. /\ u[16] = g[2] /\ u[17] = g[3] /\ u[18] = g[4] /\ u[19] = g[5]
      /\ u[21] = g[7] /\ u[10] = f[1]
  <2>1. u[10] = h[10]
    BY <1>5
  <2>2. u[16] = g[2] /\ u[17] = g[3] /\ u[18] = g[4] /\ u[19] = g[5] /\ u[21] = g[7]
    BY <1>5
  <2> QED BY <1>3, <2>1, <2>2
<1>7. \A i \in 1 .. 9 : u[i] = k[i]
  <2>1. \A i \in 1 .. 9 : i \in 1 .. 14
    OBVIOUS
  <2> QED BY <1>2, <1>5, <2>1
<1>8. SubSeq(u, 1, 9) = k
  <2> DEFINE b == SubSeq(u, 1, 9)
  <2>1. 9 \in Nat /\ 9 <= Len(u)
    BY <1>5
  <2>2. b \in Seq(Int) /\ Len(b) = 9 /\ \A i \in 1 .. 9 : b[i] = u[i]
    BY <1>4, <2>1, Top, Zenon
  <2> HIDE DEF b
  <2>3. \A i \in 1 .. Len(b) : b[i] = k[i]
    BY <1>7, <2>2
  <2>4. b = k
    BY <2>2, <2>3, SeqEqual
  <2> QED BY <2>4 DEF b
<1>9. u[2] = k[2]
  BY <1>7
<1>10. /\ u \in Seq(Int) /\ Len(u) = 22 /\ SubSeq(u, 1, 9) = k
       /\ u[2] = k[2] /\ u[10] = f[1] /\ u[16] = g[2] /\ u[17] = g[3]
       /\ u[18] = g[4] /\ u[19] = g[5] /\ u[21] = g[7]
  BY <1>4, <1>5, <1>6, <1>8, <1>9, Zenon
<1> QED BY <1>10 DEF u, h

LEMMA LeavingStack ==
  ASSUME NEW k \in Seq(Int), Len(k) = 9, NEW handler \in Int,
         regs \in [Reg -> Int], current \in Int
  PROVE  LET u == Leaving(k, handler)
             r == KernelRegs(current)
         IN  /\ u \in Seq(Int) /\ Len(u) = 22 /\ SubSeq(u, 1, 9) = k
             /\ u[2] = k[2] /\ u[10] = handler /\ u[21] = AFTER_INNER
             /\ u[16] = r["ebp"] /\ u[17] = r["esi"] /\ u[18] = r["edi"]
             /\ u[19] = r["ebx"]
<1> DEFINE r == KernelRegs(current)
           f == KernelFrame(handler, regs)
           g == SwitchFrame(r)
           u == Leaving(k, handler)
<1>1. r \in [Reg -> Int]
  BY KernelRegsType
<1> HIDE DEF r
<1>2. f \in Seq(Int) /\ Len(f) = 5 /\ f[1] = handler
  <2>1. /\ regs["ebp"] \in Int /\ regs["ebx"] \in Int /\ regs["esi"] \in Int
        /\ regs["edi"] \in Int
    BY RegTypes
  <2> QED BY <2>1 DEF KernelFrame
<1>3. /\ g \in Seq(Int) /\ Len(g) = 8 /\ g[2] = r["ebp"] /\ g[3] = r["esi"]
      /\ g[4] = r["edi"] /\ g[5] = r["ebx"] /\ g[7] = AFTER_INNER
  <2>1. /\ r["ebp"] \in Int /\ r["ebx"] \in Int /\ r["esi"] \in Int
        /\ r["edi"] \in Int
    BY <1>1, RegTypes
  <2>2. IN_KERNEL \in Int /\ Junk \in Int /\ AFTER_INNER \in Int
    BY DEF IN_KERNEL, Junk, AFTER_INNER
  <2> QED BY <2>1, <2>2 DEF SwitchFrame
<1> HIDE DEF f, g
<1>4. u = (k \o f) \o g
  BY DEF Leaving, r, f, g
<1> HIDE DEF u
<1>5. /\ u \in Seq(Int) /\ Len(u) = 22 /\ SubSeq(u, 1, 9) = k
      /\ u[2] = k[2] /\ u[10] = f[1] /\ u[16] = g[2] /\ u[17] = g[3]
      /\ u[18] = g[4] /\ u[19] = g[5] /\ u[21] = g[7]
  <2> DEFINE w == (k \o f) \o g
  <2>1. f \in Seq(Int) /\ Len(f) = 5 /\ g \in Seq(Int) /\ Len(g) = 8
    BY <1>2, <1>3
  <2>2. /\ w \in Seq(Int) /\ Len(w) = 22 /\ SubSeq(w, 1, 9) = k
        /\ w[2] = k[2] /\ w[10] = f[1] /\ w[16] = g[2] /\ w[17] = g[3]
        /\ w[18] = g[4] /\ w[19] = g[5] /\ w[21] = g[7]
    BY <2>1, ThreeFrames
  <2> QED BY <1>4, <2>2
<1>6. /\ u \in Seq(Int) /\ Len(u) = 22 /\ SubSeq(u, 1, 9) = k
      /\ u[2] = k[2] /\ u[10] = handler /\ u[21] = AFTER_INNER
      /\ u[16] = r["ebp"] /\ u[17] = r["esi"] /\ u[18] = r["edi"]
      /\ u[19] = r["ebx"]
  BY <1>2, <1>3, <1>5
<1> QED BY <1>6 DEF u, r

(* Addresses tell the places of user mode apart.                           *)
LEMMA Addresses ==
  /\ DOMAIN Address = InUser
  /\ \A at \in InUser : Address[at] \in Int /\ PlaceOf(Address[at]) = at
<1>1. DOMAIN Address = InUser
  BY DEF Address, InUser
<1>2. /\ Address["user"] = 410 /\ Address["sysenter"] = 411
      /\ Address["returned"] = 412 /\ Address["idle"] = 413
  BY DEF Address
<1>3. ASSUME NEW at \in InUser
      PROVE  Address[at] \in Int /\ PlaceOf(Address[at]) = at
  <2>1. \A x \in InUser : Address[x] = Address[at] => x = at
    BY <1>2 DEF InUser
  <2>2. PlaceOf(Address[at]) = CHOOSE x \in InUser : Address[x] = Address[at]
    BY <1>1 DEF PlaceOf
  <2> QED BY <1>2, <2>1, <2>2 DEF InUser
<1> QED BY <1>1, <1>3

LEMMA KeptRecord ==
  ASSUME Now, routine \in Routines, NEW k \in Seq(Int), NEW h \in History,
         NEW was \in [Saved -> Int]
  PROVE  LET t == Kept(k, h, was)
         IN  /\ t \in KeptType /\ t.kstk = k /\ t.kernel_esp0 = Len(k)
             /\ t.ustk = ustk /\ t.errno = errno /\ t.routine = routine
             /\ t.history = h /\ t.was = was
<1>1. Len(k) \in Nat /\ ustk \in Seq(Int) /\ errno \in Int
  BY LenProperties DEF Now, View
<1> QED BY <1>1 DEF Kept, KeptType

(* What task_switch has saved is what it will restore.                     *)
LEMMA Suspended ==
  ASSUME NEW k \in Seq(Int), Len(k) = 9, NEW handler \in Int,
         regs \in [Reg -> Int], current \in Int
  PROVE  LET u == Leaving(k, handler)
         IN  /\ u \in Seq(Int) /\ SubSeq(u, 1, 9) = k /\ u[2] = k[2]
             /\ u[10] = handler /\ InTaskSwitch(u, Keep(KernelRegs(current)))
<1> DEFINE u == Leaving(k, handler)
           r == KernelRegs(current)
<1>1. /\ u \in Seq(Int) /\ Len(u) = 22 /\ SubSeq(u, 1, 9) = k
      /\ u[2] = k[2] /\ u[10] = handler /\ u[21] = AFTER_INNER
      /\ u[16] = r["ebp"] /\ u[17] = r["esi"] /\ u[18] = r["edi"]
      /\ u[19] = r["ebx"]
  BY LeavingStack
<1> HIDE DEF u, r
<1>2. Keep(r) = [x \in Saved |-> u[CASE x = "ebx" -> 19 [] x = "esi" -> 17
                                      [] x = "edi" -> 18 [] x = "ebp" -> 16]]
  <2>1. \A x \in Saved : r[x] = u[CASE x = "ebx" -> 19 [] x = "esi" -> 17
                                      [] x = "edi" -> 18 [] x = "ebp" -> 16]
    BY <1>1 DEF Saved
  <2> QED BY <2>1 DEF Keep
<1>3. InTaskSwitch(u, Keep(r))
  BY <1>1, <1>2 DEF InTaskSwitch
<1> QED BY <1>1, <1>3 DEF u, r

LEMMA LeavesByClock ==
  ASSUME Now, routine \in Routines, current \in Int, pc \in DOMAIN Address
  PROVE  LET old == IF pc = "idle" THEN kstk ELSE <<>>
             k   == old \o <<Len(ustk), Address[pc]>> \o SAVE_ALL(regs)
             t   == Kept(Leaving(k, CLK_HANDLER), history,
                         Keep(KernelRegs(current)))
         IN  t \in KeptType /\ Waits(t)
<1> DEFINE old == IF pc = "idle" THEN kstk ELSE <<>>
           two == <<Len(ustk), Address[pc]>>
           k   == old \o two \o SAVE_ALL(regs)
           t   == Kept(Leaving(k, CLK_HANDLER), history, Keep(KernelRegs(current)))
<1>1. /\ pc \in InUser /\ kstk = <<>> /\ regs \in [Reg -> Int]
      /\ history \in History /\ Address[pc] \in Int /\ Len(ustk) \in Int
  BY Addresses, LenProperties DEF Now, View
<1>2. two \in Seq(Int) /\ Len(two) = 2 /\ two[2] = Address[pc]
  BY <1>1
<1>3. old = <<>>
  BY <1>1
<1> HIDE DEF old, two
<1>4. k = two \o SAVE_ALL(regs)
  BY <1>2, <1>3, ConcatEmptySeq
<1> HIDE DEF k
<1>5. /\ k \in Seq(Int) /\ Len(k) = 9 /\ k[2] = Address[pc]
      /\ RESTORE_ALL(k) = regs
  BY <1>1, <1>2, <1>4, Context
<1>6. CLK_HANDLER \in Int /\ Keep(KernelRegs(current)) \in [Saved -> Int]
  BY KernelRegsType DEF CLK_HANDLER
<1> DEFINE u == Leaving(k, CLK_HANDLER)
<1>7. /\ u \in Seq(Int) /\ SubSeq(u, 1, 9) = k /\ u[2] = k[2]
      /\ u[10] = CLK_HANDLER /\ InTaskSwitch(u, Keep(KernelRegs(current)))
  BY <1>1, <1>5, <1>6, Suspended
<1> HIDE DEF u
<1>8. /\ t \in KeptType /\ t.kstk = u
      /\ t.kernel_esp0 = Len(t.kstk)
      /\ t.ustk = ustk /\ t.errno = errno /\ t.routine = routine
      /\ t.history = history /\ t.was = Keep(KernelRegs(current))
  <2>1. t = Kept(u, history, Keep(KernelRegs(current)))
    BY DEF u
  <2> HIDE DEF t
  <2>2. /\ u \in Seq(Int) /\ history \in History
        /\ Keep(KernelRegs(current)) \in [Saved -> Int]
    BY <1>1, <1>6, <1>7
  <2> DEFINE v == Kept(u, history, Keep(KernelRegs(current)))
  <2>3. /\ v \in KeptType /\ v.kstk = u /\ v.kernel_esp0 = Len(u)
        /\ v.ustk = ustk /\ v.errno = errno /\ v.routine = routine
        /\ v.history = history /\ v.was = Keep(KernelRegs(current))
    BY <2>2, KeptRecord
  <2> HIDE DEF v
  <2> QED BY <2>1, <2>3 DEF v
<1> HIDE DEF t
<1>9. /\ InTaskSwitch(t.kstk, t.was) /\ t.kstk[10] = CLK_HANDLER /\ SubSeq(t.kstk, 1, 9) = k
      /\ t.kstk[2] = Address[pc]
  BY <1>5, <1>7, <1>8
<1>10. View(pc, regs, t.ustk, <<>>, t.errno, t.routine, t.history)
  BY <1>1, <1>8 DEF Now
<1>11. Preempted(t)
  BY <1>1, <1>5, <1>9, <1>10 DEF Preempted
<1>12. t \in KeptType /\ Waits(t)
  BY <1>8, <1>11 DEF Waits
<1> QED BY <1>12 DEF t, k, two, old

LEMMA LeavesByBlock ==
  ASSUME Now, routine \in Routines, current \in Int, pc = "routine"
  PROVE  LET t == Kept(Leaving(kstk, SYS_HANDLER), history,
                       Keep(KernelRegs(current)))
         IN  t \in KeptType /\ Waits(t)
<1> DEFINE t == Kept(Leaving(kstk, SYS_HANDLER), history,
                     Keep(KernelRegs(current)))
<1>1. /\ CallFrame(kstk) /\ kstk \in Seq(Int) /\ Len(kstk) = 9
      /\ regs \in [Reg -> Int] /\ history \in History /\ history.result = 0
      /\ UserFrame(ustk, history) /\ errno = history.errno
  BY DEF Now, View, CallFrame
<1>2. SYS_HANDLER \in Int /\ Keep(KernelRegs(current)) \in [Saved -> Int]
  BY KernelRegsType DEF SYS_HANDLER
<1> DEFINE u == Leaving(kstk, SYS_HANDLER)
<1>3. /\ u \in Seq(Int) /\ SubSeq(u, 1, 9) = kstk
      /\ u[10] = SYS_HANDLER /\ InTaskSwitch(u, Keep(KernelRegs(current)))
  BY <1>1, <1>2, Suspended
<1> HIDE DEF u
<1>4. /\ t \in KeptType /\ t.kstk = u
      /\ t.kernel_esp0 = Len(t.kstk)
      /\ t.ustk = ustk /\ t.errno = errno
      /\ t.history = history /\ t.was = Keep(KernelRegs(current))
  <2>1. t = Kept(u, history, Keep(KernelRegs(current)))
    BY DEF u
  <2> HIDE DEF t
  <2>2. /\ u \in Seq(Int) /\ history \in History
        /\ Keep(KernelRegs(current)) \in [Saved -> Int]
    BY <1>1, <1>2, <1>3
  <2> DEFINE v == Kept(u, history, Keep(KernelRegs(current)))
  <2>3. /\ v \in KeptType /\ v.kstk = u /\ v.kernel_esp0 = Len(u)
        /\ v.ustk = ustk /\ v.errno = errno /\ v.routine = routine
        /\ v.history = history /\ v.was = Keep(KernelRegs(current))
    BY <2>2, KeptRecord
  <2> HIDE DEF v
  <2> QED BY <2>1, <2>3 DEF v
<1> HIDE DEF t
<1>5. /\ InTaskSwitch(t.kstk, t.was) /\ t.kstk[10] = SYS_HANDLER
      /\ SubSeq(t.kstk, 1, 9) = kstk
  BY <1>3, <1>4
<1>6. Blocked(t)
  BY <1>1, <1>4, <1>5 DEF Blocked, InCall
<1>7. t \in KeptType /\ Waits(t)
  BY <1>4, <1>6 DEF Waits
<1> QED BY <1>7 DEF t

-----------------------------------------------------------------------------
(* Getting the processor back.                                             *)

(* What task_switch pops, and the C functions that called it.              *)
LEMMA SwitchPops ==
  ASSUME NEW r \in [Reg -> Int], NEW s \in Seq(Int), Len(s) = 20
  PROVE  LET v == PopInto(r, s, TaskSwitchPops)
         IN  /\ v \in [Reg -> Int] /\ v["ebx"] = s[19] /\ v["edi"] = s[18]
             /\ v["esi"] = s[17] /\ v["ebp"] = s[16]
<1> DEFINE R == TaskSwitchPops
           v == PopInto(r, s, R)
<1>0. \A i \in 1 .. 20 : s[i] \in Int
  BY ElementOfSeq
<1>1. /\ DOMAIN R = 1 .. 5 /\ R[1] = "ebx" /\ R[2] = "ebx" /\ R[3] = "edi"
      /\ R[4] = "esi" /\ R[5] = "ebp"
  BY DEF TaskSwitchPops
<1> HIDE DEF R
<1>2. \A i \in 2 .. 5 : R[i] \in Reg /\ v[R[i]] = s[Len(s) + 1 - i]
  <2> SUFFICES ASSUME NEW i \in 2 .. 5
               PROVE  R[i] \in Reg /\ v[R[i]] = s[Len(s) + 1 - i]
    OBVIOUS
  <2>1. R[i] \in Reg /\ \A j \in DOMAIN R : R[j] = R[i] => j <= i
    BY <1>1 DEF Reg
  <2>2. DOMAIN R \subseteq Int /\ i \in DOMAIN R
    BY <1>1
  <2>3. PopInto(r, s, R)[R[i]] = s[Len(s) + 1 - i]
    BY <2>1, <2>2, Popped, ZenonT(60)
  <2> QED BY <2>1, <2>3
<1>3. v["eax"] \in Int /\ v["ecx"] \in Int /\ v["edx"] \in Int
  <2>1. \A x \in Reg : (\A j \in DOMAIN R : R[j] # x) => v[x] = r[x]
    <3> SUFFICES ASSUME NEW x \in Reg, \A j \in DOMAIN R : R[j] # x
                 PROVE  PopInto(r, s, R)[x] = r[x]
      OBVIOUS
    <3> QED BY NotPopped, ZenonT(60)
  <2>2. "eax" \in Reg /\ "ecx" \in Reg /\ "edx" \in Reg
    BY DEF Reg
  <2>3. \A j \in DOMAIN R : R[j] # "eax" /\ R[j] # "ecx" /\ R[j] # "edx"
    BY <1>1
  <2>4. v["eax"] = r["eax"] /\ v["ecx"] = r["ecx"] /\ v["edx"] = r["edx"]
    BY <2>1, <2>2, <2>3, Zenon
  <2> QED BY <2>2, <2>4
<1>4. v = [x \in Reg |-> v[x]]
  BY DEF PopInto
<1> HIDE DEF v
<1>5. /\ v["ebx"] = s[Len(s) + 1 - 2] /\ v["edi"] = s[Len(s) + 1 - 3]
      /\ v["esi"] = s[Len(s) + 1 - 4] /\ v["ebp"] = s[Len(s) + 1 - 5]
  BY <1>1, <1>2
<1>6. /\ v["ebx"] = s[19] /\ v["edi"] = s[18] /\ v["esi"] = s[17]
      /\ v["ebp"] = s[16]
  <2>1. /\ Len(s) + 1 - 2 = 19 /\ Len(s) + 1 - 3 = 18 /\ Len(s) + 1 - 4 = 17
        /\ Len(s) + 1 - 5 = 16
    OBVIOUS
  <2> QED BY <1>5, <2>1
<1>7. \A x \in Reg : v[x] \in Int
  <2>1. s[19] \in Int /\ s[18] \in Int /\ s[17] \in Int /\ s[16] \in Int
    BY <1>0
  <2> QED BY <1>3, <1>6, <2>1 DEF Reg
<1> QED BY <1>4, <1>6, <1>7 DEF v, R

LEMMA FunctionPops ==
  ASSUME NEW r \in [Reg -> Int], NEW s \in Seq(Int), Len(s) = 14
  PROVE  PopInto(r, s, KernelPops) \in [Reg -> Int]
<1> DEFINE R == KernelPops
           v == PopInto(r, s, R)
<1>1. /\ DOMAIN R = 1 .. 4 /\ R[1] = "edi" /\ R[2] = "esi" /\ R[3] = "ebx"
      /\ R[4] = "ebp"
  BY DEF KernelPops
<1> HIDE DEF R
<1>2. \A i \in 1 .. 4 : v[R[i]] \in Int
  <2> SUFFICES ASSUME NEW i \in 1 .. 4 PROVE v[R[i]] \in Int
    OBVIOUS
  <2>1. R[i] \in Reg /\ \A j \in DOMAIN R : R[j] = R[i] => j <= i
    BY <1>1 DEF Reg
  <2>2. DOMAIN R \subseteq Int /\ i \in DOMAIN R /\ Len(s) + 1 - i \in 1 .. Len(s)
    BY <1>1
  <2>3. PopInto(r, s, R)[R[i]] = s[Len(s) + 1 - i]
    BY <2>1, <2>2, Popped, ZenonT(60)
  <2> QED BY <2>2, <2>3, ElementOfSeq
<1>3. v["eax"] \in Int /\ v["ecx"] \in Int /\ v["edx"] \in Int
  <2>1. \A x \in Reg : (\A j \in DOMAIN R : R[j] # x) => v[x] = r[x]
    <3> SUFFICES ASSUME NEW x \in Reg, \A j \in DOMAIN R : R[j] # x
                 PROVE  PopInto(r, s, R)[x] = r[x]
      OBVIOUS
    <3> QED BY NotPopped, ZenonT(60)
  <2>2. "eax" \in Reg /\ "ecx" \in Reg /\ "edx" \in Reg
    BY DEF Reg
  <2>3. \A j \in DOMAIN R : R[j] # "eax" /\ R[j] # "ecx" /\ R[j] # "edx"
    BY <1>1
  <2>4. v["eax"] = r["eax"] /\ v["ecx"] = r["ecx"] /\ v["edx"] = r["edx"]
    BY <2>1, <2>2, <2>3, Zenon
  <2> QED BY <2>2, <2>4
<1>4. v = [x \in Reg |-> v[x]]
  BY DEF PopInto
<1> HIDE DEF v
<1>5. \A x \in Reg : v[x] \in Int
  <2>1. /\ v["edi"] \in Int /\ v["esi"] \in Int /\ v["ebx"] \in Int
        /\ v["ebp"] \in Int
    BY <1>1, <1>2
  <2> QED BY <1>3, <2>1 DEF Reg
<1> QED BY <1>4, <1>5 DEF v, R

(* task_switch finds in its frames what Waits says is there.               *)
LEMMA Unwound ==
  ASSUME NEW k \in Seq(Int), NEW was, InTaskSwitch(k, was), current \in Int
  PROVE  LET s1 == Drop(SubSeq(k, 1, Len(k)), 2)
             r1 == PopInto(KernelRegs(current), s1, TaskSwitchPops)
             s2 == Drop(s1, 6)
             r2 == PopInto(r1, s2, KernelPops)
             s3 == Drop(s2, 5)
             s4 == Drop(s3, 7)
         IN  /\ Keep(r1) = was /\ r2 \in [Reg -> Int]
             /\ s3 = SubSeq(k, 1, 9) /\ s2[Len(s2) - 4] = k[10]
             /\ Last(s4) = k[2] /\ Drop(s4, 2) = <<>>
<1> DEFINE s  == SubSeq(k, 1, Len(k))
           s1 == Drop(s, 2)
           r1 == PopInto(KernelRegs(current), s1, TaskSwitchPops)
           s2 == Drop(s1, 6)
           r2 == PopInto(r1, s2, KernelPops)
           s3 == Drop(s2, 5)
           s4 == Drop(s3, 7)
<1>0. Len(k) = 22 /\ Len(k) \in Nat /\ Len(k) <= Len(k)
  BY DEF InTaskSwitch
<1>1. s \in Seq(Int) /\ Len(s) = 22 /\ \A i \in 1 .. 22 : s[i] = k[i]
  <2>1. /\ SubSeq(k, 1, Len(k)) \in Seq(Int) /\ Len(SubSeq(k, 1, Len(k))) = Len(k)
        /\ \A i \in 1 .. Len(k) : SubSeq(k, 1, Len(k))[i] = k[i]
    BY <1>0, Top, Zenon
  <2> HIDE DEF s
  <2> QED BY <1>0, <2>1 DEF s
<1> HIDE DEF s
<1>2. s1 \in Seq(Int) /\ Len(s1) = 20 /\ \A i \in 1 .. 20 : s1[i] = k[i]
  <2>1. 2 \in Nat /\ 2 <= Len(s) /\ Len(s) - 2 = 20 /\ \A i \in 1 .. 20 : i \in 1 .. 22
    BY <1>1
  <2>2. s1 \in Seq(Int) /\ Len(s1) = Len(s) - 2 /\ \A i \in 1 .. Len(s) - 2 : s1[i] = s[i]
    BY <1>1, <2>1, DropLemma, Zenon
  <2> HIDE DEF s1
  <2> QED BY <1>1, <2>1, <2>2
<1> HIDE DEF s1
<1>3. s2 \in Seq(Int) /\ Len(s2) = 14 /\ \A i \in 1 .. 14 : s2[i] = k[i]
  <2>1. 6 \in Nat /\ 6 <= Len(s1) /\ Len(s1) - 6 = 14 /\ \A i \in 1 .. 14 : i \in 1 .. 20
    BY <1>2
  <2>2. s2 \in Seq(Int) /\ Len(s2) = Len(s1) - 6 /\ \A i \in 1 .. Len(s1) - 6 : s2[i] = s1[i]
    BY <1>2, <2>1, DropLemma, Zenon
  <2> HIDE DEF s2
  <2> QED BY <1>2, <2>1, <2>2
<1> HIDE DEF s2
<1>4. s3 \in Seq(Int) /\ Len(s3) = 9 /\ \A i \in 1 .. 9 : s3[i] = k[i]
  <2>1. 5 \in Nat /\ 5 <= Len(s2) /\ Len(s2) - 5 = 9 /\ \A i \in 1 .. 9 : i \in 1 .. 14
    BY <1>3
  <2>2. s3 \in Seq(Int) /\ Len(s3) = Len(s2) - 5 /\ \A i \in 1 .. Len(s2) - 5 : s3[i] = s2[i]
    BY <1>3, <2>1, DropLemma, Zenon
  <2> HIDE DEF s3
  <2> QED BY <1>3, <2>1, <2>2
<1> HIDE DEF s3
<1>5. s4 \in Seq(Int) /\ Len(s4) = 2 /\ s4[2] = k[2]
  <2>1. 7 \in Nat /\ 7 <= Len(s3) /\ Len(s3) - 7 = 2 /\ 2 \in 1 .. 2 /\ 2 \in 1 .. 9
    BY <1>4
  <2>2. s4 \in Seq(Int) /\ Len(s4) = Len(s3) - 7 /\ \A i \in 1 .. Len(s3) - 7 : s4[i] = s3[i]
    BY <1>4, <2>1, DropLemma, Zenon
  <2> HIDE DEF s4
  <2>3. s4[2] = s3[2] /\ s3[2] = k[2]
    BY <1>4, <2>1, <2>2
  <2> QED BY <2>1, <2>2, <2>3
<1> HIDE DEF s4
<1>6. Last(s4) = k[2]
  BY <1>5 DEF Last
<1>7. Drop(s4, 2) = <<>>
  <2>1. 2 \in Nat /\ 2 <= Len(s4) /\ Len(s4) - 2 = 0
    BY <1>5
  <2>2. Drop(s4, 2) \in Seq(Int) /\ Len(Drop(s4, 2)) = Len(s4) - 2
    BY <1>5, <2>1, DropLemma, Zenon
  <2> QED BY <2>1, <2>2, EmptySeq
<1>8. s3 = SubSeq(k, 1, 9)
  <2>1. 9 \in Nat /\ 9 <= Len(k)
    BY <1>0
  <2>2. /\ SubSeq(k, 1, 9) \in Seq(Int) /\ Len(SubSeq(k, 1, 9)) = 9
        /\ \A i \in 1 .. 9 : SubSeq(k, 1, 9)[i] = k[i]
    BY <2>1, Top, Zenon
  <2> DEFINE b == SubSeq(k, 1, 9)
  <2> HIDE DEF b
  <2>3. Len(s3) = Len(b) /\ b \in Seq(Int) /\ \A i \in 1 .. Len(s3) : s3[i] = b[i]
    BY <1>4, <2>2 DEF b
  <2>4. s3 = b
    BY <1>4, <2>3, SeqEqual
  <2> QED BY <2>4 DEF b
<1>9. s2[Len(s2) - 4] = k[10]
  <2>1. Len(s2) - 4 = 10 /\ 10 \in 1 .. 14
    BY <1>3
  <2> QED BY <1>3, <2>1
<1>10. /\ r1 \in [Reg -> Int] /\ r1["ebx"] = s1[19] /\ r1["edi"] = s1[18]
       /\ r1["esi"] = s1[17] /\ r1["ebp"] = s1[16]
  BY <1>2, KernelRegsType, SwitchPops
<1> HIDE DEF r1
<1>11. r2 \in [Reg -> Int]
  BY <1>3, <1>10, FunctionPops
<1>12. Keep(r1) = was
  <2>1. s1[19] = k[19] /\ s1[18] = k[18] /\ s1[17] = k[17] /\ s1[16] = k[16]
    BY <1>2
  <2>2. \A x \in Saved : r1[x] = k[CASE x = "ebx" -> 19 [] x = "esi" -> 17
                                       [] x = "edi" -> 18 [] x = "ebp" -> 16]
    BY <1>10, <2>1 DEF Saved
  <2> QED BY <2>2 DEF Keep, InTaskSwitch
<1> QED BY <1>6, <1>7, <1>8, <1>9, <1>11, <1>12 DEF s, s1, s2, s3, s4, r1

Machine == tss = current /\ msr = current /\ cr3 = current

LEMMA Enters ==
  ASSUME NEW q \in Proc, task[q] \in KeptType, Waits(task[q]),
         current \in Int, kept = TRUE, enter(q)
  PROVE  Now' /\ routine' \in Routines /\ current' = q /\ Machine' /\ kept' = TRUE
<1> DEFINE t  == task[q]
           k  == t.kstk
           s  == SubSeq(k, 1, t.kernel_esp0)
           s1 == Drop(s, 2)
           r1 == PopInto(KernelRegs(current), s1, TaskSwitchPops)
           s2 == Drop(s1, 6)
           r2 == PopInto(r1, s2, KernelPops)
           s3 == Drop(s2, 5)
           s4 == Drop(s3, 7)
           ret == s[Len(s) - 1]
           to  == s2[Len(s2) - 4]
<1>1. /\ k \in Seq(Int) /\ t.ustk \in Seq(Int) /\ t.errno \in Int
      /\ t.routine \in Routines /\ t.history \in History
      /\ t.kernel_esp0 = Len(k) /\ Len(k) \in Nat
  BY LenProperties DEF KeptType, Waits
<1>2. s \in Seq(Int) /\ Len(s) = Len(k) /\ \A i \in 1 .. Len(k) : s[i] = k[i]
  <2>1. s = SubSeq(k, 1, Len(k)) /\ Len(k) <= Len(k)
    BY <1>1
  <2> HIDE DEF s, k
  <2> QED BY <1>1, <2>1, Top
<1>3. /\ current' = q /\ Machine' /\ ustk' = t.ustk /\ errno' = t.errno
      /\ routine' = t.routine
  BY DEF enter, Machine, MsrOf
<1>4. \/ /\ ret = AFTER_INNER /\ to = SYS_HANDLER
         /\ kstk' = s3
         /\ regs' = [r2 EXCEPT !.eax = 0]
         /\ pc' = "sysexit"
         /\ history' = t.history
         /\ kept' = (Keep(r1) = t.was)
      \/ /\ ret = AFTER_INNER /\ to = CLK_HANDLER
         /\ kstk' = Drop(s4, 2)
         /\ regs' = RESTORE_ALL(s3)
         /\ pc' = PlaceOf(Last(s4))
         /\ history' = t.history
         /\ kept' = (Keep(r1) = t.was)
      \/ /\ ret = ret_from_fork
         /\ kstk' = Front(s1)
         /\ regs' = [KernelRegs(current) EXCEPT !.eax = 0, !.ebp = Last(s)]
         /\ pc' = "sysexit"
         /\ history' = t.history
         /\ UNCHANGED kept
      \/ /\ ret = cpu_idle
         /\ kstk' = s1
         /\ regs' = [x \in Reg |-> Junk]
         /\ pc' = "idle"
         /\ history' = NoCall
         /\ UNCHANGED kept
  BY DEF enter
<1>5. Preempted(t) \/ Blocked(t) \/ Forked(t) \/ Fresh(t)
  BY DEF Waits
<1>6. ASSUME InTaskSwitch(k, t.was)
      PROVE  /\ Keep(r1) = t.was /\ r2 \in [Reg -> Int]
             /\ s3 = SubSeq(k, 1, 9) /\ to = k[10]
             /\ Last(s4) = k[2] /\ Drop(s4, 2) = <<>> /\ ret = AFTER_INNER
  <2>1. s = SubSeq(k, 1, Len(k))
    BY <1>1
  <2>2. ret = AFTER_INNER
    <3>1. Len(s) - 1 = 21 /\ 21 \in 1 .. Len(k) /\ k[21] = AFTER_INNER
      BY <1>2, <1>6 DEF InTaskSwitch
    <3> HIDE DEF s, k
    <3> QED BY <1>2, <3>1
  <2>3. k \in Seq(Int)
    BY <1>1
  <2> HIDE DEF k
  <2> QED BY <1>6, <2>1, <2>2, <2>3, Unwound
<1> HIDE DEF s1, r1, s2, r2, s3, s4, ret, to
<1>7. /\ AFTER_INNER = 501 /\ CLK_HANDLER = 503 /\ SYS_HANDLER = 504
      /\ ret_from_fork = 505 /\ cpu_idle = 506
  BY DEF AFTER_INNER, CLK_HANDLER, SYS_HANDLER, ret_from_fork, cpu_idle
<1>8. CASE Preempted(t)
  <2>1. InTaskSwitch(k, t.was) /\ k[10] = CLK_HANDLER
    BY <1>8 DEF Preempted
  <2>2. PICK at \in InUser :
          /\ k[2] = Address[at]
          /\ View(at, RESTORE_ALL(SubSeq(k, 1, 9)), t.ustk, <<>>, t.errno,
                  t.routine, t.history)
    BY <1>8 DEF Preempted
  <2> HIDE DEF t, k
  <2>3. /\ kstk' = <<>> /\ regs' = RESTORE_ALL(SubSeq(k, 1, 9))
        /\ pc' = PlaceOf(k[2]) /\ history' = t.history /\ kept' = TRUE
    <3>1. /\ Keep(r1) = t.was /\ s3 = SubSeq(k, 1, 9) /\ to = k[10]
          /\ Last(s4) = k[2] /\ Drop(s4, 2) = <<>> /\ ret = AFTER_INNER
      BY <1>6, <2>1, Zenon
    <3>2. ret # ret_from_fork /\ ret # cpu_idle /\ to # SYS_HANDLER
      BY <1>7, <2>1, <3>1
    <3>3. /\ kstk' = Drop(s4, 2) /\ regs' = RESTORE_ALL(s3)
          /\ pc' = PlaceOf(Last(s4)) /\ history' = t.history
          /\ kept' = (Keep(r1) = t.was)
      BY <1>4, <3>2, Zenon
    <3> QED BY <3>1, <3>3, Zenon
  <2>4. pc' = at
    BY <2>2, <2>3, Addresses
  <2> QED BY <1>1, <1>3, <2>2, <2>3, <2>4 DEF Now
<1>9. ASSUME InCall(t), pc' = "sysexit", kstk' = SubSeq(k, 1, 9),
             SubSeq(k, 1, 9) \in Seq(Int), history' = t.history,
             regs' \in [Reg -> Int], regs'["eax"] = 0
      PROVE  Now'
  <2> HIDE DEF t
  <2>1. CallFrame(kstk')
    BY <1>9 DEF InCall, k
  <2>2. /\ UserFrame(ustk', history') /\ errno' = history'.errno
        /\ history'.result = 0
    BY <1>3, <1>9 DEF InCall
  <2> QED BY <1>1, <1>3, <1>9, <2>1, <2>2 DEF Now, View, Places, InUser
<1>10. CASE Blocked(t)
  <2>1. InTaskSwitch(k, t.was) /\ k[10] = SYS_HANDLER /\ InCall(t) /\ Len(k) = 22
    BY <1>10 DEF Blocked, InTaskSwitch
  <2> HIDE DEF t, k
  <2>2. /\ kstk' = SubSeq(k, 1, 9) /\ regs' = [r2 EXCEPT !.eax = 0]
        /\ r2 \in [Reg -> Int]
        /\ pc' = "sysexit" /\ history' = t.history /\ kept' = (t.was = t.was)
    BY <1>4, <1>6, <1>7, <2>1
  <2>3. "eax" \in Reg
    BY DEF Reg
  <2>4. regs' \in [Reg -> Int] /\ regs'["eax"] = 0
    BY <2>2, <2>3
  <2>5. SubSeq(k, 1, 9) \in Seq(Int)
    <3>1. k \in Seq(Int) /\ 9 \in Nat /\ 9 <= Len(k)
      BY <1>1, <2>1
    <3> QED BY <3>1, Top, Zenon
  <2> QED BY <1>1, <1>3, <1>9, <2>1, <2>2, <2>4, <2>5
<1>11. CASE Forked(t)
  <2>1. Len(k) = 12 /\ k[11] = ret_from_fork /\ InCall(t)
    BY <1>11 DEF Forked
  <2> HIDE DEF t, k
  <2>2. ret = ret_from_fork
    <3>1. Len(s) - 1 = 11 /\ 11 \in 1 .. Len(k)
      BY <1>2, <2>1
    <3> HIDE DEF s
    <3> QED BY <1>2, <2>1, <3>1 DEF ret
  <2>3. /\ kstk' = Front(s1) /\ pc' = "sysexit" /\ history' = t.history
        /\ regs' = [KernelRegs(current) EXCEPT !.eax = 0, !.ebp = Last(s)]
        /\ kept' = TRUE
    BY <1>4, <1>7, <2>2
  <2> HIDE DEF s
  <2>4. s1 = SubSeq(s, 1, 10) /\ s1 \in Seq(Int) /\ Len(s1) = 10
    <3>1. 2 \in Nat /\ 2 <= Len(s) /\ Len(s) - 2 = 10
      BY <1>2, <2>1
    <3>2. /\ Drop(s, 2) = SubSeq(s, 1, Len(s) - 2)
          /\ Drop(s, 2) \in Seq(Int) /\ Len(Drop(s, 2)) = Len(s) - 2
      BY <1>2, <3>1, DropLemma, Zenon
    <3> QED BY <3>1, <3>2 DEF s1
  <2>5. Front(s1) = SubSeq(k, 1, 9)
    <3>1. Front(s1) = SubSeq(s1, 1, 9)
      BY <2>4 DEF Front
    <3>2. s = SubSeq(k, 1, 12)
      BY <1>1, <2>1 DEF s
    <3>3. 10 \in Nat /\ 12 \in Nat /\ 10 <= 12 /\ 12 <= Len(k) /\ 9 \in Nat /\ 9 <= 10
          /\ 10 <= Len(k)
      BY <2>1
    <3>4. s1 = SubSeq(k, 1, 10)
      BY <1>1, <2>4, <3>2, <3>3, Bottom
    <3> QED BY <1>1, <3>1, <3>3, <3>4, Bottom
  <2>6. SubSeq(k, 1, 9) \in Seq(Int)
    <3>1. k \in Seq(Int) /\ 9 \in Nat /\ 9 <= Len(k)
      BY <1>1, <2>1
    <3> QED BY <3>1, Top, Zenon
  <2>7. regs' \in [Reg -> Int] /\ regs'["eax"] = 0
    <3>1. Last(s) \in Int
      <4>1. Len(s) \in 1 .. Len(s) /\ Last(s) = s[Len(s)]
        BY <1>2, <2>1 DEF Last
      <4> QED BY <1>2, <4>1, ElementOfSeq
    <3>2. "eax" \in Reg /\ "ebp" \in Reg /\ KernelRegs(current) \in [Reg -> Int]
      BY KernelRegsType DEF Reg
    <3> DEFINE v == [KernelRegs(current) EXCEPT !["eax"] = 0]
    <3>3. v \in [Reg -> Int] /\ v["eax"] = 0
      BY <3>2
    <3>4. regs' = [v EXCEPT !["ebp"] = Last(s)]
      BY <2>3
    <3> HIDE DEF v
    <3> QED BY <3>1, <3>2, <3>3, <3>4
  <2> QED BY <1>1, <1>3, <1>9, <2>1, <2>3, <2>5, <2>6, <2>7
<1>12. CASE Fresh(t)
  <2>1. k = <<cpu_idle, 0>>
    BY <1>12 DEF Fresh
  <2> HIDE DEF t, k
  <2>2. Len(k) = 2 /\ k[1] = cpu_idle
    BY <2>1
  <2> HIDE DEF s
  <2>3. ret = cpu_idle
    <3>1. Len(s) - 1 = 1 /\ 1 \in 1 .. Len(k)
      BY <1>2, <2>2
    <3> QED BY <1>2, <2>2, <3>1 DEF ret
  <2>4. /\ kstk' = s1 /\ regs' = [x \in Reg |-> Junk] /\ pc' = "idle"
        /\ history' = NoCall /\ kept' = TRUE
    BY <1>4, <1>7, <2>3
  <2>5. s1 = <<>>
    <3>1. 2 \in Nat /\ 2 <= Len(s) /\ Len(s) - 2 = 0
      BY <1>2, <2>2
    <3>2. Drop(s, 2) \in Seq(Int) /\ Len(Drop(s, 2)) = Len(s) - 2
      BY <1>2, <3>1, DropLemma, Zenon
    <3> QED BY <3>1, <3>2, EmptySeq DEF s1
  <2>6. regs' \in [Reg -> Int] /\ NoCall \in History
    <3>1. UserRegs(0) \in [Reg -> Int]
      BY DEF UserRegs, Reg, Junk
    <3> QED BY <2>4, <3>1 DEF Junk, NoCall, History
  <2> QED BY <1>1, <1>3, <2>4, <2>5, <2>6 DEF Now, View, Places, InUser
<1> QED BY <1>5, <1>8, <1>10, <1>11, <1>12

-----------------------------------------------------------------------------
(* The invariant is inductive.                                             *)

LEMMA States ==
  /\ \A t \in KeptType : t.state = "kept"
  /\ Free.state = "free" /\ Running.state = "running"
  /\ Free \notin KeptType /\ Running \notin KeptType
<1>1. \A t \in KeptType : t.state = "kept"
  BY DEF KeptType
<1>2. Free.state = "free" /\ Running.state = "running"
  BY DEF Free, Running
<1> QED BY <1>1, <1>2

(* A switch to q, after which t is kept of the process that had the        *)
(* processor.                                                              *)
LEMMA Switches ==
  ASSUME IInv, NEW q \in Proc, Ready(q), NEW t \in KeptType \cup {Free},
         t \in KeptType => Waits(t),
         task' = [task EXCEPT ![current] = t, ![q] = Running], enter(q)
  PROVE  IInv'
<1>1. /\ task \in [Proc -> KeptType \cup {Free, Running}] /\ current \in Proc
      /\ \A p \in Proc : task[p] \in KeptType => Waits(task[p])
      /\ kept = TRUE
  BY DEF IInv, TaskInv
<1>2. task[q] \in KeptType
  BY <1>1, States DEF Ready
<1>3. Waits(task[q]) /\ current \in Int
  BY <1>1, <1>2 DEF Proc
<1>4. Now' /\ routine' \in Routines /\ current' = q /\ Machine' /\ kept' = TRUE
  BY <1>1, <1>2, <1>3, Enters
<1>5. task' \in [Proc -> KeptType \cup {Free, Running}]
  BY <1>1
<1>6. ASSUME NEW p \in Proc, task'[p] \in KeptType
      PROVE  Waits(task'[p])
  <2>1. CASE p = q
    BY <1>1, <1>6, <2>1, States
  <2>2. CASE p = current /\ p # q
    <3>1. task'[p] = t
      BY <1>1, <2>2
    <3> QED BY <1>6, <3>1
  <2>3. CASE p # current /\ p # q
    <3>1. task'[p] = task[p]
      BY <1>1, <2>3
    <3> QED BY <1>1, <1>6, <3>1
  <2> QED BY <2>1, <2>2, <2>3
<1>7. TaskInv'
  BY <1>4, <1>5, <1>6 DEF TaskInv
<1> QED BY <1>4, <1>7 DEF IInv, Now, Machine

LEMMA ClockSwitches ==
  ASSUME IInv, NEW q \in Proc, clk_switch(q)
  PROVE  IInv'
<1> DEFINE old == IF pc = "idle" THEN kstk ELSE <<>>
           k   == old \o <<Len(ustk), Address[pc]>> \o SAVE_ALL(regs)
           t   == Kept(Leaving(k, CLK_HANDLER), history,
                       Keep(KernelRegs(current)))
<1>1. Now /\ routine \in Routines /\ current \in Int
  BY DEF IInv, Now, TaskInv, Proc
<1>2. pc \in DOMAIN Address
  BY DEF clk_switch
<1>3. t \in KeptType /\ Waits(t)
  BY <1>1, <1>2, LeavesByClock
<1>4. Ready(q) /\ task' = [task EXCEPT ![current] = t, ![q] = Running] /\ enter(q)
  BY DEF clk_switch
<1> HIDE DEF t
<1> QED BY <1>3, <1>4, Switches

LEMMA BlockSwitches ==
  ASSUME IInv, NEW q \in Proc, sys_block(q)
  PROVE  IInv'
<1> DEFINE t == Kept(Leaving(kstk, SYS_HANDLER), history,
                     Keep(KernelRegs(current)))
<1>1. Now /\ routine \in Routines /\ current \in Int
  BY DEF IInv, Now, TaskInv, Proc
<1>2. pc = "routine"
  BY DEF sys_block
<1>3. t \in KeptType /\ Waits(t)
  BY <1>1, <1>2, LeavesByBlock
<1>4. Ready(q) /\ task' = [task EXCEPT ![current] = t, ![q] = Running] /\ enter(q)
  BY DEF sys_block
<1> HIDE DEF t
<1> QED BY <1>3, <1>4, Switches

LEMMA ExitSwitches ==
  ASSUME IInv, NEW q \in Proc, sys_exit(q)
  PROVE  IInv'
<1>1. Ready(q) /\ task' = [task EXCEPT ![current] = Free, ![q] = Running] /\ enter(q)
  BY DEF sys_exit
<1> QED BY <1>1, States, Switches

(* The child's stack: the parent's context and, above it, what makes       *)
(* switch_stacks return to ret_from_fork.                                  *)
LEMMA ChildWaits ==
  ASSUME Now, routine \in Routines, pc = "routine"
  PROVE  LET t == Kept(ChildStack(kstk), [history EXCEPT !.result = 0], Keep(regs))
         IN  t \in KeptType /\ Waits(t)
<1> DEFINE u   == ChildStack(kstk)
           top == <<SYS_HANDLER, ret_from_fork, 0>>
           h   == [history EXCEPT !.result = 0]
           t   == Kept(u, h, Keep(regs))
<1>1. /\ CallFrame(kstk) /\ kstk \in Seq(Int) /\ Len(kstk) = 9
      /\ regs \in [Reg -> Int] /\ history \in History /\ history.result = 0
      /\ UserFrame(ustk, history) /\ errno = history.errno
  BY DEF Now, View, CallFrame
<1>2. top \in Seq(Int) /\ Len(top) = 3 /\ top[2] = ret_from_fork
  BY DEF SYS_HANDLER, ret_from_fork
<1>3. u = kstk \o top
  BY DEF ChildStack
<1> HIDE DEF u, top
<1>4. /\ u \in Seq(Int) /\ Len(u) = Len(kstk) + Len(top)
      /\ \A i \in 1 .. Len(kstk) + Len(top) :
           u[i] = IF i <= Len(kstk) THEN kstk[i] ELSE top[i - Len(kstk)]
  BY <1>1, <1>2, <1>3, ConcatProperties
<1>5. Len(u) = 12 /\ u[11] = ret_from_fork /\ \A i \in 1 .. 9 : u[i] = kstk[i]
  BY <1>1, <1>2, <1>4
<1>6. SubSeq(u, 1, 9) = kstk
  <2>1. 9 \in Nat /\ 9 <= Len(u)
    BY <1>5
  <2>2. /\ SubSeq(u, 1, 9) \in Seq(Int) /\ Len(SubSeq(u, 1, 9)) = 9
        /\ \A i \in 1 .. 9 : SubSeq(u, 1, 9)[i] = u[i]
    BY <1>4, <2>1, Top, Zenon
  <2> DEFINE v == SubSeq(u, 1, 9)
  <2> HIDE DEF v
  <2>3. v \in Seq(Int) /\ Len(v) = Len(kstk) /\ \A i \in 1 .. Len(v) : v[i] = kstk[i]
    BY <1>1, <1>5, <2>2 DEF v
  <2>4. v = kstk
    BY <1>1, <2>3, SeqEqual
  <2> QED BY <2>4 DEF v
<1>7. h = history
  BY <1>1 DEF History
<1>8. Keep(regs) \in [Saved -> Int]
  BY <1>1 DEF Keep, Saved, Reg
<1> HIDE DEF h
<1>9. /\ t \in KeptType /\ t.kstk = u /\ t.kernel_esp0 = Len(u)
      /\ t.ustk = ustk /\ t.errno = errno /\ t.history = history
  <2> DEFINE v == Kept(u, history, Keep(regs))
  <2>1. /\ v \in KeptType /\ v.kstk = u /\ v.kernel_esp0 = Len(u)
        /\ v.ustk = ustk /\ v.errno = errno /\ v.history = history
    BY <1>1, <1>4, <1>8, KeptRecord
  <2> QED BY <1>7, <2>1
<1> HIDE DEF t
<1>10. Forked(t)
  BY <1>1, <1>5, <1>6, <1>9 DEF Forked, InCall
<1>11. t \in KeptType /\ Waits(t)
  BY <1>9, <1>10 DEF Waits
<1> QED BY <1>11 DEF t, h, u

LEMMA Forks ==
  ASSUME IInv, NEW c \in Proc, sys_fork(c)
  PROVE  IInv'
<1> DEFINE t == Kept(ChildStack(kstk), [history EXCEPT !.result = 0], Keep(regs))
<1>1. Now /\ routine \in Routines
  BY DEF IInv, Now
<1>2. pc = "routine" /\ c \in Int
  BY DEF sys_fork, Proc
<1>3. t \in KeptType /\ Waits(t)
  BY <1>1, <1>2, ChildWaits
<1>4. /\ task' = [task EXCEPT ![c] = t]
      /\ regs' = [regs EXCEPT !.eax = c, !.ecx = Junk, !.edx = Junk]
      /\ pc' = "sysexit" /\ history' = [history EXCEPT !.result = c]
      /\ UNCHANGED <<ustk, kstk, errno, routine, current, tss, msr, cr3, kept>>
  BY DEF sys_fork
<1> HIDE DEF t
<1>5. TaskInv'
  <2>1. /\ task \in [Proc -> KeptType \cup {Free, Running}] /\ current \in Proc
        /\ \A p \in Proc : task[p] \in KeptType => Waits(task[p])
    BY DEF IInv, TaskInv
  <2>2. task' \in [Proc -> KeptType \cup {Free, Running}]
    BY <1>3, <1>4, <2>1
  <2>3. ASSUME NEW p \in Proc, task'[p] \in KeptType
        PROVE  Waits(task'[p])
    <3>1. CASE p = c
      <4>1. task'[p] = t
        BY <1>4, <2>1, <3>1
      <4> QED BY <1>3, <4>1
    <3>2. CASE p # c
      <4>1. task'[p] = task[p]
        BY <1>4, <2>1, <3>2
      <4> QED BY <2>1, <2>3, <4>1
    <3> QED BY <3>1, <3>2
  <2> QED BY <1>4, <2>1, <2>2, <2>3 DEF TaskInv
<1>6. Now'
  <2>1. /\ CallFrame(kstk) /\ kstk \in Seq(Int) /\ ustk \in Seq(Int) /\ errno \in Int
        /\ regs \in [Reg -> Int] /\ history \in History
        /\ UserFrame(ustk, history) /\ errno = history.errno
    BY <1>1, <1>2 DEF Now, View
  <2>2. /\ history' \in History /\ history'.result = c
        /\ history'.errno = history.errno /\ history'.regs = history.regs
    BY <1>2, <1>4, <2>1 DEF History
  <2>3. UserFrame(ustk', history')
    BY <1>4, <2>1, <2>2 DEF UserFrame
  <2>4. regs' \in [Reg -> Int] /\ regs'["eax"] = c
    <3> DEFINE a == [regs EXCEPT !["eax"] = c]
               b == [a EXCEPT !["ecx"] = Junk]
    <3>1. "eax" \in Reg /\ "ecx" \in Reg /\ "edx" \in Reg /\ Junk \in Int
      BY DEF Reg, Junk
    <3>2. a \in [Reg -> Int] /\ a["eax"] = c
      BY <1>2, <2>1, <3>1
    <3> HIDE DEF a
    <3>3. b \in [Reg -> Int] /\ b["eax"] = c
      BY <3>1, <3>2
    <3>4. regs' = [b EXCEPT !["edx"] = Junk]
      BY <1>4 DEF a
    <3> HIDE DEF b
    <3> QED BY <3>1, <3>3, <3>4
  <2> QED BY <1>4, <2>1, <2>2, <2>3, <2>4 DEF Now, View, Places, InUser
<1> QED BY <1>1, <1>4, <1>5, <1>6 DEF IInv, Now

LEMMA InitInv == SwitchInit => IInv
<1> SUFFICES ASSUME SwitchInit PROVE IInv
  OBVIOUS
<1>1. /\ pc = "user" /\ regs = UserRegs(0) /\ ustk = <<>> /\ kstk = <<>>
      /\ errno = 0 /\ routine = ni /\ history = NoCall
  BY DEF SwitchInit, Init
<1>2. UserRegs(0) \in [Reg -> Int]
  BY DEF UserRegs, Reg, Junk
<1>3. NoCall \in History
  BY <1>2 DEF NoCall, History
<1>4. ni \in Routines
  <2>1. ni = sys_call_table(0) /\ MAX_SYSCALL = 23
    BY DEF sys_call_table, table, MAX_SYSCALL
  <2> QED BY <2>1 DEF Routines
<1>5. Now
  BY <1>1, <1>2, <1>3 DEF Now, View, Places, InUser
<1> DEFINE k == <<cpu_idle, 0>>
           t == Kept(k, NoCall, Keep(regs))
<1>6. k \in Seq(Int)
  BY DEF cpu_idle
<1>7. Keep(regs) \in [Saved -> Int]
  BY <1>1, <1>2 DEF Keep, Saved, Reg
<1>8. t \in KeptType /\ Waits(t)
  <2> HIDE DEF k
  <2>1. t \in KeptType /\ t.kstk = k /\ t.kernel_esp0 = Len(k)
    BY <1>1, <1>3, <1>4, <1>5, <1>6, <1>7, KeptRecord
  <2> HIDE DEF t
  <2>2. Fresh(t)
    BY <2>1 DEF Fresh, k
  <2> QED BY <2>1, <2>2 DEF Waits
<1>9. task1 \in Proc /\ idle \in Proc
  BY SwitchAssumption DEF task1, idle, Proc
<1>10. task = [p \in Proc |-> IF p = task1 THEN Running
                              ELSE IF p = idle THEN t ELSE Free]
  BY DEF SwitchInit
<1> HIDE DEF t
<1>11. TaskInv
  <2>1. task \in [Proc -> KeptType \cup {Free, Running}]
    BY <1>8, <1>10
  <2>2. \A p \in Proc : task[p] \in KeptType => Waits(task[p])
    BY <1>8, <1>10, States
  <2>3. current \in Proc
    BY <1>9 DEF SwitchInit
  <2> QED BY <2>1, <2>2, <2>3 DEF TaskInv
<1> QED BY <1>1, <1>4, <1>5, <1>11 DEF IInv, Now, SwitchInit

LEMMA NextInv == IInv /\ [SwitchNext]_allvars => IInv'
<1> SUFFICES ASSUME IInv, [SwitchNext]_allvars PROVE IInv'
  OBVIOUS
<1>1. Now /\ routine \in Routines
  BY DEF IInv, Now
<1>2. CASE Step /\ UNCHANGED swvars
  <2>1. Now' /\ routine' \in Routines
    BY <1>1, <1>2, Steps
  <2>2. TaskInv'
    BY <1>2 DEF IInv, TaskInv, swvars
  <2> QED BY <1>2, <2>1, <2>2 DEF IInv, Now, swvars
<1>3. CASE \E q \in Proc : clk_switch(q) \/ sys_block(q) \/ sys_exit(q)
  BY <1>3, ClockSwitches, BlockSwitches, ExitSwitches
<1>4. CASE \E c \in Proc \ {idle} : sys_fork(c)
  BY <1>4, Forks
<1>5. CASE UNCHANGED allvars
  BY <1>5 DEF IInv, TaskInv, allvars, vars, swvars
<1>6. CASE idles
  BY <1>5, <1>6 DEF idles
<1> QED BY <1>2, <1>3, <1>4, <1>5, <1>6 DEF SwitchNext

-----------------------------------------------------------------------------
(* The theorems.                                                           *)

LEMMA Inductive == SwitchSpec => []IInv
  BY InitInv, NextInv, PTL DEF SwitchSpec

(* sys_call_handler_sysenter and the table: whatever was interrupted and   *)
(* whichever processes ran in between, each wrapper of user_misc.S reaches *)
(* the routine of its name, with its arguments in order.                   *)
THEOREM RightRoutineAlways == SwitchSpec => []RightRoutine
<1>1. IInv => RightRoutine
  <2> SUFFICES ASSUME IInv, pc = "routine", history.call \in DOMAIN Wrapper
               PROVE  /\ routine = history.call
                      /\ \A i \in 1 .. Wrapper[history.call][2] :
                            kstk[Len(kstk) + 1 - i] = Args[i]
    BY DEF RightRoutine
  <2> DEFINE n == Wrapper[history.call][2]
  <2>1. /\ Len(kstk) = 9 /\ routine = history.call
        /\ ArgsIn(n, kstk[9], kstk[8], kstk[7])
    BY DEF IInv, View, CallFrame
  <2>2. n \in 0 .. 3
    BY DEF Wrapper
  <2> HIDE DEF n
  <2>3. ASSUME NEW i \in 1 .. n
        PROVE  kstk[Len(kstk) + 1 - i] = Args[i]
    <3>1. CASE i = 1
      BY <2>1, <2>2, <2>3, <3>1 DEF ArgsIn
    <3>2. CASE i = 2
      BY <2>1, <2>2, <2>3, <3>2 DEF ArgsIn
    <3>3. CASE i = 3
      BY <2>1, <2>2, <2>3, <3>3 DEF ArgsIn
    <3> QED BY <2>2, <2>3, <3>1, <3>2, <3>3
  <2> QED BY <2>1, <2>3 DEF n
<1> QED BY <1>1, Inductive, PTL

(* The epilogue that all wrappers share, RESTORE_ALL and task_switch: a    *)
(* call that returns has kept ebx, esi, edi, ebp and the caller's stack,   *)
(* in the child of a fork too.                                             *)
THEOREM CallerStateAlwaysKept == SwitchSpec => []CallerStateKept
<1>1. IInv => CallerStateKept
  BY DEF IInv, View, CallerStateKept, Saved
<1> QED BY <1>1, Inductive, PTL

(* The epilogue again: the program gets the routine's result, or -1 and    *)
(* the error in errno.                                                     *)
THEOREM ErrnoAlwaysRight == SwitchSpec => []ErrnoConvention
<1>1. IInv => ErrnoConvention
  BY DEF IInv, View, ErrnoConvention
<1> QED BY <1>1, Inductive, PTL

(* inner_task_switch, task_switch and switch_stacks: after a switch the    *)
(* registers, the stacks of the TSS and of the MSR and the directory are   *)
(* those of the process that runs.                                         *)
THEOREM SwitchAlwaysComplete == SwitchSpec => []SwitchComplete
<1>1. IInv => SwitchComplete
  BY DEF IInv, View, InUser, SwitchComplete, TaskSwitchKeeps, StacksAreCurrents
<1> QED BY <1>1, Inductive, PTL
=============================================================================
