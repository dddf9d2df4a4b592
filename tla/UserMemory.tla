----------------------------- MODULE UserMemory -----------------------------
(***************************************************************************)
(* How the kernel reaches the memory of the calling program: access_ok and *)
(* check_allocated (utils.c), the copy loops copy_to_user and              *)
(* copy_from_user, and the two calls built on them, sys_read and sys_write *)
(* (sys.c), with whatever pointer and size the program passes.             *)
(*                                                                         *)
(* Addresses and sizes keep their width: an address is below UINT and a    *)
(* size is a signed int that access_ok takes as unsigned.  What the bytes  *)
(* of the program are does not matter; which bytes a call touches does, so *)
(* the state records the addresses the last call copied from or to.  The   *)
(* pages of the program's image are always mapped; the ones from           *)
(* USER_LAST_PAGE on come and go with shmat and shmdt.  Interrupts are     *)
(* disabled in the kernel, so a call is one action.                        *)
(*                                                                         *)
(* NoOverflowTest, LastPageUnchecked, ShortImage, WordsRoundedUp and       *)
(* WriteAnyPage are plausible bugs: each is a wrong form of the definition *)
(* that follows it.                                                        *)
(***************************************************************************)
EXTENDS Keyboard, FiniteSetsExt

CONSTANTS
    UINT,                                    \* 2^w
    PAGE_SIZE, WORD,                         \* bytes of a page, of a DWord
    USER_FIRST_PAGE, NUM_PAG_CODE, NUM_PAG_DATA, TOTAL_PAGES,
    Pointer,                                 \* that programs pass
    Size                                     \* that programs pass

INT_MAX        == UINT \div 2 - 1
USER_LAST_PAGE == USER_FIRST_PAGE + NUM_PAG_CODE + NUM_PAG_DATA
ImagePage      == USER_FIRST_PAGE .. USER_LAST_PAGE - 1
SharedPage     == USER_LAST_PAGE .. TOTAL_PAGES - 1

(* A buffer in the address space is far from the largest int, and so is    *)
(* the keyboard's: 4 MB and 32 bytes on the real machine.                  *)
ASSUME UserMemoryAssumption ==
    /\ {UINT, PAGE_SIZE, WORD, USER_FIRST_PAGE, NUM_PAG_CODE, NUM_PAG_DATA,
        TOTAL_PAGES} \subseteq Nat \ {0}
    /\ UINT % PAGE_SIZE = 0
    /\ USER_LAST_PAGE < TOTAL_PAGES
    /\ TOTAL_PAGES * PAGE_SIZE + MAX_BUFF_SIZE <= INT_MAX
    /\ Pointer \subseteq 0 .. UINT - 1
    /\ Size \subseteq - INT_MAX - 1 .. INT_MAX

VARIABLES
    attached,   \* shared pages with an entry in the program's table
    call,       \* the last call: its name, pointer and size
    touched,    \* addresses its copy loops went through, in order
    ret,        \* what it returned
    hung        \* page whose fault the kernel could not handle, or none

memvars == <<attached, call, touched, ret, hung>>
allvars == <<vars, memvars>>

NoPage == -1
EBADF  == 9
EFAULT == 14
EINVAL == 22

(* init_task1 and init_shared_pages: the image is mapped, nothing is       *)
(* attached.                                                               *)
MemInit ==
    /\ Init
    /\ attached = {}
    /\ call = [name |-> "none", ptr |-> 0, size |-> 0]
    /\ touched = <<>> /\ ret = 0
    /\ hung = NoPage

-----------------------------------------------------------------------------
(* utils.c                                                                 *)

Page(addr)     == addr \div PAGE_SIZE
mapped         == ImagePage \cup attached
Unsigned(bytes) == bytes % UINT

LastPageUnchecked(ini, fin) == ini .. fin - 1 \subseteq attached
check_allocated(ini, fin)   == ini .. fin \subseteq attached

NoOverflowTest(ini, fin) == FALSE
overflow(ini, fin)       == fin < ini

ShortImage(ini, fin) == ini >= USER_FIRST_PAGE /\ fin < USER_LAST_PAGE
inImage(ini, fin)    == ini >= USER_FIRST_PAGE /\ fin <= USER_LAST_PAGE

inShared(ini, fin) ==
    /\ ini >= USER_LAST_PAGE /\ fin < TOTAL_PAGES
    /\ check_allocated(ini, fin)

(* The case of VERIFY_WRITE.  Unless it returns, it falls through to the   *)
(* default case.                                                           *)
WriteAnyPage(ini, fin) ==
    ini >= USER_FIRST_PAGE + NUM_PAG_CODE /\ fin < TOTAL_PAGES
inWritable(ini, fin) ==
    ini >= USER_FIRST_PAGE + NUM_PAG_CODE /\ fin <= USER_LAST_PAGE

access_ok(type, addr, bytes) ==
    LET ini       == Page(addr)
        fin       == Page((addr + Unsigned(bytes)) % UINT)
        highPages == ini >= USER_LAST_PAGE /\ fin < TOTAL_PAGES
    IN  /\ ~ overflow(ini, fin)
        /\ \/ type = "VERIFY_WRITE" /\ inWritable(ini, fin)
           \/ /\ type = "VERIFY_WRITE" => ~ highPages
              /\ inImage(ini, fin)
           \/ inShared(ini, fin)

(* copy_to_user and copy_from_user: words while more than a word is left,  *)
(* then bytes.  The addresses that they go through from addr on.           *)
WordsRoundedUp(bytes) == (bytes + WORD - 1) \div WORD
Words(bytes)          == IF bytes > WORD THEN (bytes - 1) \div WORD ELSE 0

copied(addr, bytes) ==
    LET inWords == WORD * Words(bytes)
        n       == inWords + Max({0, bytes - inWords})
    IN  [i \in 1 .. n |-> (addr + i - 1) % UINT]

(* The first page that a copy faults on.  The kernel is not bound by the   *)
(* read-only bit, and pgf_routine can do nothing about a page that is not  *)
(* present but hang.                                                       *)
FaultOf(addrs) ==
    LET bad == {i \in DOMAIN addrs : Page(addrs[i]) \notin mapped}
    IN  IF bad = {} THEN NoPage ELSE Page(addrs[Min(bad)])

-----------------------------------------------------------------------------
(* read(b, maxchars): the characters come out of the circular buffer as in *)
(* Keyboard and go to b.                                                   *)
read(b, maxchars) ==
    /\ hung = NoPage
    /\ call' = [name |-> "read", ptr |-> b, size |-> maxchars]
    /\ \/ /\ ~ access_ok("VERIFY_WRITE", b, maxchars)
          /\ ret' = - EFAULT /\ touched' = <<>>
          /\ UNCHANGED <<vars, hung>>
       \/ /\ access_ok("VERIFY_WRITE", b, maxchars)
          /\ sys_read(maxchars)
          /\ ret' = num_chars(maxchars)
          /\ touched' = copied(b, num_chars(maxchars))
          /\ hung' = FaultOf(touched')
    /\ UNCHANGED attached

(* The addresses that write copies from: chunks of MAX_BUFFER_SIZE while   *)
(* more than that remains, then the rest.                                  *)
NumChunks(bytes) == (bytes + MAX_BUFFER_SIZE - 1) \div MAX_BUFFER_SIZE

chunk(buffer, bytes, k) ==
    LET done == (k - 1) * MAX_BUFFER_SIZE
    IN  copied(buffer + done, Min({MAX_BUFFER_SIZE, bytes - done}))

fromUser(buffer, bytes) ==
    LET upto[k \in 0 .. NumChunks(bytes)] ==
            IF k = 0 THEN <<>> ELSE upto[k - 1] \o chunk(buffer, bytes, k)
    IN  upto[NumChunks(bytes)]

write(fd, buffer, bytes) ==
    /\ hung = NoPage
    /\ call' = [name |-> "write", ptr |-> buffer, size |-> bytes]
    /\ \/ /\ fd # 1
          /\ ret' = - EBADF /\ touched' = <<>> /\ UNCHANGED hung
       \/ /\ fd = 1 /\ ~ access_ok("VERIFY_READ", buffer, bytes)
          /\ ret' = - EFAULT /\ touched' = <<>> /\ UNCHANGED hung
       \/ /\ fd = 1 /\ access_ok("VERIFY_READ", buffer, bytes) /\ bytes < 0
          /\ ret' = - EINVAL /\ touched' = <<>> /\ UNCHANGED hung
       \/ /\ fd = 1 /\ access_ok("VERIFY_READ", buffer, bytes) /\ bytes >= 0
          /\ touched' = fromUser(buffer, bytes)
          /\ ret' = bytes
          /\ hung' = FaultOf(touched')
    /\ UNCHANGED <<vars, attached>>

(* shmat and shmdt, as far as the program's own table goes.                *)
attach(page) ==
    /\ hung = NoPage
    /\ page \notin attached
    /\ attached' = attached \cup {page}
    /\ UNCHANGED <<vars, call, touched, ret, hung>>

detach(page) ==
    /\ hung = NoPage
    /\ page \in attached
    /\ attached' = attached \ {page}
    /\ UNCHANGED <<vars, call, touched, ret, hung>>

key_press(key) ==
    /\ hung = NoPage
    /\ kbd_routine(key)
    /\ UNCHANGED memvars

(* while (1) at the end of pgf_routine.                                    *)
spin == hung # NoPage /\ UNCHANGED allvars

MemNext ==
    \/ \E b \in Pointer, n \in Size :
          read(b, n) \/ \E fd \in {0, 1} : write(fd, b, n)
    \/ \E page \in SharedPage : attach(page) \/ detach(page)
    \/ \E key \in Key : key_press(key)
    \/ spin

MemSpec == MemInit /\ [][MemNext]_allvars

-----------------------------------------------------------------------------
(* Whatever pointer and size a program passes, near the end of memory and  *)
(* with the sum wrapping around included, no call reads or writes below    *)
(* the pages of the program: the kernel's memory is out of reach of read   *)
(* and write.                                                              *)
KernelUntouched ==
    \A i \in DOMAIN touched : Page(touched[i]) >= USER_FIRST_PAGE

(* The page numbers that access_ok compares do protect the kernel from     *)
(* faults, with two exceptions: a block that reaches USER_LAST_PAGE while  *)
(* nothing is attached there (the comparison is <=), and a read with a     *)
(* negative maxchars.                                                      *)
FaultsAtEdgeOnly ==
    hung # NoPage => hung = USER_LAST_PAGE \/ call.size < 0

(* A call goes through exactly the bytes of the block, once each and in    *)
(* order, whatever the chunks of write and the words of the copy loops     *)
(* are: size of them for write, as many as the call returns for read.      *)
TransfersExact ==
    touched = [i \in 1 .. Max({0, ret}) |-> call.ptr + i - 1]

(* Every block inside the image of the program is accepted, to its very    *)
(* last byte, for reading and for writing, whatever is attached above it.  *)
ImageAccepted ==
    \A b \in Pointer, n \in Size :
        n > 0 /\ Page(b) \in ImagePage /\ Page(b + n - 1) \in ImagePage
        => access_ok("VERIFY_READ", b, n) /\ access_ok("VERIFY_WRITE", b, n)

(* "VERIFY_WRITE is a superset of VERIFY_READ: if it is safe to write to a *)
(* block, it is always safe to read from it" (utils.c).                    *)
WritableIsReadable ==
    \A b \in Pointer, n \in Size :
        access_ok("VERIFY_WRITE", b, n) => access_ok("VERIFY_READ", b, n)

(* What access_ok must say yes to, near every boundary.                    *)
AccessOkAccepts == ImageAccepted /\ WritableIsReadable

(* "Returns [...] false (zero) if it is definitely invalid" (utils.c): not *)
(* so for a block that ends with its page above the image, or that lies on *)
(* both sides of USER_LAST_PAGE.                                           *)
RefusedIsInvalid ==
    \A b \in Pointer, n \in Size :
        n > 0 /\ {Page(a) : a \in b .. b + n - 1} \subseteq mapped
        => access_ok("VERIFY_READ", b, n)

(* The code pages are read-only, and VERIFY_WRITE starts at the page that  *)
(* would follow them if they came first; they come after the data.         *)
CodeNotWritten ==
    call.name = "read" => \A i \in DOMAIN touched :
        Page(touched[i]) \notin USER_FIRST_PAGE + NUM_PAG_DATA .. USER_LAST_PAGE - 1
=============================================================================
