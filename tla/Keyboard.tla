------------------------------ MODULE Keyboard ------------------------------
(***************************************************************************)
(* The keyboard: kbd_routine (interrupt.c) translates the scan codes of    *)
(* the keyboard controller and puts the characters in the circular buffer  *)
(* cbuff (circular.c); sys_read (sys.c) takes them out.  Both run with     *)
(* interrupts disabled, so each is one action; key presses and reads       *)
(* interleave freely.                                                      *)
(*                                                                         *)
(* sys_read copies to the program through a local buffer of                *)
(* MAX_BUFFER_SIZE bytes indexed by the number of characters read so far:  *)
(* its chunk logic is never reached because cbuff holds fewer characters   *)
(* than that (KeyboardAssumption).  A read that access_ok refuses changes  *)
(* nothing.                                                                *)
(*                                                                         *)
(* NeverWraps and FullWhenEqual are plausible bugs: see the README.        *)
(***************************************************************************)
EXTENDS Integers, Sequences

CONSTANTS
    MAX_BUFF_SIZE,    \* slots of the circular buffer
    MAX_BUFFER_SIZE,  \* size of the local buffer of sys_read
    Char,             \* characters
    NUL,              \* '\0', the character of the keys that have none
    char_map,         \* scan code -> character, shorter than the scan codes
    Key               \* bytes the controller sends: scan code + 128 if break

ASSUME KeyboardAssumption ==
    /\ MAX_BUFF_SIZE \in Nat /\ MAX_BUFF_SIZE >= 2
    /\ MAX_BUFFER_SIZE \in Nat /\ MAX_BUFF_SIZE <= MAX_BUFFER_SIZE
    /\ NUL \in Char
    /\ char_map \in [DOMAIN char_map -> Char]
    /\ Key \subseteq 0 .. 255

Index == 0 .. MAX_BUFF_SIZE - 1

VARIABLES
    keys, write_idx, read_idx, size,  \* cbuff
    put_ret,                          \* what the last put returned
    out                               \* characters the last sys_read copied

vars == <<keys, write_idx, read_idx, size, put_ret, out>>

(* cbuff is zero when the kernel is loaded; initCircBuff calls init.       *)
Init ==
    /\ keys = [i \in Index |-> NUL]
    /\ write_idx = 0
    /\ read_idx = 0
    /\ size = 0
    /\ put_ret = TRUE
    /\ out = << >>

-----------------------------------------------------------------------------
(* circular.c                                                              *)

NeverWraps(i) == i + 1
next_idx(i)   == (i + 1) % MAX_BUFF_SIZE

FullWhenEqual == write_idx = read_idx
is_full       == next_idx(write_idx) = read_idx

put(item) ==
    \/ /\ is_full
       /\ put_ret' = FALSE
       /\ UNCHANGED <<keys, write_idx>>
    \/ /\ ~ is_full
       /\ keys' = [keys EXCEPT ![write_idx] = item]
       /\ write_idx' = next_idx(write_idx)
       /\ put_ret' = TRUE

(* The number of characters get can take before the buffer is empty, and   *)
(* the i-th of them.                                                       *)
count == IF read_idx <= write_idx THEN write_idx - read_idx
         ELSE MAX_BUFF_SIZE - read_idx + write_idx

slot(i) == IF read_idx + i - 1 < MAX_BUFF_SIZE THEN read_idx + i - 1
           ELSE read_idx + i - 1 - MAX_BUFF_SIZE

-----------------------------------------------------------------------------
(* A key was pressed or released.  A release is ignored; a scan code       *)
(* beyond char_map reads whatever byte lies there.                         *)
kbd_routine(key) ==
    /\ key < 128
    /\ \E character \in IF key \in DOMAIN char_map THEN {char_map[key]}
                        ELSE Char :
          put(character)
    /\ UNCHANGED <<read_idx, size, out>>

(* read(b, maxchars) gets characters until the buffer is empty or there    *)
(* are maxchars of them.  The comparison is unsigned: a negative maxchars  *)
(* is above every count.                                                   *)
num_chars(maxchars) == IF maxchars < 0 \/ maxchars > count THEN count
                       ELSE maxchars

sys_read(maxchars) ==
    LET n == num_chars(maxchars)
    IN  /\ out' = [i \in 1 .. n |-> keys[slot(i)]]
        /\ read_idx' = slot(n + 1)
        /\ UNCHANGED <<keys, write_idx, size, put_ret>>

Next ==
    \/ \E key \in Key : kbd_routine(key)
    \/ \E maxchars \in -1 .. MAX_BUFF_SIZE : sys_read(maxchars)

Spec == Init /\ [][Next]_vars

-----------------------------------------------------------------------------
TypeOK ==
    /\ keys \in [Index -> Char]
    /\ write_idx \in Index
    /\ read_idx \in Index
    /\ size \in Nat
    /\ put_ret \in BOOLEAN
    /\ out \in Seq(Char)

(* The circular buffer implements a first-in first-out queue of            *)
(* MAX_BUFF_SIZE - 1 characters: whatever the interleaving of key presses  *)
(* and reads around the end of the array, reads deliver the stored         *)
(* characters once each and in order, and put refuses one only when        *)
(* MAX_BUFF_SIZE - 1 are waiting.                                          *)
stored == [i \in 1 .. count |-> keys[slot(i)]]

F == INSTANCE Fifo WITH Capacity <- MAX_BUFF_SIZE - 1,
                        queue <- stored, accepted <- put_ret
FifoSpec == F!Spec

(* "Returns the current size of the circular buffer" (circular.h).         *)
SizeIsCount == size = count
=============================================================================
