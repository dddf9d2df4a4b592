---------------------------- MODULE MCUserMemory ----------------------------
(* An instance of UserMemory for TLC: pages of four bytes, two of the      *)
(* kernel, three of the program and two to attach, in a machine of seven   *)
(* bits; a circular buffer of three slots.                                 *)
EXTENDS UserMemory

MCChar    == {"nul", "a"}
MCcharMap == [c \in 0 .. 1 |-> IF c = 0 THEN "nul" ELSE "a"]
MCKey     == {1, 2, 129}

(* Both sides of every page boundary that matters, and the end of memory.  *)
MCPointer == {7, 17, 19, 23, 27, 126}
MCSize    == {-1, 0, 1, 3, 5}
=============================================================================
