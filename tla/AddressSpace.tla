---------------------------- MODULE AddressSpace ----------------------------
(***************************************************************************)
(* What the memory manager promises to processes about their data pages:   *)
(* "separate memory spaces".  Each process has a private memory; fork      *)
(* gives the child a copy of its parent's, and from then on only the       *)
(* process itself changes what it reads.                                   *)
(***************************************************************************)
CONSTANTS Task,    \* PCBs
          Page,    \* data pages of a process
          Val,     \* contents of a page
          Gone     \* the memory of a PCB that runs no process

VARIABLES mem      \* PCB -> contents of its data pages, or Gone

Alive == {p \in Task : mem[p] # Gone}

Init ==
    \E p \in Task : \E m \in [Page -> Val] :
        mem = [q \in Task |-> IF q = p THEN m ELSE Gone]

Fork(p, c) ==
    /\ p \in Alive /\ c \notin Alive
    /\ mem' = [mem EXCEPT ![c] = mem[p]]

Write(p, g, v) ==
    /\ p \in Alive
    /\ mem' = [mem EXCEPT ![p][g] = v]

Exit(p) ==
    /\ p \in Alive
    /\ mem' = [mem EXCEPT ![p] = Gone]

Next ==
    \E p \in Task :
        \/ \E c \in Task : Fork(p, c)
        \/ \E g \in Page, v \in Val : Write(p, g, v)
        \/ Exit(p)

Spec == Init /\ [][Next]_mem
=============================================================================
