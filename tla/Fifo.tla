-------------------------------- MODULE Fifo --------------------------------
(***************************************************************************)
(* What the keyboard driver promises to the programs that read: a bounded  *)
(* first-in first-out queue of characters.  A character that arrives is    *)
(* stored, or refused when the queue is full; a read takes some of the     *)
(* oldest characters.                                                      *)
(***************************************************************************)
EXTENDS Integers, Sequences

CONSTANTS Char,      \* characters
          Capacity   \* characters the queue can hold

VARIABLES queue,     \* stored characters, oldest first
          accepted,  \* was the last character that arrived stored?
          out        \* characters the last read delivered

fifoVars == <<queue, accepted, out>>

Init ==
    /\ queue = << >>
    /\ accepted = TRUE
    /\ out = << >>

Put(c) ==
    /\ Len(queue) < Capacity
    /\ queue' = Append(queue, c)
    /\ accepted' = TRUE
    /\ UNCHANGED out

Refuse ==
    /\ Len(queue) = Capacity
    /\ accepted' = FALSE
    /\ UNCHANGED <<queue, out>>

Take(n) ==
    /\ n <= Len(queue)
    /\ out' = SubSeq(queue, 1, n)
    /\ queue' = SubSeq(queue, n + 1, Len(queue))
    /\ UNCHANGED accepted

Next ==
    \/ \E c \in Char : Put(c)
    \/ Refuse
    \/ \E n \in 0 .. Len(queue) : Take(n)

Spec == Init /\ [][Next]_fifoVars
=============================================================================
