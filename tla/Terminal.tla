------------------------------ MODULE Terminal ------------------------------
(***************************************************************************)
(* What the screen promises: a strip of Size cells, in rows of Width, that *)
(* closes on itself.  A text is laid out from the cursor on, one cell per  *)
(* character in the current colours; a newline goes on at the start of the *)
(* next row.  Where two characters share a cell the later one is seen.     *)
(* Whoever writes is told how many characters were laid out.               *)
(***************************************************************************)
EXTENDS Integers, Sequences

CONSTANTS Width, Size,       \* Size is a multiple of Width
          Text,              \* the texts that are written
          Colour,            \* pairs of colours
          NewLine, Blank

VARIABLES pos,               \* the cell of the cursor, counted from 0
          colour,
          cells,             \* cell -> character and colours
          answer             \* to the last call

vars == <<pos, colour, cells, answer>>

(* The cursor before character i of text t.                                *)
Cursor(t) ==
    LET at[i \in 1 .. Len(t) + 1] ==
            IF i = 1 THEN pos
            ELSE IF t[i - 1] = NewLine
                 THEN ((at[i - 1] \div Width + 1) * Width) % Size
                 ELSE (at[i - 1] + 1) % Size
    IN  at

Init == /\ pos \in 0 .. Size - 1
        /\ colour \in Colour
        /\ cells = [c \in 0 .. Size - 1 |-> Blank]
        /\ answer = 0

Lay(t) ==
    LET at      == Cursor(t)
        here(c) == {i \in 1 .. Len(t) : t[i] # NewLine /\ at[i] = c}
    IN  /\ UNCHANGED colour
        /\ pos' = at[Len(t) + 1]
        /\ cells' = [c \in 0 .. Size - 1 |->
              IF here(c) = {} THEN cells[c]
              ELSE <<t[CHOOSE i \in here(c) : \A j \in here(c) : j <= i],
                     colour>>]

Write(t, n) == answer' = n /\ Lay(SubSeq(t, 1, n))

Log(t) == UNCHANGED answer /\ Lay(t)

Move == pos' \in 0 .. Size - 1 /\ answer' = 0 /\ UNCHANGED <<colour, cells>>

Paint == colour' \in Colour /\ answer' = 0 /\ UNCHANGED <<pos, cells>>

Refuse == answer' < 0 /\ UNCHANGED <<pos, colour, cells>>

Next ==
    \/ Move \/ Paint \/ Refuse
    \/ \E t \in Text : \/ \E n \in 0 .. Len(t) : Write(t, n)
                       \/ Log(t)

Spec == Init /\ [][Next]_vars
=============================================================================
