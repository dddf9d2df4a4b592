------------------------------ MODULE MCInput -------------------------------
(* An instance of Input for TLC: a buffer of two characters, the key 'a',  *)
(* the key '.', and a key beyond the map, which gives any character.       *)
EXTENDS Input

MCChar    == {0, 46, 87, 97}          \* NUL, '.', 'W', 'a'
MCcharMap == [c \in 0 .. 2 |-> IF c = 0 THEN 0 ELSE IF c = 1 THEN 97 ELSE 46]
MCKey     == {1, 2, 3}
=============================================================================
