----------------------------- MODULE MCConsole ------------------------------
(* Instances of Console for TLC.                                           *)
EXTENDS Console

(* Texts that end before, at and after a chunk, that fill a row, the       *)
(* screen and more, and that hold newlines.                                *)
MCText == {<<"a", "b", "b", "a", "a">>, <<"a", "NL", "b">>}

MCBoot == <<1, 0>>
MCColourArgs == {<<1, 0>>, <<0, 1>>, <<2, 0>>, <<0, -1>>}
=============================================================================
