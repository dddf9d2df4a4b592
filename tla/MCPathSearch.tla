---------------------------- MODULE MCPathSearch ----------------------------
(* All mazes of three columns and three rows, all targets, and a start in  *)
(* a corner or in the middle.                                              *)
EXTENDS PathSearch

MCStarts == {<<0, 0>>, <<1, 1>>}
=============================================================================
