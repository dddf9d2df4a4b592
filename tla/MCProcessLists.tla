--------------------------- MODULE MCProcessLists ---------------------------
(* An instance of ProcessLists for TLC: the configuration gives the        *)
(* constants.                                                              *)
EXTENDS ProcessLists
=============================================================================
