------------------------------ MODULE MCMemory ------------------------------
(* Instances of Memory for TLC: the configurations give the constants.     *)
EXTENDS Memory
=============================================================================
