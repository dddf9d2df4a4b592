------------------------------ MODULE MCKernel ------------------------------
(* An instance of Kernel for TLC: the configuration gives the constants.   *)
EXTENDS Kernel
=============================================================================
