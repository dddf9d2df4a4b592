----------------------------- MODULE MCProcess -----------------------------
(* Instances of Process for TLC: the configurations give the constants.    *)
EXTENDS Process
=============================================================================
