----------------------------- MODULE MCSyscall ------------------------------
(* An instance of Switch, and so of Syscall, for TLC: idle and two         *)
(* processes that make every call.                                         *)
EXTENDS Switch

(* What lies before the table, a hole in it and what lies just after it.   *)
MCRawCalls == {-1, 5, 23}

(* An error and another value.                                             *)
MCResults == {-12, 7}
MCLoads   == {0, 1}
=============================================================================
