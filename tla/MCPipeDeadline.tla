--------------------------- MODULE MCPipeDeadline ----------------------------
(*************************************************************************)
(* Two goroutines that set a deadline and two that wait, for TLC.  Three   *)
(* channels and two timers allow a timer to fire late, into the time of the*)
(* deadline that replaces its own.                                         *)
(*************************************************************************)
EXTENDS PipeDeadline
==============================================================================
