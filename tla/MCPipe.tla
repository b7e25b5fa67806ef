------------------------------- MODULE MCPipe --------------------------------
(*************************************************************************)
(* A pipe of 3 bytes for TLC: writes longer than the pipe, which wait for  *)
(* room in the middle, reads shorter than what is buffered, which leave a  *)
(* rest to compact, and enough bytes to fill the pipe more than twice.     *)
(*************************************************************************)
EXTENDS Pipe
==============================================================================
