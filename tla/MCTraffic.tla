------------------------------ MODULE MCTraffic ------------------------------
(*************************************************************************)
(* Two users, three additions and a Submit that fails and is booked, for TLC:*)
(* additions before, within and after a drain that is put back.            *)
(*************************************************************************)
EXTENDS Traffic
==============================================================================
