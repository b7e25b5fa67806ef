--------------------------- MODULE MCNodeLifecycle ---------------------------
(*************************************************************************)
(* Three registrations and two node ids for TLC: a node that loses or leaves*)
(* behind one registration, gets a second, and starts again after that.    *)
(*************************************************************************)
EXTENDS NodeLifecycle
==============================================================================
