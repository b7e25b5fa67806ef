---------------------------- MODULE MCClientPool ----------------------------
(***************************************************************************)
(* Instances of ClientPool for TLC.  One caller is enough to have two      *)
(* sessions in the pool, as the receive loops end streams too, while the   *)
(* caller goes on; three streams, so that a session can have two watchdogs *)
(* one after the other; minIdleSession 1, so that the cleanup keeps one    *)
(* session and closes another.                                             *)
(***************************************************************************)
EXTENDS ClientPool
=============================================================================
