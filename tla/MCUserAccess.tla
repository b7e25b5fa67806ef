---------------------------- MODULE MCUserAccess ----------------------------
(***************************************************************************)
(* Small instances of UserAccess for TLC.  The panel gives a credential the *)
(* same id in every list and an id one credential at a time; two users, one *)
(* of whom may be given another credential.                                 *)
(***************************************************************************)
EXTENDS UserAccess, TLC

CONSTANTS a, b, a2, A, B

IdOf == (a :> A) @@ (a2 :> A) @@ (b :> B)

AllLists ==
  {[u \in Uuids |-> IF u \in s THEN IdOf[u] ELSE NoId] :
     s \in {t \in SUBSET Uuids : ~({a, a2} \subseteq t)}}
=============================================================================
