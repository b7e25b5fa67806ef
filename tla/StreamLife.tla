----------------------------- MODULE StreamLife -----------------------------
(***************************************************************************)
(* What a session promises its two ends about a stream: the server opens   *)
(* it once, for a peer that has opened it; it ends once, and whoever ended *)
(* it decides whether the peer is told.  If the server did, the peer gets  *)
(* one FIN, unless the session is closed meanwhile; if the peer did, or    *)
(* the session is closed, it gets none.                                    *)
(***************************************************************************)
EXTENDS Naturals

CONSTANT Sids  \* stream numbers

VARIABLES
  closed,  \* the session is closed
  peer,    \* the stream at the peer: "none", "open" or "closed"
  server,  \* the stream at the server: "none", "open", "ending" (to be told), "ended"
  told     \* how often the peer was told

vars == <<closed, peer, server, told>>

Init ==
  /\ closed = FALSE
  /\ peer = [s \in Sids |-> "none"] /\ server = [s \in Sids |-> "none"]
  /\ told = [s \in Sids |-> 0]

PeerMoves(s, from, to) ==
  /\ peer[s] = from /\ peer' = [peer EXCEPT ![s] = to]
  /\ UNCHANGED <<closed, server, told>>

ServerMoves(s, from, to) ==
  /\ server[s] = from /\ server' = [server EXCEPT ![s] = to]
  /\ UNCHANGED <<closed, peer>>

\* Also in a session that is closed: its SYN may have arrived before.
Accept(s) == peer[s] # "none" /\ ServerMoves(s, "none", "open") /\ UNCHANGED told

\* The server ends the stream, and tells the peer, or finds the session closed.
End(s)    == ServerMoves(s, "open", "ending") /\ UNCHANGED told
Tell(s)   == ServerMoves(s, "ending", "ended") /\ told' = [told EXCEPT ![s] = @ + 1]
GiveUp(s) == closed /\ ServerMoves(s, "ending", "ended") /\ UNCHANGED told

\* The peer has ended these streams, or the session is closed.
Leave(S) ==
  /\ S # {} /\ \A s \in S : server[s] = "open" /\ (closed \/ peer[s] = "closed")
  /\ server' = [s \in Sids |-> IF s \in S THEN "ended" ELSE server[s]]
  /\ UNCHANGED <<closed, peer, told>>

Close == ~closed /\ closed' = TRUE /\ UNCHANGED <<peer, server, told>>

Next ==
  \/ \E s \in Sids :
       \/ PeerMoves(s, "none", "open") \/ PeerMoves(s, "open", "closed")
       \/ Accept(s) \/ End(s) \/ Tell(s) \/ GiveUp(s)
  \/ \E S \in SUBSET Sids : Leave(S)
  \/ Close

Spec == Init /\ [][Next]_vars
=============================================================================
