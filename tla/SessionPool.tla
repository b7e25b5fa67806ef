----------------------------- MODULE SessionPool -----------------------------
(***************************************************************************)
(* What the client's pool of sessions promises: a session carries one      *)
(* stream at a time, goes back to the pool when that stream is over, and   *)
(* is never used again once it is closed.                                  *)
(***************************************************************************)
CONSTANTS
  Sessions,  \* the sessions a client may dial
  Sids       \* stream numbers of a session

VARIABLES
  state,  \* "none", "leased", "idle" or "closed"
  live    \* the streams open on each session

vars == <<state, live>>

Init ==
  /\ state = [x \in Sessions |-> "none"]
  /\ live = [x \in Sessions |-> {}]

Becomes(x, s) == state' = [state EXCEPT ![x] = s] /\ live' = live

Dial(x) == state[x] = "none" /\ Becomes(x, "leased")

\* For a stream, or to be closed after a long time in the pool.
Take(X) ==
  /\ X # {} /\ \A x \in X : state[x] = "idle"
  /\ state' = [x \in Sessions |-> IF x \in X THEN "leased" ELSE state[x]]
  /\ live' = live

Open(x, n) ==
  /\ state[x] = "leased" /\ live[x] = {}
  /\ live' = [live EXCEPT ![x] = {n}]
  /\ state' = state

End(x) ==
  /\ live[x] # {}
  /\ live' = [live EXCEPT ![x] = {}]
  /\ state' = state

Return(x) == state[x] = "leased" /\ live[x] = {} /\ Becomes(x, "idle")

Close(x) == state[x] \in {"leased", "idle"} /\ Becomes(x, "closed")

Next ==
  \/ \E X \in SUBSET Sessions : Take(X)
  \/ \E x \in Sessions :
    \/ Dial(x) \/ End(x) \/ Return(x) \/ Close(x)
    \/ \E n \in Sids : Open(x, n)

Spec == Init /\ [][Next]_vars
=============================================================================
