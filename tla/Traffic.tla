------------------------------- MODULE Traffic -------------------------------
(***************************************************************************)
(* Traffic accounting: the counters of TrafficManager, the connections that *)
(* add to them and the task that reports them to the panel                 *)
(* (internal/pkg/service/users.go, CountedConn of                          *)
(* internal/app/server/inbound_tcp.go).                                    *)
(*                                                                         *)
(* Nothing is locked: connections add at any moment, the report swaps one  *)
(* counter after the other, and puts back what it could not submit.        *)
(***************************************************************************)
EXTENDS Naturals, Functions

CONSTANTS
  Users,     \* user ids
  MaxAdds,   \* bound: additions made altogether
  MaxTwice   \* bound: what the panel books of Submits that fail

ASSUME TrafficAssumption == MaxAdds \in Nat /\ MaxTwice \in Nat

Kinds == {"up", "down", "count"}
Counters == Users \X Kinds
Row(u) == {u} \X Kinds

\* The counters of a user's item that are handled before this one.
Before(k) == CASE k = "up" -> {} [] k = "down" -> {"up"} [] k = "count" -> {"up", "down"}

VARIABLES
  items,    \* the users that have a TrafficItem
  item,     \* the counters
  report,   \* where ReportTrafficsTask is: "idle", "drain", "submit", "restore"
  start,    \* the items there were when the drain began
  drained,  \* counters the drain has swapped
  batch,    \* what was swapped out and is neither submitted nor put back
  panel,    \* what the panel has booked (history)
  gen,      \* what was added (history)
  twice     \* what the panel booked though Submit failed (history)

taskVars == <<report, start, drained>>
vars == <<items, item, taskVars, batch, panel, gen, twice>>

Zero == [x \in Counters |-> 0]
Plus(f, g) == [x \in Counters |-> f[x] + g[x]]

Init ==
  /\ items = {} /\ item = Zero
  /\ report = "idle" /\ start = {} /\ drained = {} /\ batch = Zero
  /\ panel = Zero /\ gen = Zero /\ twice = Zero

-----------------------------------------------------------------------------
\* GetTrafficItem, when a connection of the user is accepted.
LoadOrStore(u) ==
  /\ u \notin items
  /\ items' = items \cup {u}
  /\ UNCHANGED <<item, taskVars, batch, panel, gen, twice>>

\* A connection adds to a counter: the header, a read, a write, a new stream.
Add(x) ==
  /\ x[1] \in items
  /\ FoldFunction(+, 0, gen) < MaxAdds
  /\ item' = [item EXCEPT ![x] = @ + 1]
  /\ gen' = [gen EXCEPT ![x] = @ + 1]
  /\ UNCHANGED <<items, taskVars, batch, panel, twice>>

-----------------------------------------------------------------------------
(* ReportTrafficsTask                                                      *)

ReportStart ==
  /\ report = "idle"
  /\ report' = "drain" /\ start' = items
  /\ UNCHANGED <<items, item, drained, batch, panel, gen, twice>>

\* The drain visits an item at a time and has not left it half done.
Whole(u) == Row(u) \cap drained \in {{}, Row(u)}

\* Swap(0) on one counter.
DrainSwap(x) ==
  /\ report = "drain"
  /\ x[1] \in items /\ x \notin drained
  /\ \A k \in Before(x[2]) : <<x[1], k>> \in drained
  /\ \A u \in Users \ {x[1]} : Whole(u)
  /\ drained' = drained \cup {x}
  /\ batch' = [batch EXCEPT ![x] = item[x]]
  /\ item' = [item EXCEPT ![x] = 0]
  /\ UNCHANGED <<items, report, start, panel, gen, twice>>

\* An item stored while the map is ranged over may be visited or not.  With
\* nothing to report, nothing is submitted.
DrainEnd ==
  /\ report = "drain"
  /\ \A u \in start : Row(u) \subseteq drained
  /\ \A u \in Users : Whole(u)
  /\ report' = IF batch = Zero THEN "idle" ELSE "submit"
  /\ start' = {} /\ drained' = {}
  /\ UNCHANGED <<items, item, batch, panel, gen, twice>>

\* Faulty variant: what was submitted is kept as well.
BadSubmitOk ==
  /\ report = "submit"
  /\ report' = "idle"
  /\ panel' = Plus(panel, batch)
  /\ UNCHANGED <<items, item, start, drained, batch, gen, twice>>

SubmitOk ==
  /\ report = "submit"
  /\ report' = "idle"
  /\ panel' = Plus(panel, batch) /\ batch' = Zero
  /\ UNCHANGED <<items, item, start, drained, gen, twice>>

\* Submit returns an error; the panel may have booked the batch all the same.
SubmitFail ==
  /\ report = "submit"
  /\ report' = "restore"
  /\ \/ UNCHANGED <<panel, twice>>
     \/ /\ FoldFunction(+, 0, twice) < MaxTwice
        /\ panel' = Plus(panel, batch) /\ twice' = Plus(twice, batch)
  /\ UNCHANGED <<items, item, start, drained, batch, gen>>

\* Faulty variant: the counter is set to what was swapped out.
BadRestoreAdd(x) ==
  /\ report = "restore" /\ batch[x] > 0
  /\ item' = [item EXCEPT ![x] = batch[x]]
  /\ batch' = [batch EXCEPT ![x] = 0]
  /\ UNCHANGED <<items, taskVars, panel, gen, twice>>

\* Adds of nothing are left out.
RestoreAdd(x) ==
  /\ report = "restore" /\ batch[x] > 0
  /\ \A k \in Before(x[2]) : batch[<<x[1], k>>] = 0
  /\ item' = [item EXCEPT ![x] = @ + batch[x]]
  /\ batch' = [batch EXCEPT ![x] = 0]
  /\ UNCHANGED <<items, taskVars, panel, gen, twice>>

\* Faulty variant: what could not be submitted is dropped.
BadRestoreEnd ==
  /\ report = "restore"
  /\ report' = "idle" /\ batch' = Zero
  /\ UNCHANGED <<items, item, start, drained, panel, gen, twice>>

RestoreEnd ==
  /\ report = "restore" /\ batch = Zero
  /\ report' = "idle"
  /\ UNCHANGED <<items, item, start, drained, batch, panel, gen, twice>>

-----------------------------------------------------------------------------
ReportStep ==
  \/ ReportStart \/ DrainEnd \/ RestoreEnd
  \/ \E x \in Counters : DrainSwap(x) \/ RestoreAdd(x)

Next ==
  \/ \E u \in Users : LoadOrStore(u)
  \/ \E x \in Counters : Add(x)
  \/ ReportStep \/ SubmitOk \/ SubmitFail

Spec == Init /\ [][Next]_vars

\* The task runs at its interval, Submit returns, and not always with an error.
FairSpec ==
  /\ Spec
  /\ WF_vars(ReportStep) /\ WF_vars(SubmitOk \/ SubmitFail) /\ SF_vars(SubmitOk)

-----------------------------------------------------------------------------
(* Properties.                                                             *)

\* Types; between two reports nothing is in the task's hands.
TypeOK ==
  /\ items \subseteq Users /\ start \subseteq items /\ drained \subseteq items \X Kinds
  /\ {item, batch, panel, gen, twice} \subseteq [Counters -> Nat]
  /\ report \in {"idle", "drain", "submit", "restore"}
  /\ report = "idle" => batch = Zero

\* "restore swapped values so they are not lost" (users.go:149): what was added
\* is in a counter, in the task's hands or booked by the panel, once, but for
\* what the panel booked of a Submit that failed, which is there once more.
Conservation ==
  \A x \in Counters : item[x] + batch[x] + panel[x] = gen[x] + twice[x]

\* What was added is booked by the panel in the end, if Submit does not fail
\* for ever (users.go:143-156).
EventuallyBooked ==
  \A x \in Counters : \A n \in 1..MaxAdds : gen[x] >= n ~> panel[x] >= n
=============================================================================
