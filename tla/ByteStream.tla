----------------------------- MODULE ByteStream -----------------------------
(***************************************************************************)
(* What the in-memory pipe of internal/pkg/proxy/pipe promises to the two  *)
(* goroutines that share it: a bounded first-in first-out stream of bytes  *)
(* with a close.  A byte is identified by its position in the stream of    *)
(* bytes the writer hands over: the k-th byte is the number k.  A read     *)
(* therefore is right exactly when it returns the next positions, in       *)
(* order; a lost, repeated or reordered byte is a wrong number.            *)
(***************************************************************************)
EXTENDS Integers, Sequences

CONSTANT Capacity   \* the most bytes written and not yet read (pipe.maxBuf)

VARIABLES
  produced,   \* number of bytes accepted from the writer
  consumed,   \* number of bytes handed to the reader
  delivered,  \* the bytes the last successful read returned
  outcome,    \* how the last read ended
  writing,    \* a call of Write is accepted and not yet over
  closed      \* one of the ends was closed

vars == <<produced, consumed, delivered, outcome, writing, closed>>

\* The n bytes of the stream that follow its first k bytes.
Positions(k, n) == [i \in 1..n |-> k + i]

Init ==
  /\ produced = 0
  /\ consumed = 0
  /\ delivered = <<>>
  /\ outcome = "none"
  /\ writing = FALSE
  /\ closed = FALSE

\* A write is accepted only while the stream is open.
BeginWrite ==
  /\ ~closed
  /\ writing' = TRUE
  /\ UNCHANGED <<produced, consumed, delivered, outcome, closed>>

EndWrite ==
  /\ writing' = FALSE
  /\ UNCHANGED <<produced, consumed, delivered, outcome, closed>>

\* An accepted write adds bytes while there is room for them.
Put ==
  /\ writing
  /\ \E n \in 1..(Capacity - (produced - consumed)) : produced' = produced + n
  /\ UNCHANGED <<consumed, delivered, outcome, writing, closed>>

\* A read returns the next bytes of the stream.
Take ==
  /\ \E n \in 1..(produced - consumed) :
        /\ delivered' = Positions(consumed, n)
        /\ consumed' = consumed + n
  /\ outcome' = "data"
  /\ UNCHANGED <<produced, writing, closed>>

\* A read fails with a close error only when nothing is left to read.
TakeClosed ==
  /\ closed
  /\ consumed = produced
  /\ outcome' \in {"EOF", "ErrClosedPipe"}
  /\ UNCHANGED <<produced, consumed, delivered, writing, closed>>

TakeTimeout ==
  /\ outcome' = "timeout"
  /\ UNCHANGED <<produced, consumed, delivered, writing, closed>>

Close ==
  /\ closed' = TRUE
  /\ UNCHANGED <<produced, consumed, delivered, outcome, writing>>

Next ==
  \/ BeginWrite \/ EndWrite \/ Put
  \/ Take \/ TakeClosed \/ TakeTimeout
  \/ Close

Spec == Init /\ [][Next]_vars
=============================================================================
