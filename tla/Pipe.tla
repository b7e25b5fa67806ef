-------------------------------- MODULE Pipe --------------------------------
(***************************************************************************)
(* The buffered pipe between the session's receive loop (the writer) and a *)
(* stream's handler (the reader): internal/pkg/proxy/pipe/io_pipe.go.      *)
(*                                                                         *)
(* One goroutine writes, one reads, and either end may be closed by a      *)
(* third goroutine at any time.  Steps are the critical sections of p.mu   *)
(* and the channel operations between them: the code unlocks p.mu before   *)
(* it signals, so "append" and "signal" are two steps.  The deadline       *)
(* channels (module PipeDeadline) are a choice of the environment: wherever*)
(* the code looks at its deadline, the call may find it expired.           *)
(*                                                                         *)
(* Bytes are numbered by their position in the writer's stream, so `buf`   *)
(* holds numbers and a byte out of place is visible.                       *)
(***************************************************************************)
EXTENDS Integers, Sequences

CONSTANTS
  MaxBuf,    \* p.maxBuf, 256 KiB in the code
  MaxWrite,  \* longest slice handed to one Write
  MaxRead,   \* longest slice handed to one Read
  MaxBytes   \* bound on the bytes handed to Write altogether

ASSUME PipeAssumption ==
  /\ MaxBuf \in Nat \ {0}
  /\ MaxWrite \in Nat \ {0}
  /\ MaxRead \in Nat \ {0}
  /\ MaxBytes \in Nat

VARIABLES
  buf,         \* p.buf, as a sequence of byte positions
  off,         \* p.off, the read offset into buf
  dataReady,   \* a token is in the channel p.dataReady (capacity 1)
  spaceReady,  \* a token is in the channel p.spaceReady (capacity 1)
  done,        \* p.done is closed
  rerr, werr,  \* the errors stored in p.rerr and p.werr, or "nil"
  sent,        \* bytes appended to the buffer so far
  rcvd,        \* bytes copied out of the buffer so far
  rpc,         \* where the reading goroutine is
  rlen,        \* len(b) of the read in progress
  rdata,       \* the bytes the last successful read returned
  rout,        \* how the last read ended
  wpc,         \* where the writing goroutine is
  wleft,       \* bytes of the write in progress still to be appended
  wout,        \* how the last write ended
  cpc          \* progress of closeRead ("read") and closeWrite ("write")

bufVars   == <<buf, off, sent, rcvd>>
sigVars   == <<dataReady, spaceReady>>
closeVars == <<done, rerr, werr, cpc>>
readVars  == <<rpc, rlen, rdata, rout>>
writeVars == <<wpc, wleft, wout>>
vars == <<bufVars, sigVars, closeVars, readVars, writeVars>>

Ends == {"read", "write"}

MinOf(a, b) == IF a < b THEN a ELSE b

\* pipe.bufLen: the unread bytes.
Unread == Len(buf) - off

Init ==
  /\ buf = <<>> /\ off = 0 /\ sent = 0 /\ rcvd = 0
  /\ dataReady = FALSE /\ spaceReady = FALSE
  /\ done = FALSE /\ rerr = "nil" /\ werr = "nil"
  /\ rpc = "idle" /\ rlen = 0 /\ rdata = <<>> /\ rout = "none"
  /\ wpc = "idle" /\ wleft = 0 /\ wout = "none"
  /\ cpc = [e \in Ends |-> "idle"]

-----------------------------------------------------------------------------
(* Faulty variants.  Each is a definition below with one plausible mistake *)
(* and is used only to see that a property notices it.                     *)

\* The read offset is kept when the buffer is emptied.
BadConsumeKeepsOffset(n) ==
  LET k == MinOf(n, Unread) IN
  /\ rdata' = SubSeq(buf, off + 1, off + k)
  /\ rcvd' = rcvd + k /\ off' = off + k /\ sent' = sent
  /\ buf' = IF off + k = Len(buf) THEN <<>> ELSE buf

\* The consumed prefix is never compacted away.
BadConsumeNoCompaction(n) ==
  LET k == MinOf(n, Unread) IN
  /\ rdata' = SubSeq(buf, off + 1, off + k)
  /\ rcvd' = rcvd + k /\ sent' = sent
  /\ IF off + k = Len(buf) THEN buf' = <<>> /\ off' = 0
                           ELSE buf' = buf /\ off' = off + k

\* Compaction keeps one byte too many.
BadConsumeCompaction(n) ==
  LET k   == MinOf(n, Unread)
      pos == off + k
  IN /\ rdata' = SubSeq(buf, off + 1, pos)
     /\ rcvd' = rcvd + k /\ sent' = sent
     /\ IF pos = Len(buf) THEN buf' = <<>> /\ off' = 0
        ELSE IF pos > MaxBuf \div 2
        THEN buf' = SubSeq(buf, pos, Len(buf)) /\ off' = 0
        ELSE buf' = buf /\ off' = pos

\* A read signals the writer only when it has emptied the buffer.
BadReadWake ==
  /\ rpc = "wake"
  /\ rpc' = "idle"
  /\ spaceReady' = (spaceReady \/ Unread = 0)
  /\ UNCHANGED <<rlen, rdata, rout, dataReady, bufVars, closeVars, writeVars>>

\* A write signals the reader only when the buffer was empty before.
BadWriteWake ==
  /\ wpc = "wake"
  /\ wpc' = "loop"
  /\ dataReady' = (dataReady \/ Unread = 1)
  /\ UNCHANGED <<wleft, wout, spaceReady, bufVars, closeVars, readVars>>

\* Woken by the close, a read reports it without draining the buffer.
BadReadDrain ==
  /\ rpc = "drain"
  /\ rpc' = "idle"
  /\ rout' = IF rerr = "nil" THEN werr ELSE "ErrClosedPipe"
  /\ UNCHANGED <<rlen, rdata, bufVars, sigVars, closeVars, writeVars>>

-----------------------------------------------------------------------------
(* The reader: pipe.read.                                                  *)

\* The error a read reports once the pipe is closed: the writer's, unless
\* the reader's end was closed too.
ReadCloseError == IF rerr = "nil" /\ werr # "nil" THEN werr ELSE "ErrClosedPipe"

\* pipe.consumeLocked: copy out up to n bytes, then compact the buffer.
Consume(n) ==
  LET k   == MinOf(n, Unread)
      pos == off + k
  IN /\ rdata' = SubSeq(buf, off + 1, pos)
     /\ rcvd' = rcvd + k
     /\ IF pos = Len(buf)
        THEN buf' = <<>> /\ off' = 0
        ELSE IF pos > MaxBuf \div 2
        THEN buf' = SubSeq(buf, pos + 1, Len(buf)) /\ off' = 0
        ELSE buf' = buf /\ off' = pos
     /\ sent' = sent

ReadCall(n) ==
  /\ rpc = "idle"
  /\ rpc' = "top"
  /\ rlen' = n
  /\ UNCHANGED <<rdata, rout, bufVars, sigVars, closeVars, writeVars>>

\* The deadline is found expired, at the top of the loop or in the select.
ReadTimeout ==
  /\ rpc \in {"top", "wait"}
  /\ rpc' = "idle"
  /\ rout' = "timeout"
  /\ UNCHANGED <<rlen, rdata, bufVars, sigVars, closeVars, writeVars>>

\* The critical section: take data, report the close, or go and wait.
ReadLocked ==
  /\ rpc = "top"
  /\ \/ /\ Unread > 0
        /\ Consume(rlen)
        /\ rpc' = "wake"
        /\ rout' = "data"
     \/ /\ Unread = 0
        /\ done
        /\ rpc' = "idle"
        /\ rout' = ReadCloseError
        /\ UNCHANGED <<rdata, bufVars>>
     \/ /\ Unread = 0
        /\ ~done
        /\ rpc' = "wait"
        /\ UNCHANGED <<rdata, rout, bufVars>>
  /\ UNCHANGED <<rlen, sigVars, closeVars, writeVars>>

\* wakeWriterLocked, after the unlock.
ReadWake ==
  /\ rpc = "wake"
  /\ rpc' = "idle"
  /\ spaceReady' = TRUE
  /\ UNCHANGED <<rlen, rdata, rout, dataReady, bufVars, closeVars, writeVars>>

ReadSelectData ==
  /\ rpc = "wait"
  /\ dataReady
  /\ dataReady' = FALSE
  /\ rpc' = "top"
  /\ UNCHANGED <<rlen, rdata, rout, spaceReady, bufVars, closeVars, writeVars>>

ReadSelectDone ==
  /\ rpc = "wait"
  /\ done
  /\ rpc' = "drain"
  /\ UNCHANGED <<rlen, rdata, rout, bufVars, sigVars, closeVars, writeVars>>

\* Woken by the close: what is still buffered is handed out first, and the
\* writer, which sees the close itself, is not signalled.
ReadDrain ==
  /\ rpc = "drain"
  /\ rpc' = "idle"
  /\ \/ /\ Unread > 0
        /\ Consume(rlen)
        /\ rout' = "data"
     \/ /\ Unread = 0
        /\ rout' = ReadCloseError
        /\ UNCHANGED <<rdata, bufVars>>
  /\ UNCHANGED <<rlen, sigVars, closeVars, writeVars>>

-----------------------------------------------------------------------------
(* The writer: pipe.write.                                                 *)

\* The error a write reports once the pipe is closed.
WriteCloseError == IF werr = "nil" /\ rerr # "nil" THEN rerr ELSE "ErrClosedPipe"

\* Append the next k bytes of the write in progress.
AppendBytes(k) ==
  /\ buf' = buf \o [i \in 1..k |-> sent + i]
  /\ sent' = sent + k
  /\ wleft' = wleft - k
  /\ UNCHANGED <<off, rcvd>>

\* closeWrite is called by the goroutine that writes, so not during a write.
WriteCall(n) ==
  /\ wpc = "idle"
  /\ cpc["write"] \in {"idle", "end"}
  /\ sent + n <= MaxBytes
  /\ wpc' = "check"
  /\ wleft' = n
  /\ UNCHANGED <<wout, bufVars, sigVars, closeVars, readVars>>

WriteTimeout ==
  /\ wpc \in {"check", "wait"}
  /\ wpc' = "idle"
  /\ wout' = "timeout"
  /\ UNCHANGED <<wleft, bufVars, sigVars, closeVars, readVars>>

\* The select before the loop: a closed pipe refuses the write.
WriteCheck ==
  /\ wpc = "check"
  /\ IF done
     THEN wpc' = "idle" /\ wout' = WriteCloseError
     ELSE wpc' = "loop" /\ wout' = wout
  /\ UNCHANGED <<wleft, bufVars, sigVars, closeVars, readVars>>

\* One turn of the loop: finish, append, report the close, or go and wait.
\* The close is looked at only when there is no room.
WriteLoop ==
  /\ wpc = "loop"
  /\ \/ /\ wleft = 0
        /\ wpc' = "idle"
        /\ wout' = "ok"
        /\ UNCHANGED <<wleft, bufVars>>
     \/ /\ wleft > 0
        /\ Unread < MaxBuf
        /\ AppendBytes(MinOf(wleft, MaxBuf - Unread))
        /\ wpc' = "wake"
        /\ wout' = wout
     \/ /\ wleft > 0
        /\ Unread >= MaxBuf
        /\ IF done
           THEN wpc' = "idle" /\ wout' = WriteCloseError
           ELSE wpc' = "wait" /\ wout' = wout
        /\ UNCHANGED <<wleft, bufVars>>
  /\ UNCHANGED <<sigVars, closeVars, readVars>>

\* wakeReaderLocked, after the unlock.
WriteWake ==
  /\ wpc = "wake"
  /\ wpc' = "loop"
  /\ dataReady' = TRUE
  /\ UNCHANGED <<wleft, wout, spaceReady, bufVars, closeVars, readVars>>

WriteSelectSpace ==
  /\ wpc = "wait"
  /\ spaceReady
  /\ spaceReady' = FALSE
  /\ wpc' = "loop"
  /\ UNCHANGED <<wleft, wout, dataReady, bufVars, closeVars, readVars>>

WriteSelectDone ==
  /\ wpc = "wait"
  /\ done
  /\ wpc' = "idle"
  /\ wout' = WriteCloseError
  /\ UNCHANGED <<wleft, bufVars, sigVars, closeVars, readVars>>

-----------------------------------------------------------------------------
(* The closers: pipe.closeRead and pipe.closeWrite with their default      *)
(* errors, each of the three statements a step.                            *)

CloseStore(e) ==
  /\ cpc[e] = "idle"
  /\ e = "write" => wpc = "idle"
  /\ IF e = "read"
     THEN rerr' = "ErrClosedPipe" /\ werr' = werr
     ELSE werr' = "EOF" /\ rerr' = rerr
  /\ cpc' = [cpc EXCEPT ![e] = "stored"]
  /\ UNCHANGED <<done, bufVars, sigVars, readVars, writeVars>>

CloseDone(e) ==
  /\ cpc[e] = "stored"
  /\ done' = TRUE
  /\ cpc' = [cpc EXCEPT ![e] = "closed"]
  /\ UNCHANGED <<rerr, werr, bufVars, sigVars, readVars, writeVars>>

\* closeRead wakes the writer, closeWrite wakes the reader.
CloseWake(e) ==
  /\ cpc[e] = "closed"
  /\ cpc' = [cpc EXCEPT ![e] = "end"]
  /\ IF e = "read"
     THEN spaceReady' = TRUE /\ dataReady' = dataReady
     ELSE dataReady' = TRUE /\ spaceReady' = spaceReady
  /\ UNCHANGED <<done, rerr, werr, bufVars, readVars, writeVars>>

-----------------------------------------------------------------------------
\* The steps of a call that has begun, deadlines aside.
ReaderStep == ReadLocked \/ ReadWake \/ ReadSelectData \/ ReadSelectDone \/ ReadDrain
WriterStep == WriteCheck \/ WriteLoop \/ WriteWake \/ WriteSelectSpace \/ WriteSelectDone
CloserStep(e) == CloseDone(e) \/ CloseWake(e)

Next ==
  \/ \E n \in 1..MaxRead : ReadCall(n)
  \/ ReadTimeout
  \/ ReaderStep
  \/ \E n \in 1..MaxWrite : WriteCall(n)
  \/ WriteTimeout
  \/ WriterStep
  \/ \E e \in Ends : CloseStore(e) \/ CloserStep(e)

Spec == Init /\ [][Next]_vars

\* A goroutine that can run is eventually run by the Go scheduler.  Nothing
\* obliges a caller to start a call, a deadline to expire or an end to close.
Fairness ==
  /\ WF_vars(ReaderStep)
  /\ WF_vars(WriterStep)
  /\ \A e \in Ends : WF_vars(CloserStep(e))

FairSpec == Spec /\ Fairness

-----------------------------------------------------------------------------
(* What must hold.                                                         *)

ReadErrors  == {"EOF", "ErrClosedPipe"}
TypeOK ==
  /\ buf \in Seq(Nat) /\ off \in 0..Len(buf) /\ sent \in Nat /\ rcvd \in Nat
  /\ dataReady \in BOOLEAN /\ spaceReady \in BOOLEAN /\ done \in BOOLEAN
  /\ rerr \in {"nil", "ErrClosedPipe"} /\ werr \in {"nil", "EOF"}
  /\ rpc \in {"idle", "top", "wake", "wait", "drain"}
  /\ rlen \in 0..MaxRead /\ rdata \in Seq(Nat)
  /\ rout \in {"none", "data", "timeout"} \cup ReadErrors
  /\ wpc \in {"idle", "check", "loop", "wake", "wait"}
  /\ wleft \in 0..MaxWrite
  /\ wout \in {"none", "ok", "timeout", "ErrClosedPipe"}
  /\ cpc \in [Ends -> {"idle", "stored", "closed", "end"}]

\* The unread bytes never exceed maxBuf, and compaction keeps the backing
\* array, consumed prefix included, within one and a half times that: the
\* "bound backing array growth" of consumeLocked.
BackingBounded ==
  /\ Unread <= MaxBuf
  /\ Len(buf) <= MaxBuf + MaxBuf \div 2

\* The bytes in the buffer are exactly the positions rcvd+1 .. sent, in
\* order, whatever appends, partial reads and compactions came before.
UnreadInOrder ==
  /\ sent = rcvd + Unread
  /\ \A j \in off + 1 .. Len(buf) : buf[j] = rcvd + (j - off)

\* A reader blocked in the select of pipe.read with data in the buffer has
\* a wake-up on its way.  The reader tests the buffer under p.mu and blocks
\* after unlocking, and the writer signals after unlocking, so an append
\* may fall between the two.
NoLostReaderWakeup ==
  rpc = "wait" /\ Unread > 0 => dataReady \/ wpc = "wake"

\* The same for a writer blocked in pipe.write with room in the buffer.  A
\* reader that drains after the close does not signal: the close itself
\* must release the writer then.
NoLostWriterWakeup ==
  wpc = "wait" /\ Unread < MaxBuf => spaceReady \/ rpc = "wake" \/ done

\* No wake-up is lost in either direction.
NoLostWakeups == NoLostReaderWakeup /\ NoLostWriterWakeup

\* io.EOF is the promise that the stream ended there: it is reported only
\* after every byte the writer was told is accepted has been read.
EofMeansComplete == rout = "EOF" => rcvd = sent /\ werr = "EOF"

\* pipe implements the bounded byte stream: order, capacity, no data lost
\* before a close error, no write accepted after the close.
Stream == INSTANCE ByteStream WITH
  Capacity  <- MaxBuf,
  produced  <- sent,
  consumed  <- rcvd,
  delivered <- rdata,
  outcome   <- rout,
  writing   <- wpc \in {"loop", "wake", "wait"},
  closed    <- done

ImplementsByteStream == Stream!Spec

\* A call of Read returns once there is data or the pipe is being closed.
Closing == \E e \in Ends : cpc[e] # "idle"
ReadReturns == rpc # "idle" /\ (Unread > 0 \/ Closing) ~> rpc = "idle"

\* A write that waits for room goes on once the reader has made some, and a
\* write ends once the pipe is being closed.
WriteGoesOn ==
  /\ wpc = "wait" /\ Unread < MaxBuf ~> wpc # "wait"
  /\ wpc # "idle" /\ Closing ~> wpc = "idle"
=============================================================================
