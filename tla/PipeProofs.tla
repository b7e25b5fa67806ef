----------------------------- MODULE PipeProofs -----------------------------
(***************************************************************************)
(* Proofs about Pipe for every size of the buffer and of the calls.        *)
(* Facts about sequences and numbers are stated over constants, apart from *)
(* the state, and applied to the values before and after a step.           *)
(***************************************************************************)
EXTENDS Pipe, SequenceTheorems, TLAPS

Half == MaxBuf \div 2

\* The threshold maxBuf / 2 of consumeLocked is a natural number (io_pipe.go:105).
LEMMA HalfType == Half \in Nat /\ Half <= MaxBuf
  BY PipeAssumption DEF PipeAssumption, Half

\* The bytes of b after offset o are the positions that follow r.
Ordered(b, o, r) == \A j \in o + 1 .. Len(b) : b[j] = r + (j - o)

\* A buffer that holds, after offset o, the bytes that follow r.
Holds(b, o, r) ==
  /\ b \in Seq(Nat) /\ o \in 0..Len(b) /\ r \in Nat
  /\ o <= Half /\ Len(b) - o <= MaxBuf
  /\ Ordered(b, o, r)

\* The positions s+1 .. s+k are a sequence of length k.
LEMMA PositionsSeq ==
  ASSUME NEW s \in Nat, NEW k \in Nat
  PROVE  /\ [i \in 1..k |-> s + i] \in Seq(Nat)
         /\ Len([i \in 1..k |-> s + i]) = k
  <1>1. [i \in 1..k |-> s + i] \in [1..k -> Nat]
    OBVIOUS
  <1> QED BY <1>1

\* The k bytes consumeLocked copies out of such a buffer.
LEMMA ConsumedBytes ==
  ASSUME NEW b, NEW o, NEW r, Holds(b, o, r), NEW k \in 0..(Len(b) - o)
  PROVE  /\ SubSeq(b, o + 1, o + k) = [i \in 1..k |-> r + i]
         /\ SubSeq(b, o + 1, o + k) \in Seq(Nat)
  <1>1. b \in Seq(Nat) /\ o \in Nat /\ Len(b) \in Nat /\ o <= Len(b) /\ r \in Nat
    BY DEF Holds
  <1>2. SubSeq(b, o + 1, o + k) = [i \in 1..k |-> b[o + i]]
    BY <1>1
  <1>3. \A i \in 1..k : b[o + i] = r + i
    BY <1>1 DEF Holds, Ordered
  <1>4. [i \in 1..k |-> b[o + i]] = [i \in 1..k |-> r + i]
    BY <1>3
  <1>5. [i \in 1..k |-> r + i] \in Seq(Nat)
    BY <1>1, PositionsSeq
  <1> QED BY <1>2, <1>4, <1>5

\* The three ways consumeLocked leaves the buffer keep the other bytes.
LEMMA ConsumedBuffer ==
  ASSUME NEW b, NEW o, NEW r, Holds(b, o, r), NEW k \in 0..(Len(b) - o),
         NEW b2, NEW o2,
         IF o + k = Len(b) THEN b2 = <<>> /\ o2 = 0
         ELSE IF o + k > Half THEN b2 = SubSeq(b, o + k + 1, Len(b)) /\ o2 = 0
         ELSE b2 = b /\ o2 = o + k
  PROVE  Holds(b2, o2, r + k) /\ Len(b2) - o2 = Len(b) - o - k
  <1> DEFINE pos == o + k
  <1>1. /\ b \in Seq(Nat) /\ o \in Nat /\ Len(b) \in Nat /\ o <= Len(b) /\ r \in Nat
        /\ pos \in Nat /\ pos <= Len(b) /\ Len(b) - o <= MaxBuf
        /\ Half \in Nat /\ Half <= MaxBuf /\ MaxBuf \in Nat
    BY HalfType, PipeAssumption DEF Holds, PipeAssumption
  <1>2. \A j \in pos + 1 .. Len(b) : b[j] = r + k + (j - pos)
    BY <1>1 DEF Holds, Ordered
  <1>3. CASE pos = Len(b)
    <2>1. b2 = <<>> /\ o2 = 0
      BY <1>3
    <2>2. b2 \in Seq(Nat) /\ Len(b2) = 0
      BY <2>1, EmptySeq
    <2> QED BY <2>1, <2>2, <1>1, <1>3 DEF Holds, Ordered
  <1>4. CASE pos # Len(b) /\ pos > Half
    <2>1. b2 = SubSeq(b, pos + 1, Len(b)) /\ o2 = 0
      BY <1>4
    <2>2. \A i \in pos + 1 .. Len(b) : b[i] \in Nat
      BY <1>1, ElementOfSeq
    <2>3. /\ b2 \in Seq(Nat)
          /\ Len(b2) = Len(b) - pos
          /\ \A j \in 1..Len(b) - pos : b2[j] = b[pos + j]
      <3> HIDE DEF pos
      <3>1. /\ SubSeq(b, pos + 1, Len(b)) \in Seq(Nat)
            /\ Len(SubSeq(b, pos + 1, Len(b)))
                 = IF pos + 1 <= Len(b) THEN Len(b) - (pos + 1) + 1 ELSE 0
            /\ \A i \in 1 .. Len(b) - (pos + 1) + 1 :
                  SubSeq(b, pos + 1, Len(b))[i] = b[pos + 1 + i - 1]
        <4>1. pos + 1 \in Int /\ Len(b) \in Int
          BY <1>1
        <4> QED BY <4>1, <2>2, SubSeqProperties
      <3> QED BY <3>1, <2>1, <1>1
    <2> QED BY <2>1, <2>3, <1>1, <1>2, <1>4 DEF Holds, Ordered
  <1>5. CASE pos # Len(b) /\ ~(pos > Half)
    <2>1. b2 = b /\ o2 = pos
      BY <1>5
    <2> QED BY <2>1, <1>1, <1>2, <1>5 DEF Holds, Ordered
  <1> QED BY <1>3, <1>4, <1>5

\* Appending the next bytes, no more than there is room for.
LEMMA AppendedBuffer ==
  ASSUME NEW b, NEW o, NEW r, Holds(b, o, r),
         NEW s \in Nat, s = r + (Len(b) - o),
         NEW k \in Nat, k <= MaxBuf - (Len(b) - o)
  PROVE  /\ Holds(b \o [i \in 1..k |-> s + i], o, r)
         /\ Len(b \o [i \in 1..k |-> s + i]) = Len(b) + k
  <1> DEFINE new == [i \in 1..k |-> s + i]
  <1>1. /\ b \in Seq(Nat) /\ o \in Nat /\ Len(b) \in Nat /\ o <= Len(b) /\ r \in Nat
        /\ o <= Half /\ MaxBuf \in Nat
    BY PipeAssumption DEF Holds, PipeAssumption
  <1>2. new \in Seq(Nat) /\ Len(new) = k /\ \A i \in 1..k : new[i] = s + i
    BY PositionsSeq
  <1> HIDE DEF new
  <1>3. /\ b \o new \in Seq(Nat) /\ Len(b \o new) = Len(b) + k
        /\ \A j \in 1..Len(b) + k :
              (b \o new)[j] = IF j <= Len(b) THEN b[j] ELSE new[j - Len(b)]
    BY <1>1, <1>2, ConcatProperties
  <1>4. ASSUME NEW j \in o + 1 .. Len(b) + k
        PROVE  (b \o new)[j] = r + (j - o)
    <2>1. CASE j <= Len(b)
      <3>1. b[j] = r + (j - o)
        BY <2>1, <1>1 DEF Holds, Ordered
      <3> QED BY <2>1, <3>1, <1>1, <1>3
    <2>2. CASE j > Len(b)
      <3>1. new[j - Len(b)] = s + (j - Len(b))
        BY <2>2, <1>1, <1>2
      <3> QED BY <2>2, <3>1, <1>1, <1>3
    <2>3. j <= Len(b) \/ j > Len(b)
      BY <1>1
    <2> QED BY <2>1, <2>2, <2>3
  <1>5. Holds(b \o new, o, r)
    BY <1>1, <1>3, <1>4 DEF Holds, Ordered
  <1> QED BY <1>3, <1>5 DEF new

\* copy() moves no more than either side has (io_pipe.go:100, 176).
LEMMA MinOfFacts ==
  ASSUME NEW a \in Nat, NEW b \in Nat
  PROVE  /\ MinOf(a, b) \in 0..a /\ MinOf(a, b) <= b
         /\ a > 0 /\ b > 0 => MinOf(a, b) > 0
  BY DEF MinOf

-----------------------------------------------------------------------------
(* The buffer through a read and through an append.                        *)

BufferInv ==
  /\ Holds(buf, off, rcvd)
  /\ sent \in Nat /\ sent = rcvd + Unread

\* pipe.bufLen is a natural number (io_pipe.go:92-95).
LEMMA UnreadType ==
  ASSUME BufferInv
  PROVE  Unread \in Nat /\ Unread <= MaxBuf /\ MaxBuf \in Nat /\ MaxBuf > 0 /\ rcvd \in Nat
  BY PipeAssumption DEF BufferInv, Holds, Unread, PipeAssumption

\* consumeLocked keeps the bytes that stay, in order (io_pipe.go:97-112).
LEMMA ConsumeKeepsBuffer ==
  ASSUME BufferInv, NEW n \in Nat, Consume(n)
  PROVE  /\ BufferInv'
         /\ rdata' = [i \in 1..MinOf(n, Unread) |-> rcvd + i]
         /\ rdata' \in Seq(Nat)
         /\ rcvd' = rcvd + MinOf(n, Unread)
         /\ sent' = sent
  <1> DEFINE k == MinOf(n, Unread)
  <1>1. k \in 0..(Len(buf) - off)
    BY UnreadType, MinOfFacts DEF Unread
  <1>2. /\ rdata' = SubSeq(buf, off + 1, off + k)
        /\ rcvd' = rcvd + k /\ sent' = sent
        /\ IF off + k = Len(buf) THEN buf' = <<>> /\ off' = 0
           ELSE IF off + k > Half
           THEN buf' = SubSeq(buf, off + k + 1, Len(buf)) /\ off' = 0
           ELSE buf' = buf /\ off' = off + k
    BY DEF Consume, Half
  <1> HIDE DEF k
  <1>3. rdata' = [i \in 1..k |-> rcvd + i] /\ rdata' \in Seq(Nat)
    BY <1>1, <1>2, ConsumedBytes DEF BufferInv
  <1>4. Holds(buf', off', rcvd + k) /\ Len(buf') - off' = Len(buf) - off - k
    BY <1>1, <1>2, ConsumedBuffer DEF BufferInv
  <1>5. sent = (rcvd + k) + (Len(buf) - off - k)
    BY <1>1, UnreadType DEF BufferInv, Holds, Unread
  <1>6. BufferInv'
    BY <1>2, <1>4, <1>5 DEF BufferInv, Unread
  <1> QED BY <1>2, <1>3, <1>6 DEF k

\* pipe.write appends the next bytes and no more than fit (io_pipe.go:171-179).
LEMMA AppendKeepsBuffer ==
  ASSUME BufferInv, NEW k \in Nat, k <= MaxBuf - Unread, AppendBytes(k)
  PROVE  /\ BufferInv'
         /\ sent' = sent + k
         /\ rcvd' = rcvd
  <1>1. /\ buf' = buf \o [i \in 1..k |-> sent + i]
        /\ sent' = sent + k /\ off' = off /\ rcvd' = rcvd
    BY DEF AppendBytes
  <1>2. sent \in Nat /\ sent = rcvd + (Len(buf) - off) /\ k <= MaxBuf - (Len(buf) - off)
    BY DEF BufferInv, Unread
  <1>3. /\ Holds(buf \o [i \in 1..k |-> sent + i], off, rcvd)
        /\ Len(buf \o [i \in 1..k |-> sent + i]) = Len(buf) + k
    BY <1>2, AppendedBuffer DEF BufferInv
  <1>4. /\ sent + k \in Nat
        /\ sent + k = rcvd + ((Len(buf) + k) - off)
    BY <1>2 DEF BufferInv, Holds
  <1>5. Holds(buf', off', rcvd')
    BY <1>1, <1>3
  <1>6. Unread' = (Len(buf) + k) - off
    <2>1. Len(buf') = Len(buf) + k
      BY <1>1, <1>3, Zenon
    <2>2. Len(buf') - off' = (Len(buf) + k) - off
      BY <2>1, <1>1, Zenon
    <2> QED BY <2>2 DEF Unread
  <1>7. sent' \in Nat /\ sent' = rcvd' + Unread'
    BY <1>1, <1>4, <1>6
  <1> QED BY <1>1, <1>5, <1>7 DEF BufferInv

-----------------------------------------------------------------------------
(* The inductive invariant.                                                *)

\* A read in progress asks for at least one byte, and one that drains was
\* woken by the close.
ReadInv ==
  /\ rpc \in {"top", "wait", "drain"} => rlen > 0
  /\ rpc = "drain" => done

\* The writer's end is closed between two writes; from then on done is set
\* before another write may begin, and no write gets past its first select.
CloseInv ==
  /\ werr = "nil" <=> cpc["write"] = "idle"
  /\ cpc["write"] \in {"stored", "closed"} => wpc = "idle"
  /\ cpc["write"] # "idle" => wpc \in {"idle", "check"}
  /\ cpc["write"] \in {"closed", "end"} => done

Inv ==
  /\ TypeOK
  /\ BufferInv
  /\ ReadInv
  /\ CloseInv
  /\ NoLostReaderWakeup
  /\ NoLostWriterWakeup
  /\ EofMeansComplete

\* A pipe starts empty, open and with no call under way (io_pipe.go:253-265).
LEMMA InitInv == Init => Inv
  <1> SUFFICES ASSUME Init PROVE Inv
    OBVIOUS
  <1>1. BufferInv
    BY HalfType, PipeAssumption, EmptySeq
    DEF Init, BufferInv, Holds, Ordered, Unread, PipeAssumption
  <1>2. TypeOK
    <2>1. cpc \in [Ends -> {"idle", "stored", "closed", "end"}]
      BY DEF Init
    <2>2. <<>> \in Seq(Nat) /\ Len(<<>>) = 0
      BY EmptySeq
    <2>3. buf \in Seq(Nat) /\ off \in 0..Len(buf) /\ rdata \in Seq(Nat)
      BY <2>2 DEF Init
    <2>4. sent \in Nat /\ rcvd \in Nat /\ rlen \in 0..MaxRead /\ wleft \in 0..MaxWrite
      BY PipeAssumption DEF Init, PipeAssumption
    <2> QED BY <2>1, <2>3, <2>4 DEF Init, TypeOK
  <1> QED BY <1>1, <1>2
      DEF Init, Inv, ReadInv, CloseInv, NoLostReaderWakeup, NoLostWriterWakeup,
          EofMeansComplete, Ends

\* Steps that leave the buffer alone leave what is said of it alone.
LEMMA BufferUnchanged ==
  ASSUME BufferInv, UNCHANGED bufVars
  PROVE  BufferInv' /\ Unread' = Unread
  BY DEF BufferInv, Unread, bufVars, Holds, Ordered

\* A type-correct state whose buffer component comes from BufferInv.
LEMMA TypeFromBuffer ==
  ASSUME BufferInv
  PROVE  buf \in Seq(Nat) /\ off \in 0..Len(buf) /\ sent \in Nat /\ rcvd \in Nat
  BY DEF BufferInv, Holds

\* A read begins: it has looked at nothing yet (io_pipe.go:114-115).
LEMMA ReadCallInv ==
  ASSUME Inv, NEW n \in 1..MaxRead, ReadCall(n)
  PROVE  Inv'
  <1>1. BufferInv' /\ Unread' = Unread
    BY BufferUnchanged DEF Inv, ReadCall
  <1>2. TypeOK'
    BY <1>1 DEF Inv, TypeOK, ReadCall, bufVars, sigVars, closeVars, writeVars
  <1> QED BY <1>1, <1>2
      DEF Inv, ReadInv, CloseInv, NoLostReaderWakeup, NoLostWriterWakeup, EofMeansComplete,
          ReadCall, bufVars, sigVars, closeVars, writeVars

\* A read that finds its deadline over returns (io_pipe.go:116-120).
LEMMA ReadTimeoutInv ==
  ASSUME Inv, ReadTimeout
  PROVE  Inv'
  <1>1. BufferInv' /\ Unread' = Unread
    BY BufferUnchanged DEF Inv, ReadTimeout
  <1>2. TypeOK'
    BY <1>1 DEF Inv, TypeOK, ReadTimeout, bufVars, sigVars, closeVars, writeVars
  <1> QED BY <1>1, <1>2
      DEF Inv, ReadInv, CloseInv, NoLostReaderWakeup, NoLostWriterWakeup, EofMeansComplete,
          ReadTimeout, bufVars, sigVars, closeVars, writeVars

\* The read that took bytes signals the writer (io_pipe.go:66-74, 125).
LEMMA ReadWakeInv ==
  ASSUME Inv, ReadWake
  PROVE  Inv'
  <1>1. BufferInv' /\ Unread' = Unread
    BY BufferUnchanged DEF Inv, ReadWake
  <1>2. TypeOK'
    BY <1>1 DEF Inv, TypeOK, ReadWake, bufVars, sigVars, closeVars, writeVars, Ends
  <1> QED BY <1>1, <1>2
      DEF Inv, ReadInv, CloseInv, NoLostReaderWakeup, NoLostWriterWakeup, EofMeansComplete,
          TypeOK, Ends, ReadWake, bufVars, sigVars, closeVars, writeVars

\* A read woken by a writer looks at the buffer again (io_pipe.go:134-135).
LEMMA ReadSelectDataInv ==
  ASSUME Inv, ReadSelectData
  PROVE  Inv'
  <1>1. BufferInv' /\ Unread' = Unread
    BY BufferUnchanged DEF Inv, ReadSelectData
  <1>2. TypeOK'
    BY <1>1 DEF Inv, TypeOK, ReadSelectData, bufVars, sigVars, closeVars, writeVars, Ends
  <1> QED BY <1>1, <1>2
      DEF Inv, ReadInv, CloseInv, NoLostReaderWakeup, NoLostWriterWakeup, EofMeansComplete,
          TypeOK, Ends, ReadSelectData, bufVars, sigVars, closeVars, writeVars

\* A read woken by a close goes to drain the buffer (io_pipe.go:136).
LEMMA ReadSelectDoneInv ==
  ASSUME Inv, ReadSelectDone
  PROVE  Inv'
  <1>1. BufferInv' /\ Unread' = Unread
    BY BufferUnchanged DEF Inv, ReadSelectDone
  <1>2. TypeOK'
    BY <1>1 DEF Inv, TypeOK, ReadSelectDone, bufVars, sigVars, closeVars, writeVars, Ends
  <1> QED BY <1>1, <1>2
      DEF Inv, ReadInv, CloseInv, NoLostReaderWakeup, NoLostWriterWakeup, EofMeansComplete,
          TypeOK, Ends, ReadSelectDone, bufVars, sigVars, closeVars, writeVars

\* A write that finds its deadline over returns (io_pipe.go:163-169).
LEMMA WriteTimeoutInv ==
  ASSUME Inv, WriteTimeout
  PROVE  Inv'
  <1>1. BufferInv' /\ Unread' = Unread
    BY BufferUnchanged DEF Inv, WriteTimeout
  <1>2. TypeOK'
    BY <1>1 DEF Inv, TypeOK, WriteTimeout, bufVars, sigVars, closeVars, readVars, Ends
  <1> QED BY <1>1, <1>2
      DEF Inv, ReadInv, CloseInv, NoLostReaderWakeup, NoLostWriterWakeup, EofMeansComplete,
          TypeOK, Ends, WriteTimeout, bufVars, sigVars, closeVars, readVars

\* A write on an open pipe goes on, on a closed one it fails (io_pipe.go:163-169).
LEMMA WriteCheckInv ==
  ASSUME Inv, WriteCheck
  PROVE  Inv'
  <1>1. BufferInv' /\ Unread' = Unread
    BY BufferUnchanged DEF Inv, WriteCheck
  <1>2. TypeOK'
    BY <1>1 DEF Inv, TypeOK, WriteCheck, WriteCloseError, bufVars, sigVars, closeVars, readVars, Ends
  <1> QED BY <1>1, <1>2
      DEF Inv, ReadInv, CloseInv, NoLostReaderWakeup, NoLostWriterWakeup, EofMeansComplete,
          TypeOK, Ends, WriteCheck, bufVars, sigVars, closeVars, readVars

\* The write that appended signals the reader (io_pipe.go:56-64, 179).
LEMMA WriteWakeInv ==
  ASSUME Inv, WriteWake
  PROVE  Inv'
  <1>1. BufferInv' /\ Unread' = Unread
    BY BufferUnchanged DEF Inv, WriteWake
  <1>2. TypeOK'
    BY <1>1 DEF Inv, TypeOK, WriteWake, bufVars, sigVars, closeVars, readVars, Ends
  <1> QED BY <1>1, <1>2
      DEF Inv, ReadInv, CloseInv, NoLostReaderWakeup, NoLostWriterWakeup, EofMeansComplete,
          TypeOK, Ends, WriteWake, bufVars, sigVars, closeVars, readVars

\* A write woken by a reader looks for room again (io_pipe.go:188-189).
LEMMA WriteSelectSpaceInv ==
  ASSUME Inv, WriteSelectSpace
  PROVE  Inv'
  <1>1. BufferInv' /\ Unread' = Unread
    BY BufferUnchanged DEF Inv, WriteSelectSpace
  <1>2. TypeOK'
    BY <1>1 DEF Inv, TypeOK, WriteSelectSpace, bufVars, sigVars, closeVars, readVars, Ends
  <1> QED BY <1>1, <1>2
      DEF Inv, ReadInv, CloseInv, NoLostReaderWakeup, NoLostWriterWakeup, EofMeansComplete,
          TypeOK, Ends, WriteSelectSpace, bufVars, sigVars, closeVars, readVars

\* A write woken by a close returns its error (io_pipe.go:190-191).
LEMMA WriteSelectDoneInv ==
  ASSUME Inv, WriteSelectDone
  PROVE  Inv'
  <1>1. BufferInv' /\ Unread' = Unread
    BY BufferUnchanged DEF Inv, WriteSelectDone
  <1>2. TypeOK'
    BY <1>1 DEF Inv, TypeOK, WriteSelectDone, WriteCloseError, bufVars, sigVars, closeVars, readVars, Ends
  <1> QED BY <1>1, <1>2
      DEF Inv, ReadInv, CloseInv, NoLostReaderWakeup, NoLostWriterWakeup, EofMeansComplete,
          TypeOK, Ends, WriteSelectDone, bufVars, sigVars, closeVars, readVars

\* A write begins with its bytes all ahead of it (io_pipe.go:162-163).
LEMMA WriteCallInv ==
  ASSUME Inv, NEW n \in 1..MaxWrite, WriteCall(n)
  PROVE  Inv'
  <1>1. BufferInv' /\ Unread' = Unread
    BY BufferUnchanged DEF Inv, WriteCall
  <1>2. TypeOK'
    BY <1>1 DEF Inv, TypeOK, WriteCall, bufVars, sigVars, closeVars, readVars, Ends
  <1> QED BY <1>1, <1>2
      DEF Inv, ReadInv, CloseInv, NoLostReaderWakeup, NoLostWriterWakeup, EofMeansComplete,
          TypeOK, Ends, WriteCall, bufVars, sigVars, closeVars, readVars

\* Only the first error of a side is kept (io_pipe.go:10-28).
LEMMA CloseStoreInv ==
  ASSUME Inv, NEW e \in Ends, CloseStore(e)
  PROVE  Inv'
  <1>1. BufferInv' /\ Unread' = Unread
    BY BufferUnchanged DEF Inv, CloseStore
  <1>2. TypeOK'
    BY <1>1 DEF Inv, TypeOK, CloseStore, bufVars, sigVars, readVars, writeVars, Ends
  <1> QED BY <1>1, <1>2
      DEF Inv, ReadInv, CloseInv, NoLostReaderWakeup, NoLostWriterWakeup, EofMeansComplete,
          TypeOK, Ends, CloseStore, bufVars, sigVars, readVars, writeVars

\* The close marks the pipe done (io_pipe.go:157, 204).
LEMMA CloseDoneInv ==
  ASSUME Inv, NEW e \in Ends, CloseDone(e)
  PROVE  Inv'
  <1>1. BufferInv' /\ Unread' = Unread
    BY BufferUnchanged DEF Inv, CloseDone
  <1>2. TypeOK'
    BY <1>1 DEF Inv, TypeOK, CloseDone, bufVars, sigVars, readVars, writeVars, Ends
  <1> QED BY <1>1, <1>2
      DEF Inv, ReadInv, CloseInv, NoLostReaderWakeup, NoLostWriterWakeup, EofMeansComplete,
          TypeOK, Ends, CloseDone, bufVars, sigVars, readVars, writeVars

\* The close wakes the other side (io_pipe.go:76-90).
LEMMA CloseWakeInv ==
  ASSUME Inv, NEW e \in Ends, CloseWake(e)
  PROVE  Inv'
  <1>1. BufferInv' /\ Unread' = Unread
    BY BufferUnchanged DEF Inv, CloseWake
  <1>2. TypeOK'
    <2>1. cpc' \in [Ends -> {"idle", "stored", "closed", "end"}]
      BY DEF Inv, TypeOK, CloseWake
    <2>2. dataReady' \in BOOLEAN /\ spaceReady' \in BOOLEAN
      BY DEF Inv, TypeOK, CloseWake
    <2> QED BY <2>1, <2>2 DEF Inv, TypeOK, CloseWake, bufVars, readVars, writeVars
  <1> QED BY <1>1, <1>2
      DEF Inv, ReadInv, CloseInv, NoLostReaderWakeup, NoLostWriterWakeup, EofMeansComplete,
          TypeOK, Ends, CloseWake, bufVars, sigVars, readVars, writeVars

\* The steps that take bytes out of the buffer.
LEMMA ReadLockedInv ==
  ASSUME Inv, ReadLocked
  PROVE  Inv'
  <1>1. CASE Unread > 0
    <2>1. /\ Consume(rlen) /\ rpc' = "wake" /\ rout' = "data"
          /\ UNCHANGED <<rlen, sigVars, closeVars, writeVars>>
      BY <1>1 DEF ReadLocked
    <2>2. rlen \in Nat
      BY DEF Inv, TypeOK
    <2>3. BufferInv' /\ rdata' \in Seq(Nat)
      BY <2>1, <2>2, ConsumeKeepsBuffer DEF Inv
    <2>4. TypeOK'
      <3>1. (buf \in Seq(Nat) /\ off \in 0..Len(buf) /\ sent \in Nat /\ rcvd \in Nat)'
        BY <2>3 DEF BufferInv, Holds
      <3> QED BY <2>1, <2>3, <3>1 DEF Inv, TypeOK, sigVars, closeVars, writeVars
    \* The writer that waits for room is about to be signalled.
    <2>5. NoLostReaderWakeup' /\ NoLostWriterWakeup'
      BY <2>1 DEF NoLostReaderWakeup, NoLostWriterWakeup
    <2> QED BY <2>1, <2>3, <2>4, <2>5
        DEF Inv, ReadInv, CloseInv, EofMeansComplete, sigVars, closeVars, writeVars
  <1>2. CASE ~(Unread > 0)
    <2>1. /\ UNCHANGED <<rdata, bufVars, rlen, sigVars, closeVars, writeVars>> /\ rpc = "top"
          /\ \/ done /\ rpc' = "idle" /\ rout' = ReadCloseError
             \/ ~done /\ rpc' = "wait" /\ rout' = rout
      BY <1>2 DEF ReadLocked
    <2>2. BufferInv' /\ Unread' = Unread
      BY <2>1, BufferUnchanged DEF Inv
    <2>3. TypeOK'
      BY <2>1, <2>2 DEF Inv, TypeOK, ReadCloseError, ReadErrors, bufVars, sigVars, closeVars, writeVars
    <2>4. Unread = 0 /\ sent = rcvd
      BY <1>2, UnreadType DEF Inv, BufferInv
    <2>5. EofMeansComplete'
      BY <2>1, <2>4 DEF Inv, TypeOK, EofMeansComplete, ReadCloseError, bufVars, closeVars
    <2>6. NoLostReaderWakeup'
      BY <1>2, <2>2 DEF NoLostReaderWakeup
    <2> QED BY <2>1, <2>2, <2>3, <2>5, <2>6
        DEF Inv, ReadInv, CloseInv, NoLostWriterWakeup, sigVars, closeVars, writeVars
  <1> QED BY <1>1, <1>2

\* A read after the close takes what is left, or fails (io_pipe.go:136-145).
LEMMA ReadDrainInv ==
  ASSUME Inv, ReadDrain
  PROVE  Inv'
  <1>1. CASE Unread > 0
    <2>1. /\ Consume(rlen) /\ rpc' = "idle" /\ rout' = "data"
          /\ UNCHANGED <<rlen, sigVars, closeVars, writeVars>>
      BY <1>1, UnreadType DEF Inv, ReadDrain
    <2>2. rlen \in Nat
      BY DEF Inv, TypeOK
    <2>3. BufferInv' /\ rdata' \in Seq(Nat)
      BY <2>1, <2>2, ConsumeKeepsBuffer DEF Inv
    <2>4. TypeOK'
      <3>1. (buf \in Seq(Nat) /\ off \in 0..Len(buf) /\ sent \in Nat /\ rcvd \in Nat)'
        BY <2>3 DEF BufferInv, Holds
      <3> QED BY <2>1, <2>3, <3>1 DEF Inv, TypeOK, sigVars, closeVars, writeVars
    \* A writer that waits for room is released by the close.
    <2>5. done' /\ NoLostReaderWakeup' /\ NoLostWriterWakeup'
      BY <2>1 DEF Inv, ReadInv, ReadDrain, NoLostReaderWakeup, NoLostWriterWakeup, closeVars
    <2> QED BY <2>1, <2>3, <2>4, <2>5
        DEF Inv, ReadInv, CloseInv, EofMeansComplete, sigVars, closeVars, writeVars
  <1>2. CASE ~(Unread > 0)
    <2>1. /\ UNCHANGED <<rdata, bufVars, rlen, sigVars, closeVars, writeVars>> /\ rpc = "drain"
          /\ rpc' = "idle" /\ rout' = ReadCloseError
      BY <1>2 DEF ReadDrain
    <2>2. BufferInv' /\ Unread' = Unread
      BY <2>1, BufferUnchanged DEF Inv
    <2>3. TypeOK'
      BY <2>1, <2>2 DEF Inv, TypeOK, ReadCloseError, ReadErrors, bufVars, sigVars, closeVars, writeVars
    <2>4. Unread = 0 /\ sent = rcvd
      BY <1>2, UnreadType DEF Inv, BufferInv
    <2>5. EofMeansComplete'
      BY <2>1, <2>4 DEF Inv, TypeOK, EofMeansComplete, ReadCloseError, bufVars, closeVars
    <2> QED BY <2>1, <2>2, <2>3, <2>5
        DEF Inv, ReadInv, CloseInv, NoLostReaderWakeup, NoLostWriterWakeup,
            sigVars, closeVars, writeVars
  <1> QED BY <1>1, <1>2

\* The step that puts bytes in.
LEMMA WriteLoopInv ==
  ASSUME Inv, WriteLoop
  PROVE  Inv'
  <1> DEFINE k == MinOf(wleft, MaxBuf - Unread)
  <1>1. CASE wleft > 0 /\ Unread < MaxBuf
    <2>1. /\ AppendBytes(k) /\ wpc' = "wake" /\ wout' = wout /\ wpc = "loop"
          /\ UNCHANGED <<sigVars, closeVars, readVars>>
      BY <1>1, UnreadType DEF Inv, TypeOK, WriteLoop
    <2>2. wleft \in Nat /\ wleft <= MaxWrite /\ MaxWrite \in Nat
      BY PipeAssumption DEF Inv, TypeOK, PipeAssumption
    <2>3. k \in Nat /\ k <= MaxBuf - Unread /\ wleft - k \in 0..MaxWrite
      <3>1. MaxBuf - Unread \in Nat
        BY <1>1, UnreadType DEF Inv
      <3>2. k \in 0..wleft /\ k <= MaxBuf - Unread
        BY <2>2, <3>1, MinOfFacts
      <3> HIDE DEF k
      <3> QED BY <3>1, <3>2, <2>2
    <2> HIDE DEF k
    <2>4. BufferInv'
      BY <2>1, <2>3, AppendKeepsBuffer DEF Inv
    <2>5. TypeOK'
      <3>1. (buf \in Seq(Nat) /\ off \in 0..Len(buf) /\ sent \in Nat /\ rcvd \in Nat)'
        BY <2>4 DEF BufferInv, Holds
      <3>2. wleft' \in 0..MaxWrite
        BY <2>1, <2>3 DEF AppendBytes
      <3> QED BY <2>1, <3>1, <3>2 DEF Inv, TypeOK, sigVars, closeVars, readVars
    \* The reader that waits for data is about to be signalled.
    <2>6. NoLostReaderWakeup' /\ NoLostWriterWakeup'
      BY <2>1 DEF NoLostReaderWakeup, NoLostWriterWakeup
    \* The writer's end is open, so no read has seen the end of the stream.
    <2>7. rout # "EOF" /\ cpc["write"] = "idle"
      BY <2>1 DEF Inv, CloseInv, EofMeansComplete
    <2> QED BY <2>1, <2>4, <2>5, <2>6, <2>7
        DEF Inv, ReadInv, CloseInv, EofMeansComplete, sigVars, closeVars, readVars
  <1>2. CASE ~(wleft > 0 /\ Unread < MaxBuf)
    <2>1. /\ UNCHANGED <<wleft, bufVars, sigVars, closeVars, readVars>> /\ wpc = "loop"
          /\ \/ wpc' = "idle" /\ wout' \in {"ok", WriteCloseError}
             \/ wpc' = "wait" /\ wout' = wout /\ Unread >= MaxBuf
      BY <1>2 DEF WriteLoop
    <2>2. BufferInv' /\ Unread' = Unread
      BY <2>1, BufferUnchanged DEF Inv
    <2>3. TypeOK'
      BY <2>1, <2>2 DEF Inv, TypeOK, WriteCloseError, bufVars, sigVars, closeVars, readVars
    <2>4. NoLostReaderWakeup'
      BY <2>1, <2>2 DEF Inv, NoLostReaderWakeup, sigVars, readVars
    <2>5. NoLostWriterWakeup'
      <3>1. Unread >= MaxBuf => ~(Unread < MaxBuf)
        BY UnreadType DEF Inv
      <3> QED BY <2>1, <2>2, <3>1 DEF NoLostWriterWakeup
    <2> QED BY <2>1, <2>2, <2>3, <2>4, <2>5
        DEF Inv, ReadInv, CloseInv, EofMeansComplete, bufVars, sigVars, closeVars, readVars
  <1> QED BY <1>1, <1>2

\* A step that changes nothing keeps the invariant.
LEMMA StutterInv ==
  ASSUME Inv, UNCHANGED vars
  PROVE  Inv'
  <1>1. BufferInv' /\ Unread' = Unread
    BY BufferUnchanged DEF Inv, vars
  <1>2. TypeOK'
    BY DEF Inv, TypeOK, vars, bufVars, sigVars, closeVars, readVars, writeVars
  <1> QED BY <1>1, <1>2
      DEF Inv, ReadInv, CloseInv, NoLostReaderWakeup, NoLostWriterWakeup, EofMeansComplete,
          vars, bufVars, sigVars, closeVars, readVars, writeVars

\* Every step of the readers, the writers and the closers keeps the invariant.
LEMMA NextInv == Inv /\ [Next]_vars => Inv'
  <1> SUFFICES ASSUME Inv, [Next]_vars PROVE Inv'
    OBVIOUS
  <1>1. ASSUME NEW n \in 1..MaxRead, ReadCall(n) PROVE Inv'
    BY <1>1, ReadCallInv
  <1>2. CASE ReadTimeout
    BY <1>2, ReadTimeoutInv
  <1>3. CASE ReaderStep
    BY <1>3, ReadLockedInv, ReadWakeInv, ReadSelectDataInv, ReadSelectDoneInv, ReadDrainInv
    DEF ReaderStep
  <1>4. ASSUME NEW n \in 1..MaxWrite, WriteCall(n) PROVE Inv'
    BY <1>4, WriteCallInv
  <1>5. CASE WriteTimeout
    BY <1>5, WriteTimeoutInv
  <1>6. CASE WriterStep
    BY <1>6, WriteCheckInv, WriteLoopInv, WriteWakeInv, WriteSelectSpaceInv, WriteSelectDoneInv
    DEF WriterStep
  <1>7. ASSUME NEW e \in Ends, CloseStore(e) \/ CloserStep(e) PROVE Inv'
    BY <1>7, CloseStoreInv, CloseDoneInv, CloseWakeInv DEF CloserStep
  <1>8. CASE UNCHANGED vars
    BY <1>8, StutterInv
  <1> QED BY <1>1, <1>2, <1>3, <1>4, <1>5, <1>6, <1>7, <1>8 DEF Next

\* The inductive invariant of the pipe: types, the buffer and the wake-ups
\* of both directions hold in every reachable state.
THEOREM Invariance == Spec => []Inv
  <1>1. Init => Inv
    BY InitInv
  <1>2. Inv /\ [Next]_vars => Inv'
    BY NextInv
  <1> QED BY <1>1, <1>2, PTL DEF Spec

-----------------------------------------------------------------------------
(* The results.                                                            *)

\* Every variable of the pipe keeps its type, for every buffer and call size.
THEOREM TypeCorrect == Spec => []TypeOK
  <1>1. Inv => TypeOK
    BY DEF Inv
  <1> QED BY <1>1, Invariance, PTL

\* pipe.consumeLocked's compaction bounds the backing array, and pipe.write
\* never buffers more than maxBuf unread bytes.
THEOREM BackingStaysBounded == Spec => []BackingBounded
  <1>1. Inv => BackingBounded
    BY HalfType, PipeAssumption
    DEF Inv, BufferInv, Holds, BackingBounded, Unread, Half, PipeAssumption
  <1> QED BY <1>1, Invariance, PTL

\* The unread bytes are the next bytes of the stream, in order.
THEOREM OrderKept == Spec => []UnreadInOrder
  <1>1. Inv => UnreadInOrder
    BY DEF Inv, BufferInv, Holds, Ordered, UnreadInOrder
  <1> QED BY <1>1, Invariance, PTL

\* No wake-up between pipe.read and pipe.write is lost.
THEOREM WakeupsKept == Spec => []NoLostWakeups
  <1>1. Inv => NoLostWakeups
    BY DEF Inv, NoLostWakeups
  <1> QED BY <1>1, Invariance, PTL

\* io.EOF is reported only after the last accepted byte was read.
THEOREM EofOnlyAtTheEnd == Spec => []EofMeansComplete
  <1>1. Inv => EofMeansComplete
    BY DEF Inv
  <1> QED BY <1>1, Invariance, PTL

-----------------------------------------------------------------------------
(* The pipe implements the byte stream.                                    *)

\* Taking a read's bytes out of the buffer is a step Take of the stream.
LEMMA ConsumeIsTake ==
  ASSUME Inv, rlen > 0, Unread > 0, Consume(rlen), rout' = "data",
         UNCHANGED <<closeVars, writeVars>>
  PROVE  Stream!Take
  <1>1. rlen \in Nat /\ BufferInv /\ Unread \in Nat /\ rcvd \in Nat /\ sent - rcvd = Unread
    BY UnreadType DEF Inv, TypeOK, BufferInv
  <1>2. /\ rdata' = [i \in 1..MinOf(rlen, Unread) |-> rcvd + i]
        /\ rcvd' = rcvd + MinOf(rlen, Unread)
        /\ sent' = sent
    BY <1>1, ConsumeKeepsBuffer
  <1>3. MinOf(rlen, Unread) \in 1..(sent - rcvd)
    BY <1>1, MinOfFacts
  <1> QED BY <1>2, <1>3 DEF Stream!Take, Stream!Positions, closeVars, writeVars

\* A read fails with a close error only when the buffer is empty.
LEMMA CloseErrorIsTakeClosed ==
  ASSUME Inv, done, ~(Unread > 0), rout' = ReadCloseError,
         UNCHANGED <<rdata, bufVars, closeVars, writeVars>>
  PROVE  Stream!TakeClosed
  <1>1. rcvd = sent
    BY UnreadType DEF Inv, BufferInv
  <1>2. ReadCloseError \in {"EOF", "ErrClosedPipe"}
    BY DEF Inv, TypeOK, ReadCloseError
  <1> QED BY <1>1, <1>2 DEF Stream!TakeClosed, bufVars, closeVars, writeVars

\* Appending bytes to the buffer is a step Put of the stream.
LEMMA AppendIsPut ==
  ASSUME Inv, wpc = "loop", wleft > 0, Unread < MaxBuf,
         AppendBytes(MinOf(wleft, MaxBuf - Unread)), wpc' = "wake",
         UNCHANGED <<sigVars, closeVars, readVars>>
  PROVE  Stream!Put
  <1>1. /\ wleft \in Nat /\ Unread \in Nat /\ MaxBuf \in Nat /\ MaxBuf - Unread \in Nat
        /\ sent - rcvd = Unread
    BY UnreadType DEF Inv, TypeOK, BufferInv
  <1>2. MinOf(wleft, MaxBuf - Unread) \in 1..(MaxBuf - (sent - rcvd))
    <2>1. MaxBuf - Unread > 0
      BY <1>1
    <2>2. /\ MinOf(wleft, MaxBuf - Unread) \in 0..wleft
          /\ MinOf(wleft, MaxBuf - Unread) <= MaxBuf - Unread
          /\ MinOf(wleft, MaxBuf - Unread) > 0
      BY <1>1, <2>1, MinOfFacts
    <2> DEFINE m == MinOf(wleft, MaxBuf - Unread)
    <2> HIDE DEF m
    <2>3. m \in 1..(MaxBuf - Unread)
      BY <2>2, <1>1 DEF m
    <2> QED BY <2>3, <1>1 DEF m
  <1>3. sent' = sent + MinOf(wleft, MaxBuf - Unread) /\ rcvd' = rcvd
    BY DEF AppendBytes
  <1> QED BY <1>2, <1>3 DEF Stream!Put, closeVars, readVars

\* What a read does to the pipe, the stream allows (io_pipe.go:114-150).
LEMMA ReaderRefines ==
  ASSUME Inv, ReaderStep
  PROVE  Stream!Next \/ UNCHANGED Stream!vars
  <1>1. CASE ReadLocked
    <2>1. CASE Unread > 0
      <3>1. Stream!Take
        BY <1>1, <2>1, ConsumeIsTake DEF Inv, ReadInv, ReadLocked
      <3> QED BY <3>1 DEF Stream!Next
    <2>2. CASE ~(Unread > 0) /\ done
      <3>1. Stream!TakeClosed
        BY <1>1, <2>2, CloseErrorIsTakeClosed DEF ReadLocked
      <3> QED BY <3>1 DEF Stream!Next
    <2>3. CASE ~(Unread > 0) /\ ~done
      BY <1>1, <2>3 DEF ReadLocked, Stream!vars, bufVars, closeVars, writeVars
    <2> QED BY <2>1, <2>2, <2>3
  <1>2. CASE ReadDrain
    <2>1. done
      BY <1>2 DEF Inv, ReadInv, ReadDrain
    <2>2. CASE Unread > 0
      <3>1. Stream!Take
        BY <1>2, <2>2, UnreadType, ConsumeIsTake DEF Inv, ReadInv, ReadDrain
      <3> QED BY <3>1 DEF Stream!Next
    <2>3. CASE ~(Unread > 0)
      <3>1. Stream!TakeClosed
        BY <1>2, <2>1, <2>3, CloseErrorIsTakeClosed DEF ReadDrain
      <3> QED BY <3>1 DEF Stream!Next
    <2> QED BY <2>2, <2>3
  <1>3. CASE ReadWake \/ ReadSelectData \/ ReadSelectDone
    BY <1>3 DEF ReadWake, ReadSelectData, ReadSelectDone, Stream!vars,
                bufVars, closeVars, writeVars
  <1> QED BY <1>1, <1>2, <1>3 DEF ReaderStep

\* What a write does to the pipe, the stream allows (io_pipe.go:162-197).
LEMMA WriterRefines ==
  ASSUME Inv, WriterStep
  PROVE  Stream!Next \/ UNCHANGED Stream!vars
  <1>1. CASE WriteCheck
    BY <1>1 DEF WriteCheck, Stream!Next, Stream!BeginWrite, Stream!vars,
                bufVars, closeVars, readVars
  <1>2. CASE WriteLoop
    <2>1. CASE wleft > 0 /\ Unread < MaxBuf
      <3>1. Stream!Put
        BY <1>2, <2>1, UnreadType, AppendIsPut DEF Inv, TypeOK, WriteLoop
      <3> QED BY <3>1 DEF Stream!Next
    <2>2. CASE ~(wleft > 0 /\ Unread < MaxBuf)
      BY <1>2, <2>2 DEF WriteLoop, Stream!Next, Stream!EndWrite, Stream!vars,
                        bufVars, closeVars, readVars
    <2> QED BY <2>1, <2>2
  <1>3. CASE WriteWake \/ WriteSelectSpace
    BY <1>3 DEF WriteWake, WriteSelectSpace, Stream!vars, bufVars, closeVars, readVars
  <1>4. CASE WriteSelectDone
    BY <1>4 DEF WriteSelectDone, Stream!Next, Stream!EndWrite, bufVars, closeVars, readVars
  <1> QED BY <1>1, <1>2, <1>3, <1>4 DEF WriterStep

\* Every step of the pipe is a step of the stream or leaves it as it is.
LEMMA StepRefines == Inv /\ [Next]_vars => [Stream!Next]_(Stream!vars)
  <1> SUFFICES ASSUME Inv, [Next]_vars PROVE Stream!Next \/ UNCHANGED Stream!vars
    OBVIOUS
  <1>1. ASSUME NEW n \in 1..MaxRead, ReadCall(n) PROVE UNCHANGED Stream!vars
    BY <1>1 DEF ReadCall, Stream!vars, bufVars, closeVars, writeVars
  <1>2. CASE ReadTimeout
    BY <1>2 DEF ReadTimeout, Stream!Next, Stream!TakeTimeout, bufVars, closeVars, writeVars
  <1>3. CASE ReaderStep
    BY <1>3, ReaderRefines
  <1>4. ASSUME NEW n \in 1..MaxWrite, WriteCall(n) PROVE UNCHANGED Stream!vars
    BY <1>4 DEF WriteCall, Stream!vars, bufVars, closeVars, readVars
  <1>5. CASE WriteTimeout
    BY <1>5 DEF WriteTimeout, Stream!Next, Stream!EndWrite, bufVars, closeVars, readVars
  <1>6. CASE WriterStep
    BY <1>6, WriterRefines
  <1>7. ASSUME NEW e \in Ends, CloseStore(e) \/ CloserStep(e)
        PROVE  Stream!Next \/ UNCHANGED Stream!vars
    BY <1>7 DEF CloseStore, CloserStep, CloseDone, CloseWake, Stream!Next, Stream!Close,
                Stream!vars, bufVars, sigVars, readVars, writeVars
  <1>8. CASE UNCHANGED vars
    BY <1>8 DEF vars, Stream!vars, bufVars, closeVars, readVars, writeVars
  <1> QED BY <1>1, <1>2, <1>3, <1>4, <1>5, <1>6, <1>7, <1>8 DEF Next

\* Whatever the interleaving of appends, partial reads, compactions, signals,
\* deadlines and closes, what the two callers see is a bounded FIFO stream:
\* no byte lost, repeated or reordered, none dropped before a close error,
\* and no write accepted after the close.
THEOREM Refinement == Spec => ImplementsByteStream
  <1>1. Init => Stream!Init
    BY DEF Init, Stream!Init
  <1>2. Inv /\ [Next]_vars => [Stream!Next]_(Stream!vars)
    BY StepRefines
  <1> QED BY <1>1, <1>2, Invariance, PTL DEF Spec, ImplementsByteStream, Stream!Spec
=============================================================================
