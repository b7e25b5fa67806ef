--------------------------- MODULE PaddingProofs ---------------------------
(***************************************************************************)
(* For every scheme, every size of a frame and every length limit: the     *)
(* parser keeps what it promises, no byte of the payload is lost or moved, *)
(* and waste frames lie between frames.                                    *)
(***************************************************************************)
EXTENDS Padding, TLAPS

-----------------------------------------------------------------------------
(* The parser.                                                             *)

\* A part of a line becomes a range within the limits (padding.go:81-97).
LEMMA ParsedTyped ==
  ASSUME NEW item \in Items
  PROVE  Parsed(item) \in Ranges
<1>1. CASE item.kind = "check"
  BY <1>1 DEF Parsed, Ranges
<1>2. CASE item.kind = "junk"
  BY <1>2 DEF Parsed, Ranges
<1>3. CASE item \in [kind : {"range"}, a : Int, b : Int]
  <2>1. item.kind = "range" /\ item.a \in Int /\ item.b \in Int
    BY <1>3
  <2>2. CASE Least(item.a, item.b) <= 0
    BY <2>1, <2>2 DEF Parsed, ParsedRange, Ranges
  <2>3. CASE ~(Least(item.a, item.b) <= 0)
    <3> DEFINE lo == Least(Least(item.a, item.b), MaxPad)
               hi == Least(Greatest(item.a, item.b), MaxPad)
    <3>1. lo \in 1..MaxPad /\ hi \in 1..MaxPad /\ lo <= hi
      BY <2>1, <2>3, PaddingAssumption DEF Least, Greatest
    <3>2. Parsed(item) = [kind |-> "range", min |-> lo, max |-> hi]
      BY <2>1, <2>3 DEF Parsed, ParsedRange
    <3> HIDE DEF lo, hi
    <3> QED
      BY <3>1, <3>2 DEF Ranges
  <2> QED
    BY <2>2, <2>3
<1> QED
  BY <1>1, <1>2, <1>3 DEF Items

\* A line becomes a sequence of such ranges (padding.go:74-100).
LEMMA LineTyped ==
  ASSUME NEW items \in Seq(Items)
  PROVE  ParsedLine(items) \in Seq(Ranges)
<1>1. DOMAIN items = 1..Len(items) /\ Len(items) \in Nat
  OBVIOUS
<1>2. \A i \in 1..Len(items) : Parsed(items[i]) \in Ranges
  BY ParsedTyped
<1>3. ParsedLine(items) \in [1..Len(items) -> Ranges]
  BY <1>1, <1>2 DEF ParsedLine
<1> QED
  BY <1>1, <1>3

\* Whatever is stored as the padding factory is within the limits
\* (padding.go:54-103).
LEMMA FactoriesTyped ==
  ASSUME NEW f \in Factories
  PROVE  FactoryOK(f)
<1>1. PICK raw \in RawSchemes : f \in NewPaddingFactory(raw)
  BY DEF Factories
<1>2. raw.stop \in Int /\ raw.lines \subseteq Lines
  BY PaddingAssumption DEF IsRaw
<1>3. PICK p \in [Keys(raw) -> UNION {LinesOf(raw, k) : k \in Keys(raw)}] :
        /\ \A k \in Keys(raw) : p[k] \in LinesOf(raw, k)
        /\ f = [stop |-> raw.stop % Wrap, parsed |-> p]
  BY <1>1 DEF NewPaddingFactory
<1>4. f.stop \in 0 .. Wrap - 1
  BY <1>2, <1>3, PaddingAssumption
<1>5. DOMAIN f.parsed = Keys(raw)
  BY <1>3
<1>6. Keys(raw) \subseteq 0 .. Wrap - 1
  BY <1>2, PaddingAssumption DEF Keys, Lines
<1>7. ASSUME NEW k \in Keys(raw)
      PROVE  f.parsed[k] \in Seq(Ranges)
  <2>1. PICK l \in raw.lines : f.parsed[k] = ParsedLine(l.items)
    BY <1>3, <1>7 DEF LinesOf
  <2>2. l.items \in Seq(Items)
    BY <1>2 DEF Lines
  <2> QED
    BY <2>1, <2>2, LineTyped
<1> QED
  BY <1>4, <1>5, <1>6, <1>7 DEF FactoryOK

\* A size that is chosen is neither 0 nor above maxPaddingSize
\* (padding.go:111-128).
LEMMA SizeTyped ==
  ASSUME NEW r \in Ranges, r.kind = "range", NEW l \in Sizes(r)
  PROVE  l \in 1..MaxPad
<1>1. r \in [kind : {"range"}, min : 1..MaxPad, max : 1..MaxPad]
  BY DEF Ranges, Check, Nothing
<1>2. r.min \in 1..MaxPad /\ r.max \in 1..MaxPad
  BY <1>1
<1> QED
  BY <1>2, PaddingAssumption DEF Sizes

\* The same, of the size the loop is at.
LEMMA LoopSize ==
  ASSUME TypeOK, NEW l, Size(l)
  PROVE  /\ l \in 1..MaxPad
         /\ Tail(ranges) \in Seq(Ranges)
         /\ pc = "loop" /\ ranges' = Tail(ranges)
<1>1. ranges \in Seq(Ranges) /\ ranges # <<>>
  BY DEF TypeOK, Size, InLoop
<1>2. Head(ranges) \in Ranges /\ Tail(ranges) \in Seq(Ranges)
  BY <1>1
<1>3. Head(ranges).kind = "range" /\ l \in Sizes(Head(ranges))
  BY DEF Size
<1>4. l \in 1..MaxPad
  BY <1>2, <1>3, SizeTyped
<1> QED
  BY <1>2, <1>4 DEF Size, InLoop, Rest

-----------------------------------------------------------------------------
(* Type correctness.                                                       *)

\* The session starts within the types (session.go:56-66, 79-99).
LEMMA InitTypeOK == Init => TypeOK
<1> SUFFICES ASSUME Init PROVE TypeOK
  OBVIOUS
<1>1. FactoryOK(factory)
  BY FactoriesTyped DEF Init
<1>2. {buffering, sendPadding} \subseteq BOOLEAN
  BY DEF Init
<1>3. ranges \in Seq(Ranges)
  BY DEF Init
<1>4. wastes \subseteq [at : Nat, length : Nat, zeros : Nat]
  BY DEF Init
<1>5. /\ {buffer, accepted, from, rem, out} \subseteq Nat
      /\ pkt \in 0 .. Wrap - 1 /\ frames \in 0..MaxFrames /\ ends \subseteq Nat
      /\ pc \in {"idle", "loop", "tail", "dead"}
  BY PaddingAssumption DEF Init
<1> QED
  BY <1>1, <1>2, <1>3, <1>4, <1>5 DEF TypeOK

\* A frame that comes in keeps the types of what counts it.
LEMMA TakeTyped ==
  ASSUME TypeOK, NEW n \in FrameSizes, Take(n)
  PROVE  frames' \in 0..MaxFrames /\ accepted' \in Nat /\ ends' \subseteq Nat
<1>1. n \in Nat /\ MaxFrames \in Nat
  BY PaddingAssumption
<1>2. frames \in 0..MaxFrames /\ accepted \in Nat /\ ends \subseteq Nat
  BY DEF TypeOK
<1>3. /\ frames < MaxFrames /\ frames' = frames + 1
      /\ accepted' = accepted + n /\ ends' = ends \cup {accepted + n}
  BY DEF Take
<1> QED
  BY <1>1, <1>2, <1>3

\* A waste frame's fields are numbers.
LEMMA WasteTyped ==
  ASSUME TypeOK, NEW at \in Nat, NEW zeros \in Nat, Waste(at, zeros)
  PROVE  wastes' \subseteq [at : Nat, length : Nat, zeros : Nat]
<1>1. zeros % Width \in Nat
  BY PaddingAssumption
<1> QED
  BY <1>1 DEF TypeOK, Waste

\* Every step of a writer and of a receive loop keeps the types, but for order:
\* the bytes are taken from what is there (session.go:430-505).
LEMMA NextTypeOK ==
  ASSUME TypeOK, PayloadInOrder, [Next]_vars
  PROVE  TypeOK'
<1> USE PaddingAssumption
<1>1. CASE UpdatePaddingScheme
  BY <1>1, FactoriesTyped
     DEF TypeOK, UpdatePaddingScheme, sessVars, inVars, writeVars, wireVars
<1>2. CASE StopBuffering
  BY <1>2 DEF TypeOK, StopBuffering, inVars, writeVars, wireVars
<1>3. ASSUME NEW n \in FrameSizes, WriteBuffered(n)
      PROVE  TypeOK'
  <2>1. frames' \in 0..MaxFrames /\ accepted' \in Nat /\ ends' \subseteq Nat
    BY <1>3, TakeTyped DEF WriteBuffered
  <2> QED
    BY <1>3, <2>1 DEF TypeOK, WriteBuffered, writeVars, wireVars
<1>4. ASSUME NEW n \in FrameSizes, Flush(n), pc = "idle",
             from' = accepted - buffer, rem' = buffer + n
      PROVE  /\ frames' \in 0..MaxFrames /\ ends' \subseteq Nat
             /\ buffering' \in BOOLEAN
             /\ {buffer', accepted', from', rem'} \subseteq Nat
  <2>1. frames' \in 0..MaxFrames /\ accepted' \in Nat /\ ends' \subseteq Nat
    BY <1>4, TakeTyped DEF Flush
  <2>2. from' \in Nat
    BY <1>4 DEF TypeOK, PayloadInOrder
  <2>3. n \in Nat /\ buffer \in Nat
    BY DEF TypeOK
  <2>4. buffer' = 0 /\ rem' \in Nat
    BY <1>4, <2>3 DEF Flush
  <2>5. {buffer', accepted', from', rem'} \subseteq Nat
    BY <2>1, <2>2, <2>4
  <2>6. buffering' \in BOOLEAN
    BY <1>4 DEF Flush
  <2> QED
    BY <2>1, <2>5, <2>6
<1>5. ASSUME NEW n \in FrameSizes, WritePadded(n)
      PROVE  TypeOK'
  <2>1. pc = "idle"
    BY <1>5 DEF WritePadded, Flush, Take
  <2>2. /\ frames' \in 0..MaxFrames /\ ends' \subseteq Nat
        /\ buffering' \in BOOLEAN
        /\ {buffer', accepted', from', rem'} \subseteq Nat
    BY <1>4, <1>5, <2>1 DEF WritePadded
  <2>3. pkt' \in 0 .. Wrap - 1
    BY <1>5 DEF TypeOK, WritePadded
  <2>4. ranges' \in Seq(Ranges)
    BY <1>5 DEF TypeOK, FactoryOK, WritePadded
  <2> QED
    BY <1>5, <2>2, <2>3, <2>4 DEF TypeOK, WritePadded, wireVars
<1>6. ASSUME NEW n \in FrameSizes, WritePlain(n)
      PROVE  TypeOK'
  <2>1. pc = "idle"
    BY <1>6 DEF WritePlain, Flush, Take
  <2>2. /\ frames' \in 0..MaxFrames /\ ends' \subseteq Nat
        /\ buffering' \in BOOLEAN
        /\ {buffer', accepted', from', rem'} \subseteq Nat
    BY <1>4, <1>6, <2>1 DEF WritePlain
  <2>3. pkt' \in 0 .. Wrap - 1
    BY <1>6 DEF TypeOK, WritePlain
  <2>4. sendPadding' \in BOOLEAN
    BY <1>6 DEF TypeOK, WritePlain
  <2> QED
    BY <1>6, <2>2, <2>3, <2>4 DEF TypeOK, WritePlain, wireVars
<1>7. ASSUME Skip \/ CheckMark \/ LoopEnd
      PROVE  TypeOK'
  <2>1. ranges' \in Seq(Ranges)
    <3>1. ranges \in Seq(Ranges) /\ <<>> \in Seq(Ranges)
      BY DEF TypeOK
    <3>2. ranges # <<>> => Tail(ranges) \in Seq(Ranges)
      BY <3>1
    <3> QED
      BY <1>7, <3>1, <3>2 DEF Skip, CheckMark, LoopEnd, InLoop, Rest
  <2> QED
    BY <1>7, <2>1
       DEF TypeOK, Skip, CheckMark, LoopEnd, InLoop, sessVars, inVars, wireVars
<1>8. ASSUME NEW l, Split(l)
      PROVE  TypeOK'
  <2>1. l \in 1..MaxPad /\ ranges' \in Seq(Ranges) /\ pc = "loop"
    BY <1>8, LoopSize DEF Split
  <2>2. {out', from', rem'} \subseteq Nat
    BY <1>8, <2>1 DEF TypeOK, Split
  <2> QED
    BY <1>8, <2>1, <2>2 DEF TypeOK, Split, sessVars, inVars
<1>9. ASSUME NEW l, Last(l)
      PROVE  TypeOK'
  <2>1. l \in 1..MaxPad /\ ranges' \in Seq(Ranges) /\ pc = "loop"
    BY <1>9, LoopSize DEF Last
  <2>2. {out', from', rem'} \subseteq Nat /\ out + rem \in Nat
    BY <1>9, <2>1 DEF TypeOK, Last
  <2>3. wastes' \subseteq [at : Nat, length : Nat, zeros : Nat]
    <3>1. CASE l - rem - Header > 0
      <4>1. l - rem - Header \in Nat
        BY <2>1, <3>1 DEF TypeOK
      <4> QED
        BY <1>9, <2>2, <3>1, <4>1, WasteTyped DEF Last
    <3>2. CASE ~(l - rem - Header > 0)
      BY <1>9, <3>2 DEF TypeOK, Last
    <3> QED
      BY <3>1, <3>2
  <2> QED
    BY <1>9, <2>1, <2>2, <2>3 DEF TypeOK, Last, sessVars, inVars
<1>10. ASSUME NEW l, Pure(l)
       PROVE  TypeOK'
  <2>1. l \in 1..MaxPad /\ ranges' \in Seq(Ranges)
    BY <1>10, LoopSize DEF Pure
  <2>2. wastes' \subseteq [at : Nat, length : Nat, zeros : Nat]
    <3>1. l \in Nat /\ out \in Nat
      BY <2>1 DEF TypeOK
    <3> QED
      BY <1>10, <3>1, WasteTyped DEF Pure
  <2> QED
    BY <1>10, <2>1, <2>2 DEF TypeOK, Pure, sessVars, inVars
<1>11. CASE WriteTail \/ WriteFails
  <2>1. {out', from', rem'} \subseteq Nat /\ pc' \in {"idle", "dead"}
    BY <1>11 DEF TypeOK, WriteTail, WriteFails, wireVars
  <2>2. UNCHANGED <<factory, sessVars, inVars, ranges, wastes>>
    BY <1>11 DEF WriteTail, WriteFails, wireVars
  <2> QED
    BY <2>1, <2>2 DEF TypeOK, sessVars, inVars
<1>12. CASE UNCHANGED vars
  BY <1>12 DEF TypeOK, vars, sessVars, inVars, writeVars, wireVars
<1> QED
  BY <1>1, <1>2, <1>3, <1>5, <1>6, <1>7, <1>8, <1>9, <1>10, <1>11, <1>12 DEF Next, Loop

-----------------------------------------------------------------------------
(* The order of the payload, and the place of waste frames.                *)

\* What is being written is everything up to the end of a frame.
WholeFrames == pc = "loop" => accepted \in ends

Inv == TypeOK /\ PayloadInOrder /\ WholeFrames /\ WasteBetweenFrames

\* A new session has written nothing.
LEMMA InitInv == Init => Inv
<1> SUFFICES ASSUME Init PROVE Inv
  OBVIOUS
<1>1. TypeOK
  BY InitTypeOK
<1>2. PayloadInOrder /\ WholeFrames /\ WasteBetweenFrames
  BY DEF Init, PayloadInOrder, WholeFrames, WasteBetweenFrames
<1> QED
  BY <1>1, <1>2 DEF Inv

\* The buffering and the splitting move the position in the payload and the
\* length of what is left by the same number (session.go:430-438, 457-495).
LEMMA NextInOrder ==
  ASSUME TypeOK, PayloadInOrder, [Next]_vars
  PROVE  PayloadInOrder'
<1> USE PaddingAssumption
<1>0. /\ buffer \in Nat /\ accepted \in Nat /\ from \in Nat /\ rem \in Nat /\ out \in Nat
  BY DEF TypeOK
<1>1. CASE UpdatePaddingScheme \/ StopBuffering \/ Skip \/ LoopEnd
  BY <1>1
     DEF PayloadInOrder, UpdatePaddingScheme, StopBuffering, Skip, LoopEnd, InLoop,
         sessVars, inVars, writeVars, wireVars
<1>2. CASE CheckMark
  BY <1>2 DEF PayloadInOrder, CheckMark, InLoop, sessVars, inVars, wireVars
<1>3. ASSUME NEW n \in FrameSizes, WriteBuffered(n)
      PROVE  PayloadInOrder'
  BY <1>0, <1>3 DEF PayloadInOrder, WriteBuffered, Take, writeVars, wireVars
<1>4. ASSUME NEW n \in FrameSizes, Flush(n), from' = accepted - buffer, rem' = buffer + n,
             out' = out, pc' \in {"loop", "tail"}
      PROVE  PayloadInOrder'
  BY <1>0, <1>4 DEF PayloadInOrder, Flush, Take
<1>5. ASSUME NEW n \in FrameSizes, WritePadded(n) \/ WritePlain(n)
      PROVE  PayloadInOrder'
  BY <1>4, <1>5 DEF WritePadded, WritePlain, wireVars
<1>6. ASSUME NEW l, Split(l)
      PROVE  PayloadInOrder'
  <2>1. l \in 1..MaxPad /\ pc = "loop"
    BY <1>6, LoopSize DEF Split
  <2>2. buffer = 0 /\ out + rem = accepted /\ from = out
    BY <1>0, <1>6, <2>1 DEF PayloadInOrder, Split
  <2>3. out' = out + l /\ from' = from + l /\ rem' = rem - l /\ pc' = "loop"
        /\ buffer' = buffer /\ accepted' = accepted
    BY <1>6, <2>1 DEF Split, sessVars, inVars
  <2> QED
    BY <1>0, <2>1, <2>2, <2>3 DEF PayloadInOrder
<1>7. ASSUME NEW l, Last(l)
      PROVE  PayloadInOrder'
  <2>1. pc = "loop"
    BY <1>7, LoopSize DEF Last
  <2>2. buffer = 0 /\ out + rem = accepted
    BY <2>1 DEF PayloadInOrder
  <2>3. out' = out + rem /\ rem' = 0 /\ pc' = "loop" /\ buffer' = buffer /\ accepted' = accepted
    BY <1>7, <2>1 DEF Last, sessVars, inVars
  <2> QED
    BY <1>0, <2>2, <2>3 DEF PayloadInOrder
<1>8. ASSUME NEW l, Pure(l)
      PROVE  PayloadInOrder'
  BY <1>8 DEF PayloadInOrder, Pure, sessVars, inVars
<1>9. CASE WriteTail \/ WriteFails
  BY <1>0, <1>9 DEF PayloadInOrder, WriteTail, WriteFails, sessVars, inVars, wireVars
<1>10. CASE UNCHANGED vars
  BY <1>10 DEF PayloadInOrder, vars, sessVars, inVars, writeVars, wireVars
<1> QED
  BY <1>1, <1>2, <1>3, <1>5, <1>6, <1>7, <1>8, <1>9, <1>10 DEF Next, Loop

\* Only Take moves the end of the payload, and notes that a frame ends there.
LEMMA NextWholeFrames ==
  ASSUME WholeFrames, [Next]_vars
  PROVE  WholeFrames'
<1>1. CASE UpdatePaddingScheme \/ StopBuffering \/ Skip \/ CheckMark \/ LoopEnd
  BY <1>1
     DEF WholeFrames, UpdatePaddingScheme, StopBuffering, Skip, CheckMark, LoopEnd, InLoop,
         inVars, writeVars
<1>2. ASSUME NEW n \in FrameSizes, WriteBuffered(n) \/ WritePadded(n) \/ WritePlain(n)
      PROVE  WholeFrames'
  BY <1>2 DEF WholeFrames, WriteBuffered, WritePadded, WritePlain, Flush, Take
<1>3. ASSUME NEW l, Split(l) \/ Last(l) \/ Pure(l)
      PROVE  WholeFrames'
  BY <1>3 DEF WholeFrames, Split, Last, Pure, inVars
<1>4. CASE WriteTail \/ WriteFails
  BY <1>4 DEF WholeFrames, WriteTail, WriteFails
<1>5. CASE UNCHANGED vars
  BY <1>5 DEF WholeFrames, vars, inVars, writeVars
<1> QED
  BY <1>1, <1>2, <1>3, <1>4, <1>5 DEF Next, Loop

\* A waste frame of 1 to maxPaddingSize zeros put at the end of the payload so
\* far is well formed (session.go:468-488).
LEMMA WasteOK ==
  ASSUME WasteBetweenFrames, WholeFrames, pc = "loop", ends' = ends,
         NEW zeros \in 1..MaxPad, Waste(accepted, zeros)
  PROVE  WasteBetweenFrames'
<1>1. zeros % Width = zeros /\ zeros \in 1..ZeroBuf
  BY PaddingAssumption
<1>2. wastes' = wastes \cup {[at |-> accepted, length |-> zeros, zeros |-> zeros]}
  BY <1>1 DEF Waste
<1>3. accepted \in ends
  BY DEF WholeFrames
<1> QED
  BY <1>1, <1>2, <1>3 DEF WasteBetweenFrames

\* A waste frame is put where nothing of b is left, and its length is a size of
\* the scheme at most (session.go:457-489).
LEMMA NextWaste ==
  ASSUME Inv, [Next]_vars
  PROVE  WasteBetweenFrames'
<1> USE PaddingAssumption DEF Inv
<1>0. /\ accepted \in Nat /\ rem \in Nat /\ out \in Nat
  BY DEF TypeOK
<1>1. CASE \/ UpdatePaddingScheme \/ StopBuffering \/ Skip \/ CheckMark \/ LoopEnd
           \/ WriteTail \/ WriteFails
  BY <1>1
     DEF WasteBetweenFrames, UpdatePaddingScheme, StopBuffering, Skip, CheckMark, LoopEnd,
         WriteTail, WriteFails, inVars, wireVars
<1>2. ASSUME NEW n \in FrameSizes, WriteBuffered(n) \/ WritePadded(n) \/ WritePlain(n)
      PROVE  WasteBetweenFrames'
  <2>1. wastes' = wastes /\ ends \subseteq ends'
    BY <1>2 DEF WriteBuffered, WritePadded, WritePlain, Flush, Take, wireVars
  <2> QED
    BY <2>1 DEF WasteBetweenFrames
<1>3. ASSUME NEW l, Split(l)
      PROVE  WasteBetweenFrames'
  BY <1>3 DEF WasteBetweenFrames, Split, inVars
<1>4. ASSUME NEW l, Last(l)
      PROVE  WasteBetweenFrames'
  <2>1. l \in 1..MaxPad /\ pc = "loop"
    BY <1>4, LoopSize DEF Last
  <2>2. out + rem = accepted /\ ends' = ends
    BY <1>4, <2>1 DEF PayloadInOrder, Last, inVars
  <2>3. CASE l - rem - Header > 0
    <3>1. l - rem - Header \in 1..MaxPad
      BY <1>0, <2>1, <2>3
    <3>2. Waste(accepted, l - rem - Header)
      BY <1>4, <2>2, <2>3 DEF Last
    <3> QED
      BY <2>1, <2>2, <3>1, <3>2, WasteOK
  <2>4. CASE ~(l - rem - Header > 0)
    BY <1>4, <2>2, <2>4 DEF WasteBetweenFrames, Last
  <2> QED
    BY <2>3, <2>4
<1>5. ASSUME NEW l, Pure(l)
      PROVE  WasteBetweenFrames'
  <2>1. l \in 1..MaxPad /\ pc = "loop"
    BY <1>5, LoopSize DEF Pure
  <2>2. out = accepted /\ ends' = ends
    BY <1>0, <1>5, <2>1 DEF PayloadInOrder, Pure, inVars
  <2>3. Waste(accepted, l)
    BY <1>5, <2>2 DEF Pure
  <2> QED
    BY <2>1, <2>2, <2>3, WasteOK
<1>6. CASE UNCHANGED vars
  BY <1>6 DEF WasteBetweenFrames, vars, inVars, wireVars
<1> QED
  BY <1>1, <1>2, <1>3, <1>4, <1>5, <1>6 DEF Next, Loop

\* Inv is inductive (session.go:430-505).
THEOREM Invariance == Spec => []Inv
<1>1. Init => Inv
  BY InitInv
<1>2. Inv /\ [Next]_vars => Inv'
  BY NextTypeOK, NextInOrder, NextWholeFrames, NextWaste DEF Inv
<1> QED
  BY <1>1, <1>2, PTL DEF Spec

\* Whatever a scheme says, the factory holds no size the loop cannot use, and
\* the writer's counters are what they should be (padding.go:83-97).
THEOREM TypeCorrect == Spec => []TypeOK
<1>1. Inv => TypeOK
  BY DEF Inv
<1> QED
  BY <1>1, Invariance, PTL

\* No byte of a frame is lost, repeated or moved (session.go:430-438, 457-495).
THEOREM PayloadKept == Spec => []PayloadInOrder
<1>1. Inv => PayloadInOrder
  BY DEF Inv
<1> QED
  BY <1>1, Invariance, PTL

\* Waste frames lie between frames, with their true length
\* (session.go:468-488).
THEOREM WasteWellFormed == Spec => []WasteBetweenFrames
<1>1. Inv => WasteBetweenFrames
  BY DEF Inv
<1> QED
  BY <1>1, Invariance, PTL
=============================================================================
