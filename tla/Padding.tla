------------------------------ MODULE Padding ------------------------------
(***************************************************************************)
(* The padding of what a client session writes: the scheme's parser and    *)
(* its ranges (padding/padding.go), and the buffering, the splitting and   *)
(* the waste frames of Session.writeConnLocked (session/session.go).       *)
(*                                                                         *)
(* The payload is the sequence of all frames given to writeConnLocked; a   *)
(* byte of it is its offset.  Writers hold connLock, so there is one at a  *)
(* time, while a receive loop replaces the padding factory at any moment.  *)
(***************************************************************************)
EXTENDS Integers, Sequences

CONSTANTS
  Header,     \* headerOverHeadSize: 7
  Width,      \* 2^16, of a frame's length field
  Wrap,       \* 2^32, of a packet number
  MaxPad,     \* maxPaddingSize: 65535
  ZeroBuf,    \* len(zeroBuf): 65536
  RawSchemes, \* the schemes a server may send, and the default one
  FrameSizes, \* lengths of written frames, header included
  MaxFrames   \* bound on the frames written

\* A part of a line: "c", two numbers and a dash, or something else.
Items == [kind : {"check"}] \cup [kind : {"range"}, a : Int, b : Int] \cup [kind : {"junk"}]

\* A scheme whose "stop" is no number is not ok; different texts may be the
\* same number, so a number may have several lines.
Lines  == [key : Int, items : Seq(Items)]
IsRaw(raw) == raw.ok \in BOOLEAN /\ raw.stop \in Int /\ raw.lines \subseteq Lines

ASSUME PaddingAssumption ==
  /\ Header \in Nat \ {0} /\ Width \in Nat \ {0} /\ Wrap \in Nat \ {0}
  /\ MaxPad \in Nat \ {0} /\ MaxPad < Width /\ MaxPad <= ZeroBuf /\ ZeroBuf \in Nat
  /\ FrameSizes \subseteq Nat \ {0} /\ MaxFrames \in Nat
  /\ \A raw \in RawSchemes : IsRaw(raw)

VARIABLES
  factory,     \* DefaultPaddingFactory: Stop and parsedRanges
  buffering,   \* Session.buffering
  buffer,      \* len(Session.buffer)
  sendPadding, \* Session.sendPadding
  pkt,         \* Session.pktCounter
  frames,      \* frames given to writeConnLocked
  accepted,    \* their length
  ends,        \* payload offsets where a frame ends
  pc,          \* "idle"; writing: "loop", "tail"; "dead" once a write has failed
  ranges,      \* the ranges of this record the loop has not come to
  from, rem,   \* b: the offset of its first byte, and len(b)
  out,         \* payload bytes in assembled or on the connection
  wastes       \* waste frames: the payload offset, the length field, the zeros

sessVars  == <<buffering, buffer, sendPadding, pkt>>
inVars    == <<frames, accepted, ends>>
writeVars == <<pc, ranges, from, rem>>
wireVars  == <<out, wastes>>
vars == <<factory, sessVars, inVars, writeVars, wireVars>>

-----------------------------------------------------------------------------
(* NewPaddingFactory.                                                      *)

Least(a, b)    == IF a <= b THEN a ELSE b
Greatest(a, b) == IF a <= b THEN b ELSE a

Check   == [kind |-> "check", min |-> 0, max |-> 0]
Nothing == [kind |-> "nothing", min |-> 0, max |-> 0]  \* a part that is dropped

\* Faulty variant: no upper limit.
BadParsedRange(a, b) ==
  IF Least(a, b) <= 0
  THEN Nothing
  ELSE [kind |-> "range", min |-> Least(a, b), max |-> Greatest(a, b)]

ParsedRange(a, b) ==
  IF Least(a, b) <= 0
  THEN Nothing
  ELSE [kind |-> "range", min |-> Least(Least(a, b), MaxPad), max |-> Least(Greatest(a, b), MaxPad)]

\* Faulty variant: the bounds stay as they are written.
BadParsed(item) ==
  IF item.kind = "check" THEN Check
  ELSE IF item.kind = "junk" \/ item.a <= 0 \/ item.b <= 0 THEN Nothing
       ELSE [kind |-> "range", min |-> Least(item.a, MaxPad), max |-> Least(item.b, MaxPad)]

Parsed(item) ==
  IF item.kind = "check" THEN Check
  ELSE IF item.kind = "junk" THEN Nothing ELSE ParsedRange(item.a, item.b)

ParsedLine(items) == [i \in DOMAIN items |-> Parsed(items[i])]

\* The map's order decides which of the lines of a number counts.
LinesOf(raw, k) == {ParsedLine(l.items) : l \in {l \in raw.lines : l.key % Wrap = k}}
Keys(raw) == {l.key % Wrap : l \in raw.lines}

NewPaddingFactory(raw) ==
  {[stop |-> raw.stop % Wrap, parsed |-> p] :
     p \in {p \in [Keys(raw) -> UNION {LinesOf(raw, k) : k \in Keys(raw)}] :
              \A k \in Keys(raw) : p[k] \in LinesOf(raw, k)}}

\* What UpdatePaddingScheme stores; a scheme that is not ok it leaves alone.
Factories == UNION {NewPaddingFactory(raw) : raw \in {raw \in RawSchemes : raw.ok}}

-----------------------------------------------------------------------------
Init ==
  /\ factory \in Factories
  /\ buffering = TRUE /\ buffer = 0 /\ sendPadding = TRUE /\ pkt = 0
  /\ frames = 0 /\ accepted = 0 /\ ends = {}
  /\ pc = "idle" /\ ranges = <<>> /\ from = 0 /\ rem = 0
  /\ out = 0 /\ wastes = {}

\* cmdUpdatePaddingScheme, for this session or another one of the process.
UpdatePaddingScheme ==
  /\ factory' \in Factories
  /\ UNCHANGED <<sessVars, inVars, writeVars, wireVars>>

\* OpenStream, after the first SYN.
StopBuffering ==
  /\ buffering /\ pc = "idle" /\ buffer > 0
  /\ buffering' = FALSE
  /\ UNCHANGED <<factory, buffer, sendPadding, pkt, inVars, writeVars, wireVars>>

\* A frame of n bytes comes to writeConnLocked.
Take(n) ==
  /\ pc = "idle" /\ frames < MaxFrames
  /\ frames' = frames + 1
  /\ accepted' = accepted + n
  /\ ends' = ends \cup {accepted + n}

WriteBuffered(n) ==
  /\ Take(n) /\ buffering
  /\ buffer' = buffer + n
  /\ UNCHANGED <<factory, buffering, sendPadding, pkt, writeVars, wireVars>>

\* What was buffered goes in front.
Flush(n) ==
  /\ Take(n) /\ ~buffering
  /\ buffer' = 0 /\ buffering' = FALSE

\* The lines of a scheme begin with the packet 1: pkt is incremented first.  A
\* scheme is always there: UpdatePaddingScheme stores none that is nil.
WritePadded(n) ==
  /\ Flush(n) /\ sendPadding
  /\ pkt' = (pkt + 1) % Wrap
  /\ pkt' < factory.stop
  /\ ranges' = IF pkt' \in DOMAIN factory.parsed THEN factory.parsed[pkt'] ELSE <<>>
  /\ from' = accepted - buffer /\ rem' = buffer + n
  /\ pc' = "loop"
  /\ UNCHANGED <<factory, sendPadding, wireVars>>

\* From the packet Stop on, or after it, nothing is padded.
WritePlain(n) ==
  /\ Flush(n)
  /\ \/ /\ sendPadding
        /\ pkt' = (pkt + 1) % Wrap
        /\ pkt' >= factory.stop
        /\ sendPadding' = FALSE
     \/ ~sendPadding /\ UNCHANGED <<sendPadding, pkt>>
  /\ from' = accepted - buffer /\ rem' = buffer + n
  /\ pc' = "tail"
  /\ UNCHANGED <<factory, ranges, wireVars>>

-----------------------------------------------------------------------------
(* The loop over the sizes of AppendRecordPayloadSizes.                    *)

\* rand.Int64N leaves out the upper end.
Sizes(r) == IF r.min = r.max THEN {r.min} ELSE r.min .. r.max - 1

InLoop == pc = "loop" /\ ranges # <<>>

Rest == ranges' = Tail(ranges)

Skip ==
  /\ InLoop /\ Head(ranges).kind = "nothing"
  /\ Rest
  /\ UNCHANGED <<factory, sessVars, inVars, pc, from, rem, wireVars>>

\* A check mark ends the loop if nothing is left to send.
CheckMark ==
  /\ InLoop /\ Head(ranges).kind = "check"
  /\ IF rem = 0
     THEN pc' = "tail" /\ ranges' = <<>>
     ELSE pc' = pc /\ Rest
  /\ UNCHANGED <<factory, sessVars, inVars, from, rem, wireVars>>

Size(l) == InLoop /\ Head(ranges).kind = "range" /\ l \in Sizes(Head(ranges)) /\ Rest

\* Faulty variant: the bytes sent stay in b.
BadSplit(l) ==
  /\ Size(l) /\ rem > l
  /\ out' = out + l
  /\ UNCHANGED <<factory, sessVars, inVars, pc, from, rem, wastes>>

Split(l) ==
  /\ Size(l) /\ rem > l
  /\ out' = out + l
  /\ from' = from + l /\ rem' = rem - l
  /\ UNCHANGED <<factory, sessVars, inVars, pc, wastes>>

Waste(at, zeros) == wastes' = wastes \cup {[at |-> at, length |-> zeros % Width, zeros |-> zeros]}

\* The rest of b, filled up to l if a waste frame fits.
Last(l) ==
  /\ Size(l) /\ rem \in 1..l
  /\ out' = out + rem
  /\ from' = from + rem /\ rem' = 0
  /\ IF l - rem - Header > 0 THEN Waste(out + rem, l - rem - Header) ELSE wastes' = wastes
  /\ UNCHANGED <<factory, sessVars, inVars, pc>>

\* Nothing is left: a waste frame of l zeros.
Pure(l) ==
  /\ Size(l) /\ rem = 0
  /\ Waste(out, l)
  /\ UNCHANGED <<factory, sessVars, inVars, pc, from, rem, out>>

LoopEnd ==
  /\ pc = "loop" /\ ranges = <<>>
  /\ pc' = "tail"
  /\ UNCHANGED <<factory, sessVars, inVars, ranges, from, rem, wireVars>>

\* What the sizes have left of b, and conn.Write.
WriteTail ==
  /\ pc = "tail"
  /\ out' = out + rem
  /\ from' = 0 /\ rem' = 0 /\ pc' = "idle"
  /\ UNCHANGED <<factory, sessVars, inVars, ranges, wastes>>

\* The connection is broken: whatever part of it the peer has got is the last.
WriteFails ==
  /\ pc = "tail"
  /\ pc' = "dead"
  /\ UNCHANGED <<factory, sessVars, inVars, ranges, from, rem, wireVars>>

Loop ==
  \/ Skip \/ CheckMark \/ LoopEnd
  \/ InLoop /\ \E l \in Sizes(Head(ranges)) : Split(l) \/ Last(l) \/ Pure(l)

Next ==
  \/ UpdatePaddingScheme \/ StopBuffering
  \/ \E n \in FrameSizes : WriteBuffered(n) \/ WritePadded(n) \/ WritePlain(n)
  \/ Loop \/ WriteTail \/ WriteFails

Spec == Init /\ [][Next]_vars

-----------------------------------------------------------------------------
(* Properties.                                                             *)

Ranges ==
  {Check, Nothing} \cup
  {r \in [kind : {"range"}, min : 1..MaxPad, max : 1..MaxPad] : r.min <= r.max}

FactoryOK(f) ==
  /\ f.stop \in 0 .. Wrap - 1
  /\ DOMAIN f.parsed \subseteq 0 .. Wrap - 1
  /\ \A k \in DOMAIN f.parsed : f.parsed[k] \in Seq(Ranges)

\* With the limits the loop relies on: no size is 0 or above maxPaddingSize,
\* and rand.Int64N has an interval to choose from (padding.go:83-97, 121-125).
TypeOK ==
  /\ FactoryOK(factory)
  /\ {buffering, sendPadding} \subseteq BOOLEAN
  /\ {buffer, accepted, from, rem, out} \subseteq Nat
  /\ pkt \in 0 .. Wrap - 1 /\ frames \in 0..MaxFrames
  /\ ends \subseteq Nat
  /\ pc \in {"idle", "loop", "tail", "dead"}
  /\ ranges \in Seq(Ranges)
  /\ wastes \subseteq [at : Nat, length : Nat, zeros : Nat]

\* Whatever the scheme, and whenever it is replaced: no byte of a frame is
\* lost, repeated or moved by the buffering and the splitting
\* (session.go:430-438, 457-495).
PayloadInOrder ==
  /\ pc = "idle" => out + buffer = accepted
  /\ pc \in {"loop", "tail"} =>
       buffer = 0 /\ out + rem = accepted /\ (rem > 0 => from = out)

\* A waste frame lies between two frames, never inside one, and its length
\* field is the number of zeros that follow, which zeroBuf can give
\* (session.go:468-488).
WasteBetweenFrames ==
  \A w \in wastes : w.at \in ends /\ w.length = w.zeros /\ w.zeros \in 1..ZeroBuf
=============================================================================
