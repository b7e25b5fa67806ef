---------------------------- MODULE SessionProofs ----------------------------
(***************************************************************************)
(* What is proved of Session, for any number of streams, any capacity and  *)
(* any versions and schemes: a live stream can be reached by what is to    *)
(* close it, one FIN at most is sent for it, no data frame is written      *)
(* under a deadline, no outbound connection is left in a live session, and *)
(* the life of every stream is one that StreamLife allows.                 *)
(***************************************************************************)
EXTENDS Session, TLAPS

-----------------------------------------------------------------------------
(* The threads are all different, and none is "nobody" (<<>>).             *)

\* Goroutines of a session and of its streams are told apart (session.go:79-83,
\* 215-227).
LEMMA ThreadFacts ==
  /\ Recv \in Threads /\ Admin \in Threads /\ Recv # Admin
  /\ \A s \in Sids : /\ Main(s) \in Threads /\ Main(s) # Recv /\ Main(s) # Admin
                     /\ Down(s) \in Threads /\ Down(s) # Recv /\ Down(s) # Admin
  /\ \A s, u \in Sids : /\ Main(s) # Down(u)
                        /\ Main(s) = Main(u) => s = u
                        /\ Down(s) = Down(u) => s = u
  /\ \A t \in Threads : t # <<>>
  BY SMT DEF Threads, Recv, Admin, Main, Down

-----------------------------------------------------------------------------
(* What the kinds of steps leave alone.                                    *)

Writing(t)  == WriteLock(t) \/ WriteConn(t)
Handlers(s) == Handler(s) \/ Copier(s) \/ Remote(s)

\* Writing a frame (session.go:397-428).
LEMMA WritingFrame ==
  ASSUME NEW t \in Threads, Writing(t)
  PROVE  UNCHANGED <<inq, peerVars, connClosed, die, streams, recvVars, pc, streamVars, late>>
  BY DEF Writing, WriteConn, WriteLock, WritePut, WriteFail, WriteDone, closeVars, histVars

\* Session.Close (session.go:115-137).
LEMMA ClosingFrame ==
  ASSUME NEW t \in Threads, SessionClose(t)
  PROVE  UNCHANGED <<inq, outq, peerVars, wdl, broken, connLock, writeVars, recvVars, pc,
                     pipeN, remote, histVars>>
  BY DEF SessionClose, CloseOnce, CloseSweep, CloseConn, connVars, streamVars

\* The receive loop (session.go:175-359).
LEMMA RecvFrame ==
  ASSUME RecvLoop
  PROVE  UNCHANGED <<outq, peerVars, connVars, die, remote, fins>>
  BY DEF RecvLoop, RecvPSH, RecvPush, RecvSYNEarly, RecvSYN, RecvFIN, RecvFINClose, RecvHeart,
         RecvSettings, RecvVersion, RecvReturn, closeVars, streamVars, histVars

\* A stream's goroutines (inbound_tcp.go:95-115, outbound_tcp.go:14-49).
LEMMA HandlersFrame ==
  ASSUME NEW s \in Sids, Handlers(s)
  PROVE  UNCHANGED <<inq, outq, peerVars, connVars, closeVars, recvVars, histVars>>
  BY DEF Handlers, Handler, Copier, Remote, HandlerAddr, HandlerUoT, HandlerDial, HandlerStart,
         UpRead, UpSend, UpEnd, HandlerJoin, CloseBy, StreamClose, StreamClosed, StreamDelete, DownFail,
         UpFail, DownData, DownEOF, handlerUnchanged

\* The peer (session.go:79-99, 139-173).
LEMMA PeerFrame ==
  ASSUME Peer
  PROVE  UNCHANGED <<connVars, writeVars, closeVars, streams, recvVars, pc, streamVars, histVars>>
  BY DEF Peer, PeerGreet, PeerHeart, PeerRecv, PeerGone, PeerSyn, PeerPsh, PeerFin, peerUnchanged

-----------------------------------------------------------------------------
(* The types, in parts: each kind of step disturbs few of them.            *)

Labels == {"none", "run", "push", "fin", "version", "return", "addr", "uot", "dial", "report",
           "up", "send", "join", "copy", "close", "closed", "delete", "end"}
MainLabels == {"none", "addr", "uot", "dial", "report", "up", "send", "join", "close",
               "closed", "delete", "end"}
DownLabels == {"none", "copy", "close", "closed", "delete", "end"}

\* A frame of a stream says which.
OfStream(f) == f.cmd \in {"SYN", "PSH", "FIN"} => f.sid \in Sids

InType  == inq \in Seq(Frames) /\ Len(inq) <= ConnCap /\ \A i \in 1..Len(inq) : OfStream(inq[i])
OutType == outq \in Seq(Frames) /\ Len(outq) <= ConnCap /\ \A i \in 1..Len(outq) : OfStream(outq[i])

PeerType ==
  /\ pst \in [Sids -> {"none", "open", "closed"}]
  /\ greeted \in BOOLEAN /\ peerGone \in BOOLEAN
  /\ hearts \in 0..MaxHearts

ConnType ==
  /\ connClosed \in BOOLEAN /\ wdl \in BOOLEAN /\ broken \in BOOLEAN
  /\ connLock \in Threads \cup {<<>>}

WriteType ==
  /\ w \in [Threads -> Frames \cup {NoFrame}]
  /\ wst \in [Threads -> {"none", "lock", "conn"}]
  /\ res \in [Threads -> {"ok", "err"}]
  /\ \A t \in Threads : OfStream(w[t]) /\ (wst[t] # "none" => w[t] \in Frames)

CloseType ==
  /\ die \in BOOLEAN
  /\ clo \in [Threads -> {"none", "once", "sweep", "conn"}]

RecvType ==
  /\ settings \in BOOLEAN /\ v2 \in BOOLEAN
  /\ tgt \in Sids \cup {NoSid}
  /\ pc[Recv] \in {"push", "fin"} => tgt \in Sids

PcType ==
  /\ pc \in [Threads -> Labels]
  /\ pc[Recv] \in {"run", "push", "fin", "version", "return", "end"}
  /\ pc[Admin] \in {"none", "end"}
  /\ \A s \in Sids : pc[Main(s)] \in MainLabels /\ pc[Down(s)] \in DownLabels

StreamType ==
  /\ streams \subseteq Sids /\ late \subseteq Sids
  /\ dead \in [Sids -> BOOLEAN]
  /\ pipeN \in [Sids -> 0..PipeCap]
  /\ remote \in [Sids -> {"none", "up", "closed"}]
  /\ fins \in [Sids -> Nat]

TypeInv ==
  /\ InType /\ OutType /\ PeerType /\ ConnType /\ WriteType /\ CloseType /\ RecvType
  /\ PcType /\ StreamType

LEMMA TypeInvTypeOK == TypeInv => TypeOK
  <1> SUFFICES ASSUME TypeInv PROVE TypeOK
    OBVIOUS
  <1>1. {greeted, peerGone, connClosed, wdl, broken, die, settings, v2} \subseteq BOOLEAN
    BY DEF TypeInv, PeerType, ConnType, CloseType, RecvType
  <1> QED
    BY <1>1 DEF TypeInv, InType, OutType, PeerType, ConnType, WriteType, CloseType, RecvType,
       PcType, StreamType, MainLabels, DownLabels, TypeOK

\* The session begins with nothing under way (session.go:68-77).
LEMMA InitTypeInv == Init => TypeInv
  <1> SUFFICES ASSUME Init PROVE TypeInv
    OBVIOUS
  <1>1. InType /\ OutType
    BY SessionAssumption DEF Init, InType, OutType, SessionAssumption
  <1>2. PeerType
    <2>1. greeted \in BOOLEAN /\ peerGone \in BOOLEAN
      BY DEF Init
    <2> QED BY <2>1, SessionAssumption DEF Init, PeerType, SessionAssumption
  <1>7. CloseType
    BY DEF Init, CloseType
  <1>6. ConnType
    BY DEF Init, ConnType
  <1>3. WriteType
    BY DEF Init, WriteType, NoFrame, OfStream
  <1>4. RecvType /\ PcType
    BY ThreadFacts DEF Init, RecvType, PcType, Labels, MainLabels, DownLabels
  <1>5. StreamType
    BY SessionAssumption DEF Init, StreamType, SessionAssumption
  <1> QED BY <1>1, <1>2, <1>3, <1>4, <1>5, <1>6, <1>7 DEF TypeInv

\* A queue keeps its type when a frame is taken from it or put into it.
LEMMA QueueTyped ==
  ASSUME NEW q \in Seq(Frames), Len(q) <= ConnCap, \A i \in 1..Len(q) : OfStream(q[i])
  PROVE  /\ q # <<>> => /\ Head(q) \in Frames /\ OfStream(Head(q))
                        /\ Tail(q) \in Seq(Frames) /\ Len(Tail(q)) <= ConnCap
                        /\ \A i \in 1..Len(Tail(q)) : OfStream(Tail(q)[i])
         /\ \A f \in Frames : Len(q) < ConnCap /\ OfStream(f) =>
              /\ Append(q, f) \in Seq(Frames) /\ Len(Append(q, f)) <= ConnCap
              /\ \A i \in 1..Len(Append(q, f)) : OfStream(Append(q, f)[i])
  <1>1. ASSUME q # <<>>
        PROVE  /\ Head(q) \in Frames /\ OfStream(Head(q))
               /\ Tail(q) \in Seq(Frames) /\ Len(Tail(q)) <= ConnCap
               /\ \A i \in 1..Len(Tail(q)) : OfStream(Tail(q)[i])
    <2>1. Len(q) \in Nat /\ Len(q) > 0 /\ Head(q) = q[1]
      BY <1>1
    <2>2. Tail(q) \in Seq(Frames) /\ Len(Tail(q)) = Len(q) - 1
      BY <1>1
    <2>3. \A i \in 1..Len(Tail(q)) : Tail(q)[i] = q[i + 1] /\ i + 1 \in 1..Len(q)
      BY <2>1, <2>2
    <2> QED BY <2>1, <2>2, <2>3, SessionAssumption DEF SessionAssumption
  <1>2. ASSUME NEW f \in Frames, Len(q) < ConnCap, OfStream(f)
        PROVE  /\ Append(q, f) \in Seq(Frames) /\ Len(Append(q, f)) <= ConnCap
               /\ \A i \in 1..Len(Append(q, f)) : OfStream(Append(q, f)[i])
    BY <1>2, SessionAssumption DEF SessionAssumption
  <1> QED BY <1>1, <1>2

\* What is taken from the connection (session.go:185-188).
LEMMA IncomingFacts ==
  ASSUME TypeInv, NEW c \in Cmds, Incoming(c)
  PROVE  InType' /\ Head(inq) \in Frames /\ OfStream(Head(inq)) /\ inq # <<>>
         /\ pc[Recv] = "run" /\ Idle(Recv) /\ Head(inq).cmd = c
  BY QueueTyped DEF TypeInv, InType, Incoming, Reading

\* What the peer puts into it.
LEMMA PeerSendFacts ==
  ASSUME TypeInv, NEW f \in Frames, OfStream(f), PeerSend(f)
  PROVE  InType'
  BY QueueTyped DEF TypeInv, InType, PeerSend

LEMMA FrameTyped ==
  /\ \A c \in Cmds, s \in Sids : Frame(c, s) \in Frames /\ OfStream(Frame(c, s))
  /\ \A c \in Cmds \ {"SYN", "PSH", "FIN"} : Frame(c, NoSid) \in Frames /\ OfStream(Frame(c, NoSid))
  BY DEF Frame, Frames, OfStream

\* A thread begins to write a frame (session.go:397-405).
LEMMA StartWriteTyped ==
  ASSUME WriteType, NEW t \in Threads, NEW f \in Frames, OfStream(f), StartWrite(t, f)
  PROVE  WriteType'
  BY DEF WriteType, StartWrite

\* Writing a frame keeps the types (session.go:397-428).
LEMMA WritingTypeInv == ASSUME TypeInv, NEW t \in Threads, Writing(t) PROVE TypeInv'
  <1> USE DEF TypeInv, Writing, WriteConn
  <1>1. InType' /\ PeerType' /\ RecvType' /\ PcType'
    BY WritingFrame DEF InType, PeerType, RecvType, PcType, peerVars, recvVars
  <1>2. OutType'
    <2>1. CASE WritePut(t)
      <3>1. w[t] \in Frames /\ OfStream(w[t])
        BY <2>1 DEF WriteType, WritePut
      <3> QED BY <2>1, <3>1, QueueTyped DEF OutType, WritePut
    <2> QED BY <2>1 DEF OutType, WriteLock, WriteFail
  <1>3. connLock' \in Threads \cup {<<>>} /\ connClosed' \in BOOLEAN
    BY DEF ConnType, WriteLock, WritePut, WriteFail, WriteDone
  <1>4. wdl' \in BOOLEAN
    BY DEF ConnType, WriteLock, WritePut, WriteFail, WriteDone
  <1>5. broken' \in BOOLEAN
    BY DEF ConnType, WriteLock, WritePut, WriteFail, WriteDone
  <1>6. WriteType'
    <2>1. CASE WriteLock(t)
      BY <2>1 DEF WriteType, WriteLock
    <2>2. ASSUME NEW r \in {"ok", "err"}, WriteDone(t, r) PROVE WriteType'
      BY <2>2 DEF WriteType, WriteDone, NoFrame, OfStream
    <2> QED BY <2>1, <2>2 DEF WritePut, WriteFail
  <1>7. CloseType'
    <2>1. die' \in BOOLEAN
      BY WritingFrame DEF CloseType
    <2> QED BY <2>1 DEF CloseType, WriteLock, WritePut, WriteFail, closeVars
  <1>8. StreamType'
    <2>1. fins' \in [Sids -> Nat]
      BY DEF StreamType, WriteLock, WritePut, WriteFail, histVars
    <2>2. UNCHANGED <<streams, late, dead, pipeN, remote>>
      BY WritingFrame DEF streamVars
    <2> QED BY <2>1, <2>2 DEF StreamType
  <1> QED BY <1>1, <1>2, <1>3, <1>4, <1>5, <1>6, <1>7, <1>8 DEF ConnType

\* Session.Close keeps the types (session.go:115-137).
LEMMA ClosingTypeInv == ASSUME TypeInv, NEW t \in Threads, SessionClose(t) PROVE TypeInv'
  <1> USE DEF TypeInv, SessionClose
  <1>1. InType' /\ OutType' /\ PeerType' /\ RecvType' /\ PcType' /\ WriteType'
    BY ClosingFrame
    DEF InType, OutType, PeerType, RecvType, PcType, WriteType, peerVars, recvVars, writeVars
  <1>2. connClosed' \in BOOLEAN
    BY DEF ConnType, CloseOnce, CloseSweep, CloseConn, connVars
  <1>3. ConnType'
    BY <1>2, ClosingFrame DEF ConnType
  <1>4. die' \in BOOLEAN
    BY DEF CloseType, CloseOnce, CloseSweep, CloseConn
  <1>5. clo' \in [Threads -> {"none", "once", "sweep", "conn"}]
    BY DEF CloseType, CloseOnce, CloseSweep, CloseConn
  <1>6. streams' \subseteq Sids /\ dead' \in [Sids -> BOOLEAN]
    BY DEF StreamType, CloseOnce, CloseSweep, CloseConn, streamVars
  <1>7. StreamType'
    BY <1>6, ClosingFrame DEF StreamType, histVars
  <1> QED BY <1>1, <1>3, <1>4, <1>5, <1>7 DEF CloseType

\* CloseAll keeps the types (users.go:350-362).
LEMMA AdminTypeInv == ASSUME TypeInv, AdminClose PROVE TypeInv'
  <1> USE DEF TypeInv, AdminClose
  <1>1. InType' /\ OutType' /\ PeerType' /\ ConnType' /\ WriteType' /\ StreamType'
    BY DEF InType, OutType, PeerType, ConnType, WriteType, StreamType, peerVars, connVars,
       writeVars, streamVars, histVars
  <1>2. CloseType' /\ RecvType'
    BY ThreadFacts DEF CloseType, RecvType, recvVars, PcType, Goto
  <1>3. PcType'
    BY ThreadFacts DEF PcType, Goto, Labels
  <1> QED BY <1>1, <1>2, <1>3

\* The peer keeps the types (session.go:79-99, 139-173).
LEMMA PeerTypeInv == ASSUME TypeInv, Peer PROVE TypeInv'
  <1> USE DEF TypeInv, Peer
  <1>1. ConnType' /\ WriteType' /\ CloseType' /\ RecvType' /\ PcType' /\ StreamType'
    BY PeerFrame
    DEF ConnType, WriteType, CloseType, RecvType, PcType, StreamType, connVars, writeVars,
        closeVars, recvVars, streamVars, histVars
  <1>2. InType'
    <2>1. CASE PeerGreet \/ PeerHeart
      BY <2>1, FrameTyped, PeerSendFacts DEF PeerGreet, PeerHeart, InType, Cmds
    <2>2. ASSUME NEW s \in Sids, PeerSyn(s) \/ PeerPsh(s) \/ PeerFin(s) PROVE InType'
      BY <2>2, FrameTyped, PeerSendFacts DEF PeerSyn, PeerPsh, PeerFin, Cmds
    <2> QED BY <2>1, <2>2 DEF PeerRecv, PeerGone, InType
  <1>3. OutType'
    <2>1. CASE PeerRecv
      BY <2>1, QueueTyped DEF PeerRecv, OutType
    <2> QED BY <2>1 DEF PeerGreet, PeerHeart, PeerGone, PeerSyn, PeerPsh, PeerFin, OutType
  <1>4. greeted' \in BOOLEAN /\ peerGone' \in BOOLEAN
    BY DEF PeerGreet, PeerHeart, PeerGone, PeerSyn, PeerPsh, PeerFin, PeerRecv, PeerType, peerVars
  <1>5. hearts' \in 0..MaxHearts
    BY SessionAssumption DEF PeerGreet, PeerHeart, PeerGone, PeerSyn, PeerPsh, PeerFin, PeerRecv, PeerType, peerVars,
       SessionAssumption
  <1>6. pst' \in [Sids -> {"none", "open", "closed"}]
    BY DEF PeerGreet, PeerHeart, PeerGone, PeerSyn, PeerPsh, PeerFin, PeerRecv, PeerType, peerVars
  <1> QED BY <1>1, <1>2, <1>3, <1>4, <1>5, <1>6 DEF PeerType

\* The receive loop keeps the types (session.go:175-359).
LEMMA RecvTypeInv == ASSUME TypeInv, RecvLoop PROVE TypeInv'
  <1> USE DEF TypeInv
  <1>1. OutType' /\ PeerType' /\ ConnType'
    BY RecvFrame DEF OutType, PeerType, ConnType, peerVars, connVars
  <1>2. InType'
    <2>1. CASE RecvPSH \/ RecvSYNEarly \/ RecvSYN \/ RecvFIN \/ RecvHeart \/ RecvSettings
      BY <2>1, IncomingFacts
      DEF RecvPSH, RecvSYNEarly, RecvSYN, RecvFIN, RecvHeart, RecvSettings, Cmds
    <2>2. CASE RecvPush \/ RecvFINClose \/ RecvVersion \/ RecvReturn
      BY <2>2 DEF RecvPush, RecvFINClose, RecvVersion, RecvReturn, InType
    <2> QED BY <2>1, <2>2 DEF RecvLoop
  <1>3. WriteType'
    <2>1. \A c \in {"Alert", "HeartResponse", "UpdatePadding", "ServerSettings"} :
            StartWrite(Recv, Frame(c, NoSid)) => WriteType'
      BY ThreadFacts, FrameTyped, StartWriteTyped DEF Cmds
    <2>2. UNCHANGED writeVars => WriteType'
      BY DEF WriteType, writeVars
    <2> QED
      BY <2>1, <2>2
      DEF RecvLoop, RecvPSH, RecvPush, RecvSYNEarly, RecvSYN, RecvFIN, RecvFINClose, RecvHeart,
          RecvSettings, RecvVersion, RecvReturn
  <1>4. CloseType'
    <2>1. clo' \in [Threads -> {"none", "once", "sweep", "conn"}]
      BY DEF CloseType, closeVars, RecvLoop, RecvPSH, RecvPush, RecvSYNEarly, RecvSYN, RecvFIN,
         RecvFINClose, RecvHeart, RecvSettings, RecvVersion, RecvReturn
    <2> QED BY <2>1, RecvFrame DEF CloseType
  <1>5. settings' \in BOOLEAN /\ v2' \in BOOLEAN
    BY DEF RecvType, recvVars, RecvLoop, RecvPSH, RecvPush, RecvSYNEarly, RecvSYN, RecvFIN,
       RecvFINClose, RecvHeart, RecvSettings, RecvVersion, RecvReturn
  <1>6. tgt' \in Sids \cup {NoSid} /\ (pc'[Recv] \in {"push", "fin"} => tgt' \in Sids) /\ PcType'
    <2> USE ThreadFacts DEF RecvType, PcType, Goto, Labels, MainLabels
    <2>1. CASE RecvPSH
      BY <2>1, IncomingFacts DEF RecvPSH, Cmds, OfStream
    <2>2. CASE RecvPush \/ RecvFINClose
      BY <2>2 DEF RecvPush, RecvFINClose
    <2>3. CASE RecvSYNEarly \/ RecvHeart \/ RecvSettings
      BY <2>3, IncomingFacts DEF RecvSYNEarly, RecvHeart, RecvSettings, Cmds, recvVars
    <2>4. CASE RecvSYN
      BY <2>4, IncomingFacts DEF RecvSYN, Cmds, OfStream, recvVars
    <2>5. CASE RecvFIN
      BY <2>5, IncomingFacts DEF RecvFIN, Cmds, OfStream
    <2>6. CASE RecvVersion \/ RecvReturn
      BY <2>6 DEF RecvVersion, RecvReturn, recvVars
    <2> QED BY <2>1, <2>2, <2>3, <2>4, <2>5, <2>6 DEF RecvLoop
  <1>7. StreamType'
    <2>1. CASE RecvPSH \/ RecvSYNEarly \/ RecvHeart \/ RecvSettings \/ RecvVersion \/ RecvReturn
      BY <2>1 DEF StreamType, RecvPSH, RecvSYNEarly, RecvHeart, RecvSettings, RecvVersion, RecvReturn,
         streamVars, histVars
    <2>2. CASE RecvPush
      BY <2>2, SessionAssumption DEF RecvPush, StreamType, RecvType, histVars, SessionAssumption
    <2>3. CASE RecvSYN \/ RecvFIN
      BY <2>3, IncomingFacts DEF RecvSYN, RecvFIN, StreamType, OfStream, Cmds, streamVars, histVars
    <2>4. CASE RecvFINClose
      BY <2>4 DEF RecvFINClose, StreamType, histVars
    <2> QED BY <2>1, <2>2, <2>3, <2>4 DEF RecvLoop
  <1> QED BY <1>1, <1>2, <1>3, <1>4, <1>5, <1>6, <1>7 DEF RecvType

\* A stream's goroutines keep the types (inbound_tcp.go:95-115, outbound_tcp.go:14-49).
LEMMA HandlersTypeInv == ASSUME TypeInv, NEW s \in Sids, Handlers(s) PROVE TypeInv'
  <1> USE DEF TypeInv, Handlers, Handler, Copier, Remote, CloseBy
  <1>1. InType' /\ OutType' /\ PeerType' /\ ConnType' /\ CloseType'
    BY HandlersFrame DEF InType, OutType, PeerType, ConnType, CloseType, peerVars, connVars, closeVars
  <1>2. WriteType'
    <2>1. \A t \in {Main(s), Down(s)}, c \in {"SYNERR", "SYNACK", "PSH", "FIN"} :
            StartWrite(t, Frame(c, s)) => WriteType'
      BY ThreadFacts, FrameTyped, StartWriteTyped DEF Cmds
    <2>2. UNCHANGED writeVars => WriteType'
      BY DEF WriteType, writeVars
    <2>3. \A t \in {Main(s), Down(s)} :
            res' = [res EXCEPT ![t] = "ok"] /\ UNCHANGED <<w, wst>> => WriteType'
      BY ThreadFacts DEF WriteType
    <2> QED
      BY <2>1, <2>2, <2>3
      DEF HandlerAddr, HandlerUoT, HandlerDial, HandlerStart, UpRead, UpSend, UpEnd, HandlerJoin, StreamClose,
          StreamClosed, StreamDelete, DownFail, UpFail, DownData, DownEOF, Report
  <1>3. PcType'
    <2> USE ThreadFacts DEF PcType, Goto, Labels, MainLabels, DownLabels
    <2>1. CASE HandlerAddr(s) \/ HandlerUoT(s) \/ HandlerDial(s) \/ HandlerStart(s)
      BY <2>1 DEF HandlerAddr, HandlerUoT, HandlerDial, HandlerStart, Report
    <2>2. CASE UpRead(s) \/ UpSend(s) \/ UpEnd(s) \/ HandlerJoin(s) \/ UpFail(s)
      BY <2>2 DEF UpRead, UpSend, UpEnd, HandlerJoin, UpFail
    <2>3. CASE DownFail(s) \/ DownData(s) \/ DownEOF(s)
      BY <2>3 DEF DownFail, DownData, DownEOF
    <2>4. ASSUME NEW t \in {Main(s), Down(s)}, StreamClose(t, s) \/ StreamClosed(t, s) \/ StreamDelete(t, s)
          PROVE  PcType'
      BY <2>4 DEF StreamClose, StreamClosed, StreamDelete
    <2> QED BY <2>1, <2>2, <2>3, <2>4
  <1>4. RecvType'
    <2>1. pc'[Recv] = pc[Recv]
      BY ThreadFacts
      DEF PcType, Goto, HandlerAddr, HandlerUoT, HandlerDial, HandlerStart, UpRead, UpSend, UpEnd, HandlerJoin,
          StreamClose, StreamClosed, StreamDelete, DownFail, UpFail, DownData, DownEOF, Report
    <2> QED BY <2>1, HandlersFrame DEF RecvType, recvVars
  <1>5. StreamType'
    <2>1. streams' \subseteq Sids
      BY DEF StreamType, HandlerAddr, HandlerUoT, HandlerDial, HandlerStart, UpRead, UpSend, UpEnd, HandlerJoin,
         StreamClose, StreamClosed, StreamDelete, DownFail, UpFail, DownData, DownEOF
    <2>2. dead' \in [Sids -> BOOLEAN]
      BY DEF StreamType, HandlerAddr, HandlerUoT, HandlerDial, HandlerStart, UpRead, UpSend, UpEnd, HandlerJoin,
         StreamClose, StreamClosed, StreamDelete, DownFail, UpFail, DownData, DownEOF, streamVars
    <2>3. pipeN' \in [Sids -> 0..PipeCap]
      BY SessionAssumption
      DEF StreamType, HandlerAddr, HandlerUoT, HandlerDial, HandlerStart, UpRead, UpSend, UpEnd, HandlerJoin,
          StreamClose, StreamClosed, StreamDelete, DownFail, UpFail, DownData, DownEOF, streamVars,
          SessionAssumption
    <2>4. remote' \in [Sids -> {"none", "up", "closed"}]
      BY DEF StreamType, HandlerAddr, HandlerUoT, HandlerDial, HandlerStart, UpRead, UpSend, UpEnd, HandlerJoin,
         StreamClose, StreamClosed, StreamDelete, DownFail, UpFail, DownData, DownEOF, streamVars
    <2> QED BY <2>1, <2>2, <2>3, <2>4, HandlersFrame DEF StreamType, histVars
  <1> QED BY <1>1, <1>2, <1>3, <1>4, <1>5

\* Every step keeps the types.
LEMMA NextTypeInv == ASSUME TypeInv, [Next]_vars PROVE TypeInv'
  <1>1. CASE UNCHANGED vars
    BY <1>1
    DEF vars, TypeInv, InType, OutType, PeerType, ConnType, WriteType, CloseType, RecvType, PcType,
        StreamType, peerVars, connVars, writeVars, closeVars, recvVars, streamVars, histVars
  <1> QED
    BY <1>1, WritingTypeInv, ClosingTypeInv, AdminTypeInv, RecvTypeInv, HandlersTypeInv, PeerTypeInv
    DEF Next, Writing, Handlers

-----------------------------------------------------------------------------
(* Who is inside a write or a Close, and who holds connLock.               *)

\* Where a thread is at its own code: it writes nothing and closes nothing.
Quiet == {"none", "push", "fin", "addr", "uot", "dial", "up", "send", "join", "closed"}
QuietInv == \A t \in Threads : pc[t] \in Quiet => Idle(t)

\* A SYN in flight is of a stream that has no handler yet, and is the only one.
SynInv ==
  \A s \in Sids :
    /\ pc[Main(s)] # "none" => pst[s] # "none"
    /\ \A i \in 1..Len(inq) : inq[i] = Frame("SYN", s) =>
         /\ pst[s] # "none" /\ pc[Main(s)] = "none"
         /\ \A j \in 1..Len(inq) : inq[j] = Frame("SYN", s) => j = i

\* Who writes on the connection holds the lock, and a deadline is set only
\* while a control frame is written.
LockInv ==
  /\ \A t \in Threads : wst[t] = "conn" => connLock = t
  /\ wdl => connLock # <<>> /\ wst[connLock] = "conn" /\ IsControl(w[connLock])

\* The SYN the loop takes starts a handler where there is none (session.go:215-226).
LEMMA SynStarts ==
  ASSUME TypeInv, SynInv, Incoming("SYN")
  PROVE  Head(inq).sid \in Sids /\ pc[Main(Head(inq).sid)] = "none"
  <1>1. Head(inq).sid \in Sids /\ Head(inq) = Frame("SYN", Head(inq).sid) /\ inq # <<>>
    BY IncomingFacts DEF Cmds, OfStream, Frames, Frame
  <1>2. 1 \in 1..Len(inq) /\ inq[1] = Head(inq)
    BY <1>1 DEF TypeInv, InType
  <1> QED BY <1>1, <1>2 DEF SynInv

\* The handlers' threads are where their code is (inbound_tcp.go:95-115,
\* outbound_tcp.go:14-49).
LEMMA HandlersQuiet ==
  ASSUME TypeInv, QuietInv, NEW s \in Sids, Handlers(s)
  PROVE  QuietInv'
  <1> USE ThreadFacts
      DEF TypeInv, PcType, WriteType, CloseType, QuietInv, Quiet, Idle, Goto, StartWrite, Report,
          handlerUnchanged, closeVars, writeVars
  <1>1. CASE HandlerAddr(s) \/ HandlerUoT(s)
    BY <1>1 DEF HandlerAddr, HandlerUoT
  <1>2. CASE HandlerDial(s)
    BY <1>2 DEF HandlerDial
  <1>3. CASE HandlerStart(s)
    BY <1>3 DEF HandlerStart
  <1>4. CASE UpRead(s) \/ UpSend(s) \/ UpEnd(s) \/ HandlerJoin(s) \/ UpFail(s)
    BY <1>4 DEF UpRead, UpSend, UpEnd, HandlerJoin, UpFail
  <1>5. CASE DownFail(s) \/ DownData(s) \/ DownEOF(s)
    BY <1>5 DEF DownFail, DownData, DownEOF, Copying
  <1>6. ASSUME NEW t \in {Main(s), Down(s)}, CloseBy(t, s) PROVE QuietInv'
    BY <1>6 DEF CloseBy, StreamClose, StreamClosed, StreamDelete
  <1> QED BY <1>1, <1>2, <1>3, <1>4, <1>5, <1>6 DEF Handlers, Handler, Copier, Remote

\* QuietInv is inductive, given that a SYN starts a handler only once.
LEMMA NextQuiet ==
  ASSUME TypeInv, QuietInv, SynInv, [Next]_vars
  PROVE  QuietInv'
  <1> USE ThreadFacts DEF TypeInv, PcType, WriteType, CloseType, QuietInv, Quiet, Idle
  <1>1. ASSUME NEW t \in Threads, Writing(t) PROVE QuietInv'
    BY <1>1
    DEF Writing, WriteConn, WriteLock, WritePut, WriteFail, WriteDone, closeVars
  <1>2. ASSUME NEW t \in Threads, SessionClose(t) PROVE QuietInv'
    BY <1>2 DEF SessionClose, CloseOnce, CloseSweep, CloseConn, writeVars
  <1>3. CASE AdminClose
    BY <1>3 DEF AdminClose, Goto, writeVars
  <1>4. CASE RecvLoop
    <2> USE DEF Goto, StartWrite, writeVars, closeVars
    <2>1. CASE RecvPSH \/ RecvSYNEarly \/ RecvFIN \/ RecvHeart \/ RecvSettings
      BY <2>1, IncomingFacts DEF RecvPSH, RecvSYNEarly, RecvFIN, RecvHeart, RecvSettings, Cmds
    <2>2. CASE RecvSYN
      BY <2>2, SynStarts DEF RecvSYN
    <2>3. CASE RecvPush \/ RecvFINClose \/ RecvVersion \/ RecvReturn
      BY <2>3 DEF RecvPush, RecvFINClose, RecvVersion, RecvReturn
    <2> QED BY <1>4, <2>1, <2>2, <2>3 DEF RecvLoop
  <1>5. CASE Peer \/ UNCHANGED vars
    BY <1>5, PeerFrame DEF vars, writeVars, closeVars
  <1> QED BY <1>1, <1>2, <1>3, <1>4, <1>5, HandlersQuiet DEF Next, Writing, Handlers

\* SynInv after a frame that is not this SYN was put into the queue or taken
\* from it.
LEMMA SynQueue ==
  ASSUME InType, NEW s \in Sids
  PROVE  /\ inq # <<>> => \A i \in 1..Len(Tail(inq)) : Tail(inq)[i] = inq[i + 1] /\ i + 1 \in 1..Len(inq)
         /\ \A f \in Frames : \A i \in 1..Len(Append(inq, f)) :
              Append(inq, f)[i] = f \/ (i \in 1..Len(inq) /\ Append(inq, f)[i] = inq[i])
  BY DEF InType

\* Nothing starts a handler, and the queue gets shorter if it changes at all.
LEMMA SynKept ==
  ASSUME InType, SynInv,
         inq' = inq \/ (inq # <<>> /\ inq' = Tail(inq)),
         \A s \in Sids : pst[s] # "none" => pst'[s] # "none",
         \A s \in Sids : pc[Main(s)] = "none" <=> pc'[Main(s)] = "none"
  PROVE  SynInv'
  <1> SUFFICES ASSUME NEW s \in Sids
               PROVE  /\ pc'[Main(s)] # "none" => pst'[s] # "none"
                      /\ \A i \in 1..Len(inq') : inq'[i] = Frame("SYN", s) =>
                           /\ pst'[s] # "none" /\ pc'[Main(s)] = "none"
                           /\ \A j \in 1..Len(inq') : inq'[j] = Frame("SYN", s) => j = i
    BY DEF SynInv
  <1>1. CASE inq' = inq
    BY <1>1 DEF SynInv
  <1>2. CASE inq # <<>> /\ inq' = Tail(inq)
    <2>1. \A i \in 1..Len(inq') : i + 1 \in 1..Len(inq) /\ inq'[i] = inq[i + 1]
      BY <1>2, SynQueue
    <2> QED BY <2>1 DEF SynInv
  <1> QED BY <1>1, <1>2

\* The peer sends a frame: a SYN only for a number it has not used
\* (session.go:144, 158).
LEMMA SynSent ==
  ASSUME TypeInv, SynInv, NEW f \in Frames, PeerSend(f),
         \A s \in Sids : pst[s] # "none" => pst'[s] # "none",
         \A s \in Sids : f = Frame("SYN", s) => pst[s] = "none" /\ pst'[s] # "none",
         pc' = pc
  PROVE  SynInv'
  <1> SUFFICES ASSUME NEW s \in Sids
               PROVE  /\ pc'[Main(s)] # "none" => pst'[s] # "none"
                      /\ \A i \in 1..Len(inq') : inq'[i] = Frame("SYN", s) =>
                           /\ pst'[s] # "none" /\ pc'[Main(s)] = "none"
                           /\ \A j \in 1..Len(inq') : inq'[j] = Frame("SYN", s) => j = i
    BY DEF SynInv
  <1>1. Len(inq) \in Nat /\ Len(inq') = Len(inq) + 1 /\ inq'[Len(inq) + 1] = f
    BY DEF PeerSend, TypeInv, InType
  <1>2. \A i \in 1..Len(inq) : inq'[i] = inq[i]
    BY DEF PeerSend, TypeInv, InType
  <1>3. CASE f = Frame("SYN", s)
    <2>1. \A i \in 1..Len(inq) : inq[i] # Frame("SYN", s)
      BY <1>3 DEF SynInv
    <2>2. \A i \in 1..Len(inq') : inq'[i] = Frame("SYN", s) => i = Len(inq) + 1
      BY <1>1, <1>2, <2>1
    <2>3. pc[Main(s)] = "none" /\ pst'[s] # "none"
      BY <1>3 DEF SynInv
    <2> QED BY <2>2, <2>3
  <1>4. CASE f # Frame("SYN", s)
    <2>1. \A i \in 1..Len(inq') : inq'[i] = Frame("SYN", s) => i \in 1..Len(inq) /\ inq[i] = Frame("SYN", s)
      BY <1>1, <1>2, <1>4
    <2> QED BY <2>1 DEF SynInv
  <1> QED BY <1>3, <1>4

\* SynInv is inductive.
LEMMA NextSyn ==
  ASSUME TypeInv, SynInv, [Next]_vars
  PROVE  SynInv'
  <1>0. InType
    BY DEF TypeInv
  <1>1. ASSUME NEW t \in Threads, Writing(t) \/ SessionClose(t) PROVE SynInv'
    BY <1>0, <1>1, WritingFrame, ClosingFrame, SynKept DEF peerVars
  <1>2. CASE AdminClose
    BY <1>0, <1>2, ThreadFacts, SynKept DEF AdminClose, Goto, peerVars, TypeInv, PcType
  <1>3. CASE RecvLoop
    <2>1. pst' = pst
      BY <1>3, RecvFrame DEF peerVars
    <2>2. CASE RecvPSH \/ RecvSYNEarly \/ RecvFIN \/ RecvHeart \/ RecvSettings
      <3>1. inq # <<>> /\ inq' = Tail(inq)
        BY <2>2 DEF RecvPSH, RecvSYNEarly, RecvFIN, RecvHeart, RecvSettings, Incoming
      <3>2. \A s \in Sids : pc'[Main(s)] = pc[Main(s)]
        BY <2>2, ThreadFacts DEF RecvPSH, RecvSYNEarly, RecvFIN, RecvHeart, RecvSettings, Goto, TypeInv, PcType
      <3> QED BY <1>0, <2>1, <3>1, <3>2, SynKept
    <2>3. CASE RecvSYN
      <3> DEFINE u == Head(inq).sid
      <3>1. u \in Sids /\ pc[Main(u)] = "none" /\ inq # <<>> /\ inq' = Tail(inq)
        BY <2>3, SynStarts DEF RecvSYN, Incoming
      <3>2. Len(inq) \in Nat \ {0} /\ inq[1] = Frame("SYN", u)
        BY <2>3, <3>1, IncomingFacts DEF RecvSYN, Incoming, TypeInv, InType, Frames, Frame, Cmds
      <3>3. \A i \in 1..Len(inq') : i + 1 \in 1..Len(inq) /\ inq'[i] = inq[i + 1]
        BY <1>0, <3>1, SynQueue
      <3>4. pst[u] # "none" /\ \A i \in 1..Len(inq') : inq'[i] # Frame("SYN", u)
        BY <3>1, <3>2, <3>3 DEF SynInv
      <3>5. \A s \in Sids \ {u} : pc'[Main(s)] = pc[Main(s)]
        BY <2>3, <3>1, ThreadFacts DEF RecvSYN, Goto, TypeInv, PcType
      <3>6. ASSUME NEW s \in Sids
            PROVE  /\ pc'[Main(s)] # "none" => pst'[s] # "none"
                   /\ \A i \in 1..Len(inq') : inq'[i] = Frame("SYN", s) =>
                        /\ pst'[s] # "none" /\ pc'[Main(s)] = "none"
                        /\ \A j \in 1..Len(inq') : inq'[j] = Frame("SYN", s) => j = i
        <4>1. CASE s = u
          BY <2>1, <3>4, <4>1
        <4>2. CASE s # u
          <5>1. pc'[Main(s)] = pc[Main(s)]
            BY <3>5, <4>2
          <5> HIDE DEF u
          <5> QED BY <2>1, <3>3, <5>1 DEF SynInv
        <4> QED BY <4>1, <4>2
      <3> QED BY <3>6 DEF SynInv
    <2>4. CASE RecvPush \/ RecvFINClose \/ RecvVersion \/ RecvReturn
      <3>1. inq' = inq
        BY <2>4 DEF RecvPush, RecvFINClose, RecvVersion, RecvReturn
      <3>2. \A s \in Sids : pc'[Main(s)] = pc[Main(s)]
        BY <2>4, ThreadFacts DEF RecvPush, RecvFINClose, RecvVersion, RecvReturn, Goto, TypeInv, PcType
      <3> QED BY <1>0, <2>1, <3>1, <3>2, SynKept
    <2> QED BY <1>3, <2>2, <2>3, <2>4 DEF RecvLoop
  <1>4. ASSUME NEW s \in Sids, Handlers(s) PROVE SynInv'
    <2>1. \A u \in Sids : pc[Main(u)] = "none" <=> pc'[Main(u)] = "none"
      BY <1>4, ThreadFacts
      DEF Handlers, Handler, Copier, Remote, CloseBy, HandlerAddr, HandlerUoT, HandlerDial, HandlerStart,
          UpRead, UpSend, UpEnd, HandlerJoin, StreamClose, StreamClosed, StreamDelete, DownFail, UpFail, DownData,
          DownEOF, Report, Goto, TypeInv, PcType
    <2> QED BY <1>0, <1>4, <2>1, HandlersFrame, SynKept DEF peerVars
  <1>5. CASE Peer
    <2>1. pc' = pc
      BY <1>5, PeerFrame
    <2>2. CASE PeerGreet \/ PeerHeart
      BY <1>0, <2>1, <2>2, SynSent, SynKept, FrameTyped DEF PeerGreet, PeerHeart, Frame, Cmds, peerVars
    <2>3. ASSUME NEW s \in Sids, PeerSyn(s) PROVE SynInv'
      BY <2>1, <2>3, SynSent, FrameTyped DEF PeerSyn, Frame, Cmds, TypeInv, PeerType
    <2>4. ASSUME NEW s \in Sids, PeerPsh(s) \/ PeerFin(s) PROVE SynInv'
      BY <2>1, <2>4, SynSent, FrameTyped DEF PeerPsh, PeerFin, Frame, Cmds, TypeInv, PeerType, peerVars
    <2>5. CASE PeerRecv \/ PeerGone
      BY <1>0, <2>1, <2>5, SynKept DEF PeerRecv, PeerGone, TypeInv, PeerType
    <2> QED BY <1>5, <2>2, <2>3, <2>4, <2>5 DEF Peer
  <1>6. CASE UNCHANGED vars
    BY <1>6 DEF vars, peerVars, SynInv
  <1> QED BY <1>1, <1>2, <1>3, <1>4, <1>5, <1>6 DEF Next, Writing, Handlers

\* LockInv is inductive: a thread begins to write only when it does not write.
LEMMA NextLock ==
  ASSUME TypeInv, QuietInv, LockInv, [Next]_vars
  PROVE  LockInv'
  <1> USE DEF TypeInv
  <1>1. ASSUME NEW t \in Threads, WriteLock(t) PROVE LockInv'
    <2>1. \A u \in Threads : wst[u] # "conn"
      BY <1>1, ThreadFacts DEF WriteLock, LockInv
    <2>2. wst' = [wst EXCEPT ![t] = "conn"] /\ connLock' = t /\ w' = w
      BY <1>1 DEF WriteLock
    <2>3. \A u \in Threads : wst'[u] = "conn" => u = t
      BY <2>1, <2>2 DEF WriteType
    <2>4. wdl' => IsControl(w[t])
      BY <1>1 DEF WriteLock, LockInv
    <2>5. wst'[t] = "conn" /\ t # <<>>
      BY <2>2, ThreadFacts DEF WriteType
    <2> QED BY <2>2, <2>3, <2>4, <2>5 DEF LockInv
  <1>2. ASSUME NEW t \in Threads, WritePut(t) \/ WriteFail(t) PROVE LockInv'
    <2>1. wst[t] = "conn" /\ connLock = t
      BY <1>2 DEF WritePut, WriteFail, LockInv
    <2>2. wst' = [wst EXCEPT ![t] = "none"] /\ connLock' = <<>> /\ wdl' = (wdl /\ ~IsControl(w[t]))
      BY <1>2 DEF WritePut, WriteFail, WriteDone
    <2>3. \A u \in Threads : wst'[u] # "conn"
      BY <2>1, <2>2 DEF WriteType, LockInv
    <2>4. ~wdl'
      BY <2>1, <2>2 DEF LockInv
    <2> QED BY <2>3, <2>4 DEF LockInv
  <1>3. ASSUME NEW t \in Threads, NEW f, StartWrite(t, f), Idle(t), UNCHANGED connVars
        PROVE  LockInv'
    <2>1. \A u \in Threads : wst'[u] = "conn" => wst[u] = "conn" /\ w'[u] = w[u]
      BY <1>3 DEF StartWrite, WriteType
    <2>2. \A u \in Threads : wst[u] = "conn" => wst'[u] = "conn"  /\ w'[u] = w[u]
      BY <1>3 DEF StartWrite, Idle, WriteType
    <2>3. connLock' = connLock /\ wdl' = wdl /\ (wdl => connLock \in Threads)
      BY <1>3 DEF connVars, ConnType, LockInv
    <2> QED BY <2>1, <2>2, <2>3 DEF LockInv
  <1>4. ASSUME UNCHANGED <<connLock, wdl, w, wst>> PROVE LockInv'
    BY <1>4 DEF LockInv
  <1>5. ASSUME NEW t \in Threads, SessionClose(t) PROVE LockInv'
    BY <1>4, <1>5, ClosingFrame DEF writeVars
  <1>6. CASE AdminClose \/ Peer \/ UNCHANGED vars
    BY <1>4, <1>6, PeerFrame DEF AdminClose, vars, connVars, writeVars
  <1>7. CASE RecvLoop
    <2>1. UNCHANGED connVars
      BY <1>7, RecvFrame
    <2>2. CASE RecvPSH \/ RecvPush \/ RecvSYN \/ RecvFIN \/ RecvFINClose \/ RecvReturn
      BY <1>4, <2>1, <2>2
      DEF RecvPSH, RecvPush, RecvSYN, RecvFIN, RecvFINClose, RecvReturn, writeVars, connVars
    <2>3. CASE RecvSYNEarly \/ RecvHeart \/ RecvSettings \/ RecvVersion
      BY <1>3, <1>4, <2>1, <2>3, ThreadFacts
      DEF RecvSYNEarly, RecvHeart, RecvSettings, RecvVersion, Incoming, Reading, writeVars, connVars
    <2> QED BY <1>7, <2>2, <2>3 DEF RecvLoop
  <1>8. ASSUME NEW s \in Sids, Handlers(s) PROVE LockInv'
    <2>1. UNCHANGED connVars
      BY <1>8, HandlersFrame
    <2>2. CASE HandlerAddr(s) \/ HandlerStart(s) \/ UpRead(s) \/ UpSend(s) \/ UpEnd(s) \/ HandlerJoin(s)
               \/ UpFail(s) \/ DownEOF(s) \/ DownFail(s)
      BY <1>4, <2>1, <2>2
      DEF HandlerAddr, HandlerStart, UpRead, UpSend, UpEnd, HandlerJoin, UpFail, DownEOF, DownFail, writeVars, connVars
    <2>3. CASE HandlerUoT(s) \/ HandlerDial(s)
      <3>1. Idle(Main(s))
        BY <2>3, ThreadFacts DEF HandlerUoT, HandlerDial, QuietInv, Quiet
      <3> QED
        BY <1>3, <1>4, <2>1, <2>3, <3>1, ThreadFacts DEF HandlerUoT, HandlerDial, Report, writeVars, connVars
    <2>4. CASE DownData(s)
      BY <1>3, <1>4, <2>1, <2>4, ThreadFacts DEF DownData, Copying, writeVars, connVars
    <2>5. ASSUME NEW t \in {Main(s), Down(s)}, CloseBy(t, s) PROVE LockInv'
      <3>1. t \in Threads
        BY ThreadFacts
      <3>2. CASE StreamClosed(t, s)
        <4>1. Idle(t)
          BY <3>1, <3>2 DEF StreamClosed, QuietInv, Quiet
        <4> QED BY <1>3, <1>4, <2>1, <3>1, <3>2, <4>1 DEF StreamClosed, writeVars, connVars
      <3> QED BY <1>4, <2>1, <2>5, <3>2 DEF CloseBy, StreamClose, StreamDelete, writeVars, connVars
    <2> QED BY <1>8, <2>2, <2>3, <2>4, <2>5 DEF Handlers, Handler, Copier, Remote
  <1> QED BY <1>1, <1>2, <1>5, <1>6, <1>7, <1>8 DEF Next, WriteConn, Handlers

-----------------------------------------------------------------------------
(* The life of a stream.                                                   *)

\* The handler's steps before it copies.
Early == {"none", "addr", "uot", "dial", "report"}

\* The copier runs only once the handler copies, a stream is dead for whoever
\* closes it, and a live one is where it can be found.
LifeInv ==
  /\ \A s \in Sids :
       /\ pc[Main(s)] \in Early => pc[Down(s)] = "none"
       /\ \A t \in {Main(s), Down(s)} : pc[t] \in {"closed", "delete"} => dead[s]
  /\ LiveStreamReachable

\* The handler's and the copier's Close and the peer's FIN together make the
\* server send one FIN at most for a stream (stream.go:88-104).
FinAtMostOnce == \A s \in Sids : fins[s] <= 1

\* A FIN is still to come from t.
FinPending(t) == pc[t] = "closed" \/ (pc[t] = "delete" /\ wst[t] # "none")

\* A FIN is written by the one thread that closed the stream.
FinInv ==
  /\ \A t \in Threads : wst[t] # "none" /\ w[t].cmd = "FIN" =>
       t \in {Main(w[t].sid), Down(w[t].sid)} /\ pc[t] = "delete"
  /\ \A s \in Sids :
       /\ ~dead[s] => fins[s] = 0
       /\ \A t \in {Main(s), Down(s)} : FinPending(t) => fins[s] = 0
       /\ ~(FinPending(Main(s)) /\ FinPending(Down(s)))
  /\ FinAtMostOnce

\* LifeInv is inductive.
LEMMA NextLife ==
  ASSUME TypeInv, SynInv, LifeInv, [Next]_vars
  PROVE  LifeInv'
  <1> USE ThreadFacts DEF TypeInv, PcType, StreamType, LifeInv, LiveStreamReachable, Started, BeingClosed
  <1>1. ASSUME NEW t \in Threads, Writing(t) PROVE LifeInv'
    BY <1>1, WritingFrame DEF recvVars, streamVars
  <1>2. ASSUME NEW t \in Threads, SessionClose(t) PROVE LifeInv'
    BY <1>2, ClosingFrame DEF SessionClose, CloseOnce, CloseSweep, CloseConn, streamVars, recvVars
  <1>3. CASE AdminClose
    BY <1>3 DEF AdminClose, Goto, recvVars, streamVars
  <1>4. CASE RecvLoop
    <2> USE DEF Goto, streamVars, RecvType
    <2>1. CASE RecvPSH \/ RecvFIN
      BY <2>1, IncomingFacts DEF RecvPSH, RecvFIN, Cmds, OfStream
    <2>2. CASE RecvSYNEarly \/ RecvHeart \/ RecvSettings
      BY <2>2, IncomingFacts DEF RecvSYNEarly, RecvHeart, RecvSettings, Cmds, recvVars
    <2>3. CASE RecvSYN
      BY <2>3, IncomingFacts, SynStarts DEF RecvSYN, Cmds, recvVars, Early
    <2>4. CASE RecvPush \/ RecvFINClose
      BY <2>4 DEF RecvPush, RecvFINClose
    <2>5. CASE RecvVersion \/ RecvReturn
      BY <2>5 DEF RecvVersion, RecvReturn, Reading, recvVars
    <2> QED BY <1>4, <2>1, <2>2, <2>3, <2>4, <2>5 DEF RecvLoop
  <1>5. ASSUME NEW s \in Sids, Handlers(s) PROVE LifeInv'
    <2>0. tgt' = tgt
      BY <1>5, HandlersFrame DEF recvVars
    <2> USE <2>0 DEF Goto, streamVars, Early
    <2>1. CASE HandlerAddr(s) \/ HandlerUoT(s) \/ HandlerDial(s) \/ HandlerStart(s)
      BY <2>1 DEF HandlerAddr, HandlerUoT, HandlerDial, HandlerStart, Report
    <2>2. CASE UpRead(s) \/ UpSend(s) \/ UpEnd(s) \/ HandlerJoin(s) \/ UpFail(s)
      BY <2>2 DEF UpRead, UpSend, UpEnd, HandlerJoin, UpFail
    <2>3. CASE DownFail(s) \/ DownData(s) \/ DownEOF(s)
      BY <2>3 DEF DownFail, DownData, DownEOF, Copying
    <2>4. ASSUME NEW t \in {Main(s), Down(s)}, CloseBy(t, s) PROVE LifeInv'
      BY <2>4 DEF CloseBy, StreamClose, StreamClosed, StreamDelete
    <2> QED BY <1>5, <2>1, <2>2, <2>3, <2>4 DEF Handlers, Handler, Copier, Remote
  <1>6. CASE Peer \/ UNCHANGED vars
    BY <1>6, PeerFrame DEF vars, recvVars, streamVars
  <1> QED BY <1>1, <1>2, <1>3, <1>4, <1>5, <1>6 DEF Next, Writing, Handlers

\* A step that begins no FIN, writes none and moves nobody to where one is due.
LEMMA FinKept ==
  ASSUME FinInv,
         \A t \in Threads : wst'[t] # "none" /\ w'[t].cmd = "FIN" =>
           wst[t] # "none" /\ w'[t] = w[t] /\ (pc[t] = "delete" => pc'[t] = "delete"),
         \A t \in Threads : FinPending(t)' => FinPending(t),
         \A s \in Sids : dead[s] => dead'[s],
         fins' = fins
  PROVE  FinInv'
  <1>1. \A t \in Threads : wst'[t] # "none" /\ w'[t].cmd = "FIN" =>
          t \in {Main(w'[t].sid), Down(w'[t].sid)} /\ pc'[t] = "delete"
    BY DEF FinInv
  <1>2. \A s \in Sids :
          /\ ~dead'[s] => fins'[s] = 0
          /\ \A t \in {Main(s), Down(s)} : FinPending(t)' => fins'[s] = 0
          /\ ~(FinPending(Main(s))' /\ FinPending(Down(s))')
    BY ThreadFacts DEF FinInv
  <1> QED BY <1>1, <1>2 DEF FinInv, FinAtMostOnce

\* The FIN is sent: its thread has nothing more to send, and no other thread
\* has (session.go:361-370).
LEMMA FinSent ==
  ASSUME TypeInv, QuietInv, LifeInv, FinInv, NEW t \in Threads, WritePut(t)
  PROVE  FinInv'
  <1> USE DEF TypeInv, WriteType
  <1>1. wst[t] = "conn" /\ wst' = [wst EXCEPT ![t] = "none"] /\ w' = [w EXCEPT ![t] = NoFrame]
        /\ pc' = pc /\ dead' = dead
    BY DEF WritePut, WriteDone, streamVars
  <1>2. \A u \in Threads : wst'[u] # "none" => u # t /\ wst[u] # "none" /\ w[u] = w'[u]
    BY <1>1
  <1>3. \A u \in Threads : FinPending(u)' => u # t /\ FinPending(u)
    BY <1>1, <1>2 DEF FinPending, QuietInv, Quiet, Idle
  <1>4. CASE w[t].cmd # "FIN"
    BY <1>1, <1>2, <1>3, <1>4, FinKept DEF WritePut
  <1>5. CASE w[t].cmd = "FIN"
    <2>0. PICK u \in Sids : u = w[t].sid
      BY <1>5 DEF OfStream
    <2>1. t \in {Main(u), Down(u)} /\ pc[t] = "delete"
      BY <1>1, <1>5, <2>0 DEF FinInv
    <2>2. fins[u] = 0 /\ dead[u]
      BY <1>1, <2>1 DEF FinInv, FinPending, LifeInv
    <2>3. fins' = [fins EXCEPT ![u] = @ + 1]
      BY <1>5, <2>0 DEF WritePut
    <2>4. fins'[u] = 1 /\ \A s \in Sids \ {u} : fins'[s] = fins[s]
      BY <2>1, <2>2, <2>3 DEF StreamType
    <2>5. ~FinPending(Main(u))' /\ ~FinPending(Down(u))'
      BY <1>1, <1>3, <2>1, ThreadFacts DEF FinInv, FinPending
    <2>6. \A s \in Sids :
            /\ ~dead'[s] => fins'[s] = 0
            /\ \A r \in {Main(s), Down(s)} : FinPending(r)' => fins'[s] = 0
            /\ ~(FinPending(Main(s))' /\ FinPending(Down(s))')
      BY <1>1, <1>3, <2>2, <2>4, <2>5, ThreadFacts DEF FinInv
    <2>7. FinAtMostOnce'
      BY <2>4 DEF FinInv, FinAtMostOnce
    <2>8. \A r \in Threads : wst'[r] # "none" /\ w'[r].cmd = "FIN" =>
            r \in {Main(w'[r].sid), Down(w'[r].sid)} /\ pc'[r] = "delete"
      BY <1>1, <1>2 DEF FinInv
    <2> QED BY <2>6, <2>7, <2>8 DEF FinInv
  <1> QED BY <1>4, <1>5

\* The first to close a stream is the one to send its FIN (stream.go:88-104).
LEMMA FinBegun ==
  ASSUME TypeInv, QuietInv, LifeInv, FinInv, NEW s \in Sids, NEW t \in {Main(s), Down(s)}, CloseBy(t, s)
  PROVE  FinInv'
  <1> USE ThreadFacts DEF TypeInv, PcType, WriteType, StreamType, Goto
  <1>0. t \in Threads /\ fins' = fins
    BY DEF CloseBy, StreamClose, StreamClosed, StreamDelete, handlerUnchanged, histVars
  <1>1. CASE StreamClose(t, s)
    <2>1. UNCHANGED <<w, wst>> /\ wst[t] = "none" /\ pc[t] = "close"
      BY <1>1 DEF StreamClose, writeVars, Idle
    <2>2. CASE dead[s]
      BY <1>0, <1>1, <2>1, <2>2, FinKept DEF StreamClose, FinPending
    <2>3. CASE ~dead[s]
      <3>1. fins[s] = 0 /\ ~FinPending(Main(s)) /\ ~FinPending(Down(s))
        BY <2>3 DEF FinInv, LifeInv, FinPending
      <3>2. dead' = [dead EXCEPT ![s] = TRUE] /\ pc' = [pc EXCEPT ![t] = "closed"]
        BY <1>1, <2>3 DEF StreamClose
      <3>3. \A r \in Threads \ {t} : FinPending(r)' <=> FinPending(r)
        BY <2>1, <3>2 DEF FinPending
      <3>4. \A u \in Sids :
              /\ ~dead'[u] => fins'[u] = 0
              /\ \A r \in {Main(u), Down(u)} : FinPending(r)' => fins'[u] = 0
              /\ ~(FinPending(Main(u))' /\ FinPending(Down(u))')
        BY <1>0, <3>1, <3>2, <3>3 DEF FinInv
      <3>5. \A r \in Threads : wst'[r] # "none" /\ w'[r].cmd = "FIN" =>
              r \in {Main(w'[r].sid), Down(w'[r].sid)} /\ pc'[r] = "delete"
        BY <2>1, <3>2 DEF FinInv
      <3> QED BY <1>0, <3>4, <3>5 DEF FinInv, FinAtMostOnce
    <2> QED BY <2>2, <2>3
  <1>2. CASE StreamClosed(t, s)
    <2>1. pc[t] = "closed" /\ wst[t] = "none" /\ dead' = dead
      BY <1>0, <1>2 DEF StreamClosed, streamVars, QuietInv, Quiet, Idle
    <2>2. CASE die
      BY <1>0, <1>2, <2>1, <2>2, FinKept DEF StreamClosed, FinPending, writeVars
    <2>3. CASE ~die
      <3>1. pc' = [pc EXCEPT ![t] = "delete"] /\ w' = [w EXCEPT ![t] = Frame("FIN", s)]
            /\ wst' = [wst EXCEPT ![t] = "lock"]
        BY <1>2, <2>3 DEF StreamClosed, StartWrite
      <3>2. \A r \in Threads : FinPending(r)' <=> FinPending(r)
        BY <1>0, <2>1, <3>1 DEF FinPending
      <3>3. w'[t].sid = s /\ pc'[t] = "delete"
        BY <1>0, <3>1 DEF Frame
      <3>4. \A r \in Threads : wst'[r] # "none" /\ w'[r].cmd = "FIN" =>
              r \in {Main(w'[r].sid), Down(w'[r].sid)} /\ pc'[r] = "delete"
        BY <1>0, <3>1, <3>3 DEF FinInv
      <3>5. \A u \in Sids :
              /\ ~dead'[u] => fins'[u] = 0
              /\ \A r \in {Main(u), Down(u)} : FinPending(r)' => fins'[u] = 0
              /\ ~(FinPending(Main(u))' /\ FinPending(Down(u))')
        BY <1>0, <2>1, <3>2 DEF FinInv
      <3> QED BY <1>0, <3>4, <3>5 DEF FinInv, FinAtMostOnce
    <2> QED BY <2>2, <2>3
  <1>3. CASE StreamDelete(t, s)
    BY <1>0, <1>3, FinKept DEF StreamDelete, FinPending, Idle, streamVars
  <1> QED BY <1>1, <1>2, <1>3 DEF CloseBy

\* Whatever t writes is no FIN, and nobody goes where one is due.
LEMMA FinElsewhere ==
  ASSUME TypeInv, FinInv, NEW t \in Threads, pc[t] # "delete",
         UNCHANGED <<w, wst>> \/ \E f \in Frames : f.cmd # "FIN" /\ StartWrite(t, f),
         \A u \in Threads : pc[u] \in {"closed", "delete"} => pc'[u] = pc[u],
         \A u \in Threads : pc'[u] \in {"closed", "delete"} => pc'[u] = pc[u],
         \A s \in Sids : dead[s] => dead'[s],
         fins' = fins
  PROVE  FinInv'
  <1>1. \A u \in Threads : (w'[u].cmd = "FIN" \/ u # t) => w'[u] = w[u] /\ wst'[u] = wst[u]
    BY DEF StartWrite, TypeInv, WriteType
  <1>2. \A u \in Threads : wst'[u] # "none" /\ w'[u].cmd = "FIN" =>
          wst[u] # "none" /\ w'[u] = w[u] /\ (pc[u] = "delete" => pc'[u] = "delete")
    BY <1>1
  <1>3. \A u \in Threads : FinPending(u)' => FinPending(u)
    BY <1>1 DEF FinPending
  <1> QED BY <1>2, <1>3, FinKept

\* FinInv is inductive.
LEMMA NextFin ==
  ASSUME TypeInv, QuietInv, SynInv, LifeInv, FinInv, [Next]_vars
  PROVE  FinInv'
  <1> USE ThreadFacts
  <1>1. ASSUME NEW t \in Threads, Writing(t) PROVE FinInv'
    <2>1. CASE WriteLock(t)
      <3>1. \A u \in Threads : wst'[u] # "none" <=> wst[u] # "none"
        BY <2>1 DEF WriteLock, TypeInv, WriteType
      <3> QED BY <2>1, <3>1, FinKept DEF WriteLock, FinPending, streamVars, histVars
    <2>2. CASE WriteFail(t)
      <3>1. \A u \in Threads : wst'[u] # "none" => wst[u] # "none" /\ w'[u] = w[u]
        BY <2>2 DEF WriteFail, WriteDone, TypeInv, WriteType
      <3> QED BY <2>2, <3>1, FinKept DEF WriteFail, FinPending, streamVars, histVars
    <2> QED BY <1>1, <2>1, <2>2, FinSent DEF Writing, WriteConn
  <1>2. ASSUME NEW t \in Threads, SessionClose(t) PROVE FinInv'
    <2>1. \A s \in Sids : dead[s] => dead'[s]
      BY <1>2 DEF SessionClose, CloseOnce, CloseSweep, CloseConn, streamVars
    <2> QED BY <1>2, <2>1, ClosingFrame, FinKept DEF FinPending, writeVars, histVars
  <1>3. CASE AdminClose
    BY <1>3, FinKept DEF AdminClose, Goto, FinPending, TypeInv, PcType, writeVars, streamVars, histVars
  <1>4. CASE RecvLoop
    <2> USE DEF TypeInv, PcType, Goto
    <2>1. fins' = fins /\ pc[Recv] # "delete"
      BY <1>4, RecvFrame
    <2>2. \A s \in Sids : dead[s] => dead'[s]
      BY <1>4
      DEF RecvLoop, RecvPSH, RecvPush, RecvSYNEarly, RecvSYN, RecvFIN, RecvFINClose, RecvHeart,
          RecvSettings, RecvVersion, RecvReturn, streamVars, StreamType
    <2>3. UNCHANGED <<w, wst>> \/ \E f \in Frames : f.cmd # "FIN" /\ StartWrite(Recv, f)
      <3>1. \A c \in {"Alert", "HeartResponse", "UpdatePadding", "ServerSettings"} :
              Frame(c, NoSid) \in Frames /\ Frame(c, NoSid).cmd # "FIN"
        BY FrameTyped DEF Cmds, Frame
      <3> QED
        BY <1>4, <3>1
        DEF RecvLoop, RecvPSH, RecvPush, RecvSYNEarly, RecvSYN, RecvFIN, RecvFINClose, RecvHeart,
            RecvSettings, RecvVersion, RecvReturn, writeVars
    <2>4. \A u \in Threads : pc[u] \in {"closed", "delete"} \/ pc'[u] \in {"closed", "delete"} => pc'[u] = pc[u]
      <3>1. CASE RecvSYN
        BY <3>1, SynStarts DEF RecvSYN
      <3>2. CASE RecvPSH \/ RecvSYNEarly \/ RecvFIN \/ RecvHeart \/ RecvSettings
        BY <3>2, IncomingFacts DEF RecvPSH, RecvSYNEarly, RecvFIN, RecvHeart, RecvSettings, Cmds
      <3>3. CASE RecvPush \/ RecvFINClose \/ RecvVersion \/ RecvReturn
        BY <3>3 DEF RecvPush, RecvFINClose, RecvVersion, RecvReturn
      <3> QED BY <1>4, <3>1, <3>2, <3>3 DEF RecvLoop
    <2> QED BY <2>1, <2>2, <2>3, <2>4, FinElsewhere
  <1>5. ASSUME NEW s \in Sids, Handlers(s) PROVE FinInv'
    <2> USE DEF TypeInv, PcType, Goto
    <2>1. fins' = fins
      BY <1>5, HandlersFrame DEF histVars
    <2>2. \A c \in {"SYNERR", "SYNACK", "PSH"} : Frame(c, s) \in Frames /\ Frame(c, s).cmd # "FIN"
      BY FrameTyped DEF Cmds, Frame
    <2>3. CASE HandlerAddr(s) \/ HandlerUoT(s) \/ HandlerDial(s) \/ HandlerStart(s)
      <3>1. pc[Main(s)] # "delete" /\ dead' = dead
        BY <2>3 DEF HandlerAddr, HandlerUoT, HandlerDial, HandlerStart, streamVars
      <3>2. UNCHANGED <<w, wst>> \/ \E f \in Frames : f.cmd # "FIN" /\ StartWrite(Main(s), f)
        BY <2>2, <2>3 DEF HandlerAddr, HandlerUoT, HandlerDial, HandlerStart, Report, writeVars
      <3>3. \A u \in Threads : pc[u] \in {"closed", "delete"} \/ pc'[u] \in {"closed", "delete"} => pc'[u] = pc[u]
        BY <2>3 DEF HandlerAddr, HandlerUoT, HandlerDial, HandlerStart, Report, LifeInv, Early
      <3> QED BY <2>1, <3>1, <3>2, <3>3, FinElsewhere
    <2>4. CASE UpRead(s) \/ UpSend(s) \/ UpEnd(s) \/ HandlerJoin(s) \/ UpFail(s)
      <3>1. pc[Main(s)] # "delete" /\ UNCHANGED <<w, wst, dead>>
        BY <2>4 DEF UpRead, UpSend, UpEnd, HandlerJoin, UpFail, streamVars, writeVars
      <3>2. \A u \in Threads : pc[u] \in {"closed", "delete"} \/ pc'[u] \in {"closed", "delete"} => pc'[u] = pc[u]
        BY <2>4 DEF UpRead, UpSend, UpEnd, HandlerJoin, UpFail
      <3> QED BY <2>1, <3>1, <3>2, FinElsewhere
    <2>5. CASE DownFail(s) \/ DownData(s) \/ DownEOF(s)
      <3>1. pc[Down(s)] # "delete" /\ dead' = dead
        BY <2>5 DEF DownFail, DownData, DownEOF, Copying, streamVars
      <3>2. UNCHANGED <<w, wst>> \/ \E f \in Frames : f.cmd # "FIN" /\ StartWrite(Down(s), f)
        BY <2>2, <2>5 DEF DownFail, DownData, DownEOF, writeVars
      <3>3. \A u \in Threads : pc[u] \in {"closed", "delete"} \/ pc'[u] \in {"closed", "delete"} => pc'[u] = pc[u]
        BY <2>5 DEF DownFail, DownData, DownEOF, Copying
      <3> QED BY <2>1, <3>1, <3>2, <3>3, FinElsewhere
    <2> QED BY <1>5, <2>3, <2>4, <2>5, FinBegun DEF Handlers, Handler, Copier, Remote
  <1>6. CASE Peer \/ UNCHANGED vars
    BY <1>6, PeerFrame, FinKept DEF vars, FinPending, writeVars, streamVars, histVars
  <1> QED BY <1>1, <1>2, <1>3, <1>4, <1>5, <1>6 DEF Next, Writing, Handlers

-----------------------------------------------------------------------------
(* The outbound connection of a stream.                                    *)

\* It is there once the handler has dialled, the upload closes it, and a
\* handler that gives it up has seen its report fail, which closes the session.
OutInv ==
  /\ \A t \in Threads : clo[t] \in {"sweep", "conn"} => die
  /\ \A s \in Sids :
       /\ w[Main(s)].cmd # "PSH"
       /\ pc[Main(s)] \in Early \ {"report"} => remote[s] = "none" /\ res[Main(s)] = "ok"
       /\ pc[Main(s)] = "report" /\ res[Main(s)] = "err" => die \/ clo[Main(s)] = "once"
       /\ pc[Main(s)] = "join" => remote[s] = "closed"
       /\ pc[Main(s)] \in {"close", "closed", "delete", "end"} /\ remote[s] = "up" => die

\* OutInv when the handlers and their outbound connections stay as they are.
LEMMA OutKept ==
  ASSUME OutInv, die => die',
         \A t \in Threads : clo'[t] \in {"sweep", "conn"} => die',
         \A s \in Sids :
           /\ pc'[Main(s)] = pc[Main(s)] /\ w'[Main(s)].cmd # "PSH"
           /\ res'[Main(s)] = res[Main(s)]
           /\ clo[Main(s)] = "once" => clo'[Main(s)] = "once" \/ die',
         remote' = remote
  PROVE  OutInv'
  BY DEF OutInv

\* A report that fails closes the session (session.go:407-412).
LEMMA OutWriting ==
  ASSUME TypeInv, QuietInv, OutInv, NEW t \in Threads, Writing(t)
  PROVE  OutInv'
  <1> USE DEF TypeInv, WriteType, CloseType
  <1>1. pc' = pc /\ die' = die /\ remote' = remote
    BY WritingFrame DEF streamVars
  <1>2. \A u \in Threads : clo'[u] \in {"sweep", "conn"} => die
    BY DEF Writing, WriteConn, WriteLock, WritePut, WriteFail, closeVars, OutInv
  <1>3. \A s \in Sids : w'[Main(s)].cmd # "PSH"
    BY ThreadFacts DEF Writing, WriteConn, WriteLock, WritePut, WriteFail, WriteDone, OutInv, NoFrame
  <1>4. \A s \in Sids : clo[Main(s)] = "once" => clo'[Main(s)] = "once"
    BY ThreadFacts DEF Writing, WriteConn, WriteLock, WritePut, WriteFail, closeVars
  <1>5. ASSUME NEW s \in Sids, pc[Main(s)] \in Early \ {"report"} PROVE res'[Main(s)] = "ok"
    <2>1. Idle(Main(s)) /\ res[Main(s)] = "ok"
      BY <1>5, ThreadFacts DEF QuietInv, Quiet, Early, OutInv
    <2> QED BY <2>1, ThreadFacts DEF Idle, Writing, WriteConn, WriteLock, WritePut, WriteFail, WriteDone
  <1>6. ASSUME NEW s \in Sids, res'[Main(s)] = "err"
        PROVE  res[Main(s)] = "err" \/ clo'[Main(s)] = "once"
    <2>1. CASE WriteLock(t) \/ WritePut(t)
      BY <1>6, <2>1, ThreadFacts DEF WriteLock, WritePut, WriteDone
    <2>2. CASE WriteFail(t)
      <3>1. IsControl(w[Main(s)])
        BY DEF OutInv, IsControl
      <3> QED BY <1>6, <2>2, <3>1, ThreadFacts DEF WriteFail, WriteDone
    <2> QED BY <2>1, <2>2 DEF Writing, WriteConn
  <1> QED BY <1>1, <1>2, <1>3, <1>4, <1>5, <1>6 DEF OutInv

\* OutInv is inductive.
LEMMA NextOut ==
  ASSUME TypeInv, QuietInv, SynInv, LifeInv, OutInv, [Next]_vars
  PROVE  OutInv'
  <1> USE ThreadFacts
  <1>1. ASSUME NEW t \in Threads, SessionClose(t) PROVE OutInv'
    <2>1. die => die'
      BY <1>1 DEF SessionClose, CloseOnce, CloseSweep, CloseConn
    <2>2. \A u \in Threads : clo'[u] \in {"sweep", "conn"} => die'
      BY <1>1 DEF SessionClose, CloseOnce, CloseSweep, CloseConn, OutInv, TypeInv, CloseType
    <2>3. \A u \in Threads : clo[u] = "once" => clo'[u] = "once" \/ die'
      BY <1>1 DEF SessionClose, CloseOnce, CloseSweep, CloseConn, TypeInv, CloseType
    <2> QED BY <1>1, <2>1, <2>2, <2>3, ClosingFrame, OutKept DEF OutInv, writeVars
  <1>2. CASE AdminClose
    BY <1>2, OutKept DEF AdminClose, Goto, OutInv, TypeInv, PcType, CloseType, writeVars, streamVars
  <1>3. CASE RecvLoop
    <2>1. die' = die /\ remote' = remote
      BY <1>3, RecvFrame
    <2>2. CASE RecvSYN
      BY <2>1, <2>2, SynStarts DEF RecvSYN, Goto, OutInv, Early, TypeInv, PcType, writeVars, closeVars
    <2>3. CASE RecvPSH \/ RecvSYNEarly \/ RecvFIN \/ RecvHeart \/ RecvSettings \/ RecvPush \/ RecvFINClose
               \/ RecvVersion \/ RecvReturn
      <3>1. \A s \in Sids : pc'[Main(s)] = pc[Main(s)]
        BY <2>3
        DEF RecvPSH, RecvPush, RecvSYNEarly, RecvFIN, RecvFINClose, RecvHeart, RecvSettings, RecvVersion,
            RecvReturn, Goto, TypeInv, PcType
      <3>2. \A s \in Sids : w'[Main(s)] = w[Main(s)] /\ res'[Main(s)] = res[Main(s)]
        BY <2>3
        DEF RecvPSH, RecvPush, RecvSYNEarly, RecvFIN, RecvFINClose, RecvHeart, RecvSettings, RecvVersion,
            RecvReturn, StartWrite, TypeInv, WriteType, writeVars
      <3>3. \A t \in Threads : clo'[t] = clo[t] \/ (t = Recv /\ clo'[t] = "once")
        BY <2>3
        DEF RecvPSH, RecvPush, RecvSYNEarly, RecvFIN, RecvFINClose, RecvHeart, RecvSettings, RecvVersion,
            RecvReturn, closeVars, TypeInv, CloseType
      <3> QED BY <2>1, <3>1, <3>2, <3>3, OutKept DEF OutInv
    <2> QED BY <1>3, <2>2, <2>3 DEF RecvLoop
  <1>4. ASSUME NEW s \in Sids, Handlers(s) PROVE OutInv'
    <2>1. die' = die /\ clo' = clo
      BY <1>4, HandlersFrame DEF closeVars
    <2> USE DEF TypeInv, PcType, WriteType, StreamType, Goto
    <2>2. CASE HandlerAddr(s) \/ HandlerUoT(s)
      BY <2>1, <2>2 DEF HandlerAddr, HandlerUoT, Report, StartWrite, Frame, OutInv, Early, writeVars
    <2>3. CASE HandlerDial(s)
      BY <2>1, <2>3 DEF HandlerDial, Report, StartWrite, Frame, OutInv, Early, writeVars
    <2>4. CASE HandlerStart(s)
      BY <2>1, <2>4 DEF HandlerStart, Idle, OutInv, Early, LifeInv, streamVars
    <2>5. CASE UpRead(s) \/ UpSend(s) \/ UpEnd(s) \/ HandlerJoin(s) \/ UpFail(s)
      BY <2>1, <2>5 DEF UpRead, UpSend, UpEnd, HandlerJoin, UpFail, OutInv, Early, writeVars, streamVars
    <2>6. CASE DownFail(s) \/ DownData(s) \/ DownEOF(s)
      <3>1. \A u \in Sids : w'[Main(u)] = w[Main(u)] /\ res'[Main(u)] = res[Main(u)] /\ pc'[Main(u)] = pc[Main(u)]
        BY <2>6 DEF DownFail, DownData, DownEOF, StartWrite, writeVars
      <3>2. remote' = remote
        BY <2>6 DEF DownFail, DownData, DownEOF, streamVars
      <3> QED BY <2>1, <3>1, <3>2, OutKept DEF OutInv
    <2>7. ASSUME NEW t \in {Main(s), Down(s)}, CloseBy(t, s) PROVE OutInv'
      <3>1. remote' = remote
        BY <2>7 DEF CloseBy, StreamClose, StreamClosed, StreamDelete, streamVars
      <3>2. \A u \in Sids : w'[Main(u)].cmd # "PSH"
        BY <2>7 DEF CloseBy, StreamClose, StreamClosed, StreamDelete, StartWrite, Frame, writeVars, OutInv
      <3>3. \A u \in Sids :
              \/ pc'[Main(u)] = pc[Main(u)]
              \/ /\ pc[Main(u)] \in {"close", "closed", "delete"}
                 /\ pc'[Main(u)] \in {"closed", "delete", "end"}
        BY <2>7 DEF CloseBy, StreamClose, StreamClosed, StreamDelete
      <3>4. \A u \in Sids : res'[Main(u)] \in {res[Main(u)], "ok"}
        BY <2>7 DEF CloseBy, StreamClose, StreamClosed, StreamDelete, StartWrite, writeVars
      <3> QED BY <2>1, <3>1, <3>2, <3>3, <3>4 DEF OutInv, Early
    <2> QED BY <1>4, <2>2, <2>3, <2>4, <2>5, <2>6, <2>7 DEF Handlers, Handler, Copier, Remote
  <1>5. CASE Peer \/ UNCHANGED vars
    BY <1>5, PeerFrame, OutKept DEF vars, writeVars, closeVars, streamVars, OutInv
  <1> QED BY <1>1, <1>2, <1>3, <1>4, <1>5, OutWriting DEF Next, Writing, Handlers

-----------------------------------------------------------------------------
(* How a stream ends.                                                      *)

\* Where a thread is that was the first to close its stream.
Ending == {"closed", "delete"}

\* No thread writes and closes the session at once; a stream without a handler
\* is neither dead nor in the map; one thread at most ends a stream, and what it
\* writes then is its FIN; and a FIN in flight is of a stream its sender had.
WriteOrClose == \A t \in Threads : wst[t] = "none" \/ clo[t] = "none"

StreamEnds ==
  \A s \in Sids :
    /\ ~Started(s) => ~dead[s] /\ s \notin streams
    /\ ~(pc[Main(s)] \in Ending /\ pc[Down(s)] \in Ending)
    /\ \A t \in {Main(s), Down(s)} : pc[t] = "delete" /\ wst[t] # "none" => w[t] = Frame("FIN", s)

PeerEnds ==
  /\ \A i \in 1..Len(inq) : inq[i].cmd = "FIN" => pst[inq[i].sid] = "closed"
  /\ pc[Recv] = "fin" => Started(tgt) /\ pst[tgt] = "closed"
  /\ \A i \in 1..Len(outq) : outq[i].cmd = "FIN" => pst[outq[i].sid] # "none"

EndInv == WriteOrClose /\ StreamEnds /\ PeerEnds

\* A thread writes, or closes the session, from its own code only
\* (session.go:397-414).
LEMMA NextWriteOrClose ==
  ASSUME TypeInv, QuietInv, WriteOrClose, [Next]_vars
  PROVE  WriteOrClose'
  <1> USE ThreadFacts DEF TypeInv, WriteType, CloseType, WriteOrClose, Idle
  <1>1. ASSUME NEW t \in Threads, Writing(t) PROVE WriteOrClose'
    BY <1>1 DEF Writing, WriteConn, WriteLock, WritePut, WriteFail, WriteDone, closeVars
  <1>2. ASSUME NEW t \in Threads, SessionClose(t) PROVE WriteOrClose'
    BY <1>2 DEF SessionClose, CloseOnce, CloseSweep, CloseConn, writeVars
  <1>3. CASE AdminClose
    BY <1>3 DEF AdminClose, QuietInv, Quiet, writeVars
  <1>4. CASE RecvLoop
    <2> USE DEF StartWrite, writeVars, closeVars
    <2>1. CASE RecvPSH \/ RecvPush \/ RecvSYN \/ RecvFIN \/ RecvFINClose
      BY <2>1 DEF RecvPSH, RecvPush, RecvSYN, RecvFIN, RecvFINClose
    <2>2. CASE RecvSYNEarly \/ RecvHeart \/ RecvSettings
      BY <2>2 DEF RecvSYNEarly, RecvHeart, RecvSettings, Incoming, Reading
    <2>3. CASE RecvVersion \/ RecvReturn
      BY <2>3 DEF RecvVersion, RecvReturn
    <2> QED BY <1>4, <2>1, <2>2, <2>3 DEF RecvLoop
  <1>5. ASSUME NEW s \in Sids, Handlers(s) PROVE WriteOrClose'
    <2>1. clo' = clo
      BY <1>5, HandlersFrame DEF closeVars
    <2>2. ASSUME NEW t \in {Main(s), Down(s)}, NEW f, StartWrite(t, f), Idle(t) PROVE WriteOrClose'
      BY <2>1, <2>2 DEF StartWrite
    <2>3. wst' = wst => WriteOrClose'
      BY <2>1
    <2>4. CASE HandlerUoT(s) \/ HandlerDial(s)
      <3>1. Idle(Main(s))
        BY <2>4 DEF HandlerUoT, HandlerDial, QuietInv, Quiet
      <3> QED BY <2>2, <2>3, <2>4, <3>1 DEF HandlerUoT, HandlerDial, Report, writeVars
    <2>5. CASE DownData(s)
      BY <2>2, <2>3, <2>5 DEF DownData, Copying, writeVars
    <2>6. ASSUME NEW t \in {Main(s), Down(s)}, StreamClosed(t, s) PROVE WriteOrClose'
      <3>1. Idle(t)
        BY <2>6 DEF StreamClosed, QuietInv, Quiet
      <3> QED BY <2>2, <2>3, <2>6, <3>1 DEF StreamClosed, writeVars
    <2>7. ASSUME NEW t \in {Main(s), Down(s)}, StreamClose(t, s) \/ StreamDelete(t, s)
          PROVE  WriteOrClose'
      BY <2>3, <2>7 DEF StreamClose, StreamDelete, writeVars
    <2>8. CASE HandlerAddr(s) \/ HandlerStart(s) \/ UpRead(s) \/ UpSend(s) \/ UpEnd(s) \/ UpFail(s) \/ HandlerJoin(s)
               \/ DownFail(s) \/ DownEOF(s)
      BY <2>3, <2>8 DEF HandlerAddr, HandlerStart, UpRead, UpSend, UpEnd, UpFail, HandlerJoin, DownFail, DownEOF,
                        writeVars
    <2> QED BY <1>5, <2>4, <2>5, <2>6, <2>7, <2>8 DEF Handlers, Handler, Copier, Remote, CloseBy
  <1>6. CASE Peer \/ UNCHANGED vars
    BY <1>6, PeerFrame DEF vars, writeVars, closeVars
  <1> QED BY <1>1, <1>2, <1>3, <1>4, <1>5, <1>6 DEF Next, Writing, Handlers

\* A handler's thread goes on with its stream: the other threads are where they
\* were, and it does not come to end a stream that the other one is ending.
LEMMA StreamEndsKept ==
  ASSUME TypeInv, StreamEnds, NEW s \in Sids, NEW t \in {Main(s), Down(s)},
         \A u \in Sids : pc'[Main(u)] = "none" => ~dead'[u] /\ u \notin streams',
         \A u \in Threads \ {t} : pc'[u] = pc[u] /\ w'[u] = w[u] /\ wst'[u] = wst[u],
         pc'[t] \in Ending => \A u \in {Main(s), Down(s)} \ {t} : pc[u] \notin Ending,
         pc'[t] = "delete" /\ wst'[t] # "none" => w'[t] = Frame("FIN", s)
  PROVE  StreamEnds'
  <1> SUFFICES ASSUME NEW u \in Sids
               PROVE  /\ ~(pc'[Main(u)] \in Ending /\ pc'[Down(u)] \in Ending)
                      /\ \A v \in {Main(u), Down(u)} :
                           pc'[v] = "delete" /\ wst'[v] # "none" => w'[v] = Frame("FIN", u)
    BY DEF StreamEnds, Started
  <1>1. CASE u = s
    BY <1>1, ThreadFacts DEF StreamEnds
  <1>2. CASE u # s
    <2>1. Main(u) \in Threads \ {t} /\ Down(u) \in Threads \ {t}
      BY <1>2, ThreadFacts
    <2> QED BY <2>1 DEF StreamEnds
  <1> QED BY <1>1, <1>2

\* The goroutines of a stream (inbound_tcp.go:95-115, outbound_tcp.go:14-49).
LEMMA HandlersStreamEnds ==
  ASSUME TypeInv, QuietInv, LifeInv, StreamEnds, NEW s \in Sids, Handlers(s)
  PROVE  StreamEnds'
  <1> USE ThreadFacts DEF TypeInv, PcType, WriteType, StreamType
  <1>0. /\ pc[Main(s)] # "none"
        /\ \A u \in Sids : (dead'[u] => dead[u] \/ u = s) /\ (u \in streams' => u \in streams)
    <2>1. pc[Down(s)] # "none" => pc[Main(s)] # "none"
      BY DEF LifeInv, Early
    <2> QED
      BY <2>1
      DEF Handlers, Handler, Copier, Remote, CloseBy, HandlerAddr, HandlerUoT, HandlerDial, HandlerStart,
          UpRead, UpSend, UpEnd, HandlerJoin, StreamClose, StreamClosed, StreamDelete, DownFail, UpFail, DownData,
          DownEOF, Copying, streamVars
  <1>1. \A u \in Sids : pc'[Main(u)] = "none" => pc[Main(u)] = "none" /\ u # s
    BY <1>0
    DEF Handlers, Handler, Copier, Remote, CloseBy, HandlerAddr, HandlerUoT, HandlerDial, HandlerStart,
        UpRead, UpSend, UpEnd, HandlerJoin, StreamClose, StreamClosed, StreamDelete, DownFail, UpFail, DownData,
        DownEOF, Report, Goto
  <1>2. \A u \in Sids : pc'[Main(u)] = "none" => ~dead'[u] /\ u \notin streams'
    BY <1>0, <1>1 DEF StreamEnds, Started
  <1>k. ASSUME NEW t \in {Main(s), Down(s)},
               \A u \in Threads \ {t} : pc'[u] = pc[u] /\ w'[u] = w[u] /\ wst'[u] = wst[u],
               pc'[t] \in Ending => \A u \in {Main(s), Down(s)} \ {t} : pc[u] \notin Ending,
               pc'[t] = "delete" /\ wst'[t] # "none" => w'[t] = Frame("FIN", s)
        PROVE  StreamEnds'
    BY <1>1, <1>2, <1>k, StreamEndsKept
  <1>3. CASE HandlerAddr(s) \/ HandlerUoT(s) \/ HandlerDial(s) \/ UpRead(s) \/ UpSend(s) \/ UpEnd(s) \/ UpFail(s)
             \/ HandlerJoin(s)
    <2>1. /\ pc'[Main(s)] \notin Ending
          /\ \A u \in Threads \ {Main(s)} : pc'[u] = pc[u] /\ w'[u] = w[u] /\ wst'[u] = wst[u]
      BY <1>3 DEF HandlerAddr, HandlerUoT, HandlerDial, UpRead, UpSend, UpEnd, UpFail, HandlerJoin, Report,
                  StartWrite, Goto, writeVars, Ending
    <2> QED BY <2>1, <1>k DEF Ending
  <1>4. CASE HandlerStart(s)
    <2>1. /\ pc'[Main(s)] \notin Ending /\ pc'[Down(s)] \notin Ending /\ UNCHANGED <<w, wst>>
          /\ \A u \in Threads \ {Main(s), Down(s)} : pc'[u] = pc[u]
      <3>1. pc[Down(s)] = "none"
        BY <1>4 DEF HandlerStart, LifeInv, Early
      <3> QED BY <1>4, <3>1 DEF HandlerStart, Goto, Ending
    <2> SUFFICES ASSUME NEW u \in Sids
                 PROVE  /\ ~(pc'[Main(u)] \in Ending /\ pc'[Down(u)] \in Ending)
                        /\ \A v \in {Main(u), Down(u)} :
                             pc'[v] = "delete" /\ wst'[v] # "none" => w'[v] = Frame("FIN", u)
      BY <1>2 DEF StreamEnds, Started
    <2>2. CASE u = s
      BY <2>1, <2>2 DEF Ending
    <2>3. CASE u # s
      <3>1. pc'[Main(u)] = pc[Main(u)] /\ pc'[Down(u)] = pc[Down(u)]
        BY <2>1, <2>3
      <3> QED BY <2>1, <3>1 DEF StreamEnds
    <2> QED BY <2>2, <2>3
  <1>5. CASE DownFail(s) \/ DownData(s) \/ DownEOF(s)
    <2>1. /\ pc'[Down(s)] \notin Ending
          /\ \A u \in Threads \ {Down(s)} : pc'[u] = pc[u] /\ w'[u] = w[u] /\ wst'[u] = wst[u]
      BY <1>5 DEF DownFail, DownData, DownEOF, Copying, StartWrite, Goto, writeVars, Ending
    <2> QED BY <2>1, <1>k DEF Ending
  <1>6. ASSUME NEW t \in {Main(s), Down(s)}, CloseBy(t, s) PROVE StreamEnds'
    <2>1. \A u \in Threads \ {t} : pc'[u] = pc[u] /\ w'[u] = w[u] /\ wst'[u] = wst[u]
      BY <1>6 DEF CloseBy, StreamClose, StreamClosed, StreamDelete, StartWrite, Goto, writeVars
    <2>2. CASE StreamClose(t, s)
      <3>1. pc'[t] \in {"closed", "end"} /\ (pc'[t] = "closed" => ~dead[s])
        BY <2>2 DEF StreamClose, Goto
      <3>2. ~dead[s] => pc[Main(s)] \notin Ending /\ pc[Down(s)] \notin Ending
        BY DEF LifeInv, Ending
      <3> QED BY <2>1, <3>1, <3>2, <1>k DEF Ending
    <2>3. CASE StreamClosed(t, s)
      <3>1. /\ pc[t] = "closed" /\ pc'[t] \in {"delete", "end"}
            /\ pc'[t] = "delete" => w'[t] = Frame("FIN", s)
        BY <2>3 DEF StreamClosed, StartWrite, Goto
      <3>2. \A u \in {Main(s), Down(s)} \ {t} : pc[u] \notin Ending
        BY <3>1 DEF StreamEnds, Ending
      <3> QED BY <2>1, <3>1, <3>2, <1>k
    <2>4. CASE StreamDelete(t, s)
      <3>1. pc'[t] = "end"
        BY <2>4 DEF StreamDelete, Goto
      <3> QED BY <2>1, <3>1, <1>k DEF Ending
    <2> QED BY <1>6, <2>2, <2>3, <2>4 DEF CloseBy
  <1> QED BY <1>3, <1>4, <1>5, <1>6 DEF Handlers, Handler, Copier, Remote

\* Of two threads one at most is the first to close a stream (stream.go:88-104).
LEMMA NextStreamEnds ==
  ASSUME TypeInv, QuietInv, SynInv, LifeInv, StreamEnds, PeerEnds, [Next]_vars
  PROVE  StreamEnds'
  <1> USE ThreadFacts DEF TypeInv, PcType, WriteType, StreamType, StreamEnds, Ending, Started
  <1>1. ASSUME NEW t \in Threads, Writing(t) PROVE StreamEnds'
    <2>1. UNCHANGED <<pc, dead, streams>>
      BY <1>1, WritingFrame DEF streamVars
    <2>2. \A u \in Threads : wst'[u] # "none" => wst[u] # "none" /\ w'[u] = w[u]
      BY <1>1 DEF Writing, WriteConn, WriteLock, WritePut, WriteFail, WriteDone
    <2> QED BY <2>1, <2>2
  <1>2. ASSUME NEW t \in Threads, SessionClose(t) PROVE StreamEnds'
    <2>1. UNCHANGED <<pc, w, wst>>
      BY <1>2, ClosingFrame DEF writeVars
    <2>2. \A s \in Sids : (dead'[s] => dead[s] \/ s \in streams) /\ (s \in streams' => s \in streams)
      BY <1>2 DEF SessionClose, CloseOnce, CloseSweep, CloseConn, streamVars
    <2> QED BY <2>1, <2>2
  <1>3. CASE AdminClose
    BY <1>3 DEF AdminClose, Goto, writeVars, streamVars
  <1>4. CASE RecvLoop
    <2>1. \A s \in Sids : /\ pc'[Down(s)] = pc[Down(s)] /\ wst'[Down(s)] = wst[Down(s)]
                          /\ w'[Down(s)] = w[Down(s)]
                          /\ wst'[Main(s)] = wst[Main(s)] /\ w'[Main(s)] = w[Main(s)]
      BY <1>4, SynStarts
      DEF RecvLoop, RecvPSH, RecvPush, RecvSYNEarly, RecvSYN, RecvFIN, RecvFINClose, RecvHeart,
          RecvSettings, RecvVersion, RecvReturn, Goto, StartWrite, writeVars
    <2>2. CASE RecvSYN
      <3>1. \A s \in Sids : pc'[Main(s)] = pc[Main(s)] \/ (pc[Main(s)] = "none" /\ pc'[Main(s)] = "addr")
        BY <2>2, SynStarts DEF RecvSYN, Goto
      <3>2. dead' = dead /\ \A s \in Sids : s \in streams' => s \in streams \/ pc'[Main(s)] # "none"
        BY <2>2, SynStarts DEF RecvSYN, Goto, streamVars
      <3> QED BY <2>1, <3>1, <3>2
    <2>3. CASE RecvFINClose
      <3>1. \A s \in Sids : pc'[Main(s)] = pc[Main(s)]
        BY <2>3 DEF RecvFINClose, Goto
      <3>2. streams' = streams /\ \A s \in Sids : dead'[s] => dead[s] \/ (pc[Recv] = "fin" /\ s = tgt)
        BY <2>3 DEF RecvFINClose
      <3> QED BY <2>1, <3>1, <3>2 DEF PeerEnds
    <2>4. CASE RecvPSH \/ RecvPush \/ RecvSYNEarly \/ RecvFIN \/ RecvHeart \/ RecvSettings \/ RecvVersion
               \/ RecvReturn
      <3>1. \A s \in Sids : pc'[Main(s)] = pc[Main(s)]
        BY <2>4 DEF RecvPSH, RecvPush, RecvSYNEarly, RecvFIN, RecvHeart, RecvSettings, RecvVersion,
                    RecvReturn, Goto
      <3>2. dead' = dead /\ streams' \subseteq streams
        BY <2>4 DEF RecvPSH, RecvPush, RecvSYNEarly, RecvFIN, RecvHeart, RecvSettings, RecvVersion,
                    RecvReturn, streamVars
      <3> QED BY <2>1, <3>1, <3>2
    <2> QED BY <1>4, <2>2, <2>3, <2>4 DEF RecvLoop
  <1>5. ASSUME NEW s \in Sids, Handlers(s) PROVE StreamEnds'
    BY <1>5, HandlersStreamEnds
  <1>6. CASE Peer \/ UNCHANGED vars
    BY <1>6, PeerFrame DEF vars, writeVars, streamVars
  <1> QED BY <1>1, <1>2, <1>3, <1>4, <1>5, <1>6 DEF Next, Writing, Handlers

\* What is left of a queue was in it.
LEMMA QueueRest ==
  ASSUME NEW q \in Seq(Frames), q # <<>>
  PROVE  \A i \in 1..Len(Tail(q)) : \E j \in 1..Len(q) : Tail(q)[i] = q[j]
  <1>1. \A i \in 1..Len(Tail(q)) : i + 1 \in 1..Len(q) /\ Tail(q)[i] = q[i + 1]
    OBVIOUS
  <1> QED BY <1>1

\* The receive loop takes a FIN only from a peer that has closed the stream, and
\* closes a stream that has a handler (session.go:249-256).
LEMMA RecvPeerEnds ==
  ASSUME TypeInv, SynInv, StreamEnds, PeerEnds, RecvLoop
  PROVE  /\ pst' = pst /\ outq' = outq /\ (inq' = inq \/ (inq # <<>> /\ inq' = Tail(inq)))
         /\ pc'[Recv] = "fin" => Started(tgt)' /\ pst'[tgt'] = "closed"
  <1> USE ThreadFacts DEF TypeInv, PcType, RecvType, Started
  <1>1. UNCHANGED <<pst, outq>>
    BY RecvFrame DEF peerVars
  <1>2. inq' = inq \/ (inq # <<>> /\ inq' = Tail(inq))
    BY DEF RecvLoop, RecvPSH, RecvPush, RecvSYNEarly, RecvSYN, RecvFIN, RecvFINClose, RecvHeart,
           RecvSettings, RecvVersion, RecvReturn, Incoming
  <1>3. CASE RecvFIN
    <2> DEFINE s == Head(inq).sid
    <2>1. s \in Sids /\ inq # <<>> /\ Head(inq).cmd = "FIN"
      BY <1>3, IncomingFacts DEF RecvFIN, Cmds, OfStream
    <2>2. 1 \in 1..Len(inq) /\ inq[1] = Head(inq)
      BY <2>1 DEF InType
    <2>3. pst[s] = "closed"
      BY <2>1, <2>2 DEF PeerEnds
    <2>4. pc[Recv] = "run"
      BY <1>3, IncomingFacts DEF RecvFIN, Cmds
    <2>5. CASE s \in streams
      <3>1. pc' = [pc EXCEPT ![Recv] = "fin"] /\ tgt' = s /\ pc[Main(s)] # "none"
        BY <1>3, <2>1, <2>5 DEF RecvFIN, Goto, StreamEnds
      <3> QED BY <1>1, <1>2, <2>1, <2>3, <3>1
    <2>6. CASE s \notin streams
      BY <1>1, <1>2, <1>3, <2>4, <2>6 DEF RecvFIN
    <2> QED BY <2>5, <2>6
  <1>4. CASE RecvPSH \/ RecvPush \/ RecvSYNEarly \/ RecvSYN \/ RecvFINClose \/ RecvHeart \/ RecvSettings
             \/ RecvVersion \/ RecvReturn
    <2>1. pc'[Recv] # "fin"
      BY <1>4, IncomingFacts, SynStarts
      DEF RecvPSH, RecvPush, RecvSYNEarly, RecvSYN, RecvFINClose, RecvHeart, RecvSettings, RecvVersion,
          RecvReturn, Goto, Cmds, Reading
    <2> QED BY <1>1, <1>2, <2>1
  <1> QED BY <1>3, <1>4 DEF RecvLoop

\* A FIN is sent, by the peer for a stream it has closed, and by the server for
\* one the peer had opened (session.go:361-370).
LEMMA NextPeerEnds ==
  ASSUME TypeInv, SynInv, LifeInv, FinInv, StreamEnds, PeerEnds, [Next]_vars
  PROVE  PeerEnds'
  <1>0. InType /\ OutType /\ PeerType
    BY DEF TypeInv
  <1>a. ASSUME \A s \in Sids : pst[s] = "closed" => pst'[s] = "closed",
               inq' = inq \/ (inq # <<>> /\ inq' = Tail(inq))
        PROVE  \A i \in 1..Len(inq') : inq'[i].cmd = "FIN" => pst'[inq'[i].sid] = "closed"
    <2> SUFFICES ASSUME NEW i \in 1..Len(inq'), inq'[i].cmd = "FIN"
                 PROVE  pst'[inq'[i].sid] = "closed"
      OBVIOUS
    <2>1. PICK j \in 1..Len(inq) : inq'[i] = inq[j]
      BY <1>0, <1>a, QueueRest DEF InType
    <2> QED BY <1>0, <1>a, <2>1 DEF PeerEnds, InType, OfStream
  <1>b. ASSUME \A s \in Sids : pst[s] # "none" => pst'[s] # "none",
               outq' = outq \/ (outq # <<>> /\ outq' = Tail(outq))
        PROVE  \A i \in 1..Len(outq') : outq'[i].cmd = "FIN" => pst'[outq'[i].sid] # "none"
    <2> SUFFICES ASSUME NEW i \in 1..Len(outq'), outq'[i].cmd = "FIN"
                 PROVE  pst'[outq'[i].sid] # "none"
      OBVIOUS
    <2>1. PICK j \in 1..Len(outq) : outq'[i] = outq[j]
      BY <1>0, <1>b, QueueRest DEF OutType
    <2> QED BY <1>0, <1>b, <2>1 DEF PeerEnds, OutType, OfStream
  <1>c. ASSUME \A s \in Sids : pst[s] = "closed" => pst'[s] = "closed",
               pc'[Recv] = pc[Recv], tgt' = tgt,
               \A s \in Sids : pc[Main(s)] # "none" => pc'[Main(s)] # "none"
        PROVE  pc'[Recv] = "fin" => Started(tgt)' /\ pst'[tgt'] = "closed"
    BY <1>c DEF PeerEnds, Started, TypeInv, RecvType
  <1>1. ASSUME NEW t \in Threads, Writing(t) PROVE PeerEnds'
    <2>1. UNCHANGED <<inq, pst, tgt, pc>>
      BY <1>1, WritingFrame DEF peerVars, recvVars
    <2>2. CASE outq' = outq
      BY <2>1, <2>2, <1>a, <1>b, <1>c DEF PeerEnds
    <2>3. CASE WritePut(t)
      <3>1. wst[t] = "conn" /\ w[t] \in Frames /\ OfStream(w[t]) /\ outq' = Append(outq, w[t])
        BY <2>3 DEF WritePut, TypeInv, WriteType
      <3>2. ASSUME w[t].cmd = "FIN" PROVE pst[w[t].sid] # "none"
        <4>1. w[t].sid \in Sids /\ \E u \in {Main(w[t].sid), Down(w[t].sid)} : pc[u] = "delete"
          BY <3>1, <3>2 DEF FinInv, OfStream
        <4>2. dead[w[t].sid]
          BY <4>1 DEF LifeInv
        <4>3. pc[Main(w[t].sid)] # "none"
          BY <4>1, <4>2 DEF StreamEnds, Started
        <4> QED BY <4>1, <4>3 DEF SynInv
      <3>3. \A i \in 1..Len(outq') : outq'[i] = w[t] \/ \E j \in 1..Len(outq) : outq'[i] = outq[j]
        BY <1>0, <3>1 DEF OutType
      <3>4. \A i \in 1..Len(outq') : outq'[i].cmd = "FIN" => pst'[outq'[i].sid] # "none"
        BY <2>1, <3>2, <3>3 DEF PeerEnds
      <3> QED BY <2>1, <3>4, <1>a, <1>c DEF PeerEnds
    <2> QED BY <1>1, <2>2, <2>3 DEF Writing, WriteConn, WriteLock, WriteFail
  <1>2. ASSUME NEW t \in Threads, SessionClose(t) PROVE PeerEnds'
    BY <1>2, <1>a, <1>b, <1>c, ClosingFrame DEF PeerEnds, peerVars, recvVars
  <1>3. CASE AdminClose
    <2>1. pc'[Recv] = pc[Recv] /\ \A s \in Sids : pc'[Main(s)] = pc[Main(s)]
      BY <1>3, ThreadFacts DEF AdminClose, Goto, TypeInv, PcType
    <2> QED BY <1>3, <2>1, <1>a, <1>b, <1>c DEF AdminClose, PeerEnds, peerVars, recvVars
  <1>4. CASE RecvLoop
    BY <1>4, <1>a, <1>b, RecvPeerEnds DEF PeerEnds
  <1>5. ASSUME NEW s \in Sids, Handlers(s) PROVE PeerEnds'
    <2>1. pc'[Recv] = pc[Recv] /\ \A u \in Sids : pc[Main(u)] # "none" => pc'[Main(u)] # "none"
      BY <1>5, ThreadFacts
      DEF Handlers, Handler, Copier, Remote, CloseBy, HandlerAddr, HandlerUoT, HandlerDial, HandlerStart,
          UpRead, UpSend, UpEnd, HandlerJoin, StreamClose, StreamClosed, StreamDelete, DownFail, UpFail, DownData,
          DownEOF, Report, Goto, TypeInv, PcType
    <2>2. inq' = inq /\ outq' = outq /\ pst' = pst /\ tgt' = tgt
      BY <1>5, HandlersFrame DEF peerVars, recvVars
    <2> QED BY <2>1, <2>2, <1>a, <1>b, <1>c DEF PeerEnds
  <1>6. CASE Peer
    <2>0. UNCHANGED <<pc, tgt>>
      BY <1>6, PeerFrame DEF recvVars
    <2>1. \A s \in Sids : /\ pst[s] = "closed" => pst'[s] = "closed"
                          /\ pst[s] # "none" => pst'[s] # "none"
      BY <1>0, <1>6
      DEF Peer, PeerGreet, PeerHeart, PeerRecv, PeerGone, PeerSyn, PeerPsh, PeerFin, PeerType, peerVars
    <2>2. outq' = outq \/ (outq # <<>> /\ outq' = Tail(outq))
      BY <1>6 DEF Peer, PeerGreet, PeerHeart, PeerRecv, PeerGone, PeerSyn, PeerPsh, PeerFin
    <2>3. \/ inq' = inq
          \/ \E f \in Frames : /\ f.cmd = "FIN" => f.sid \in Sids /\ pst'[f.sid] = "closed"
                               /\ inq' = Append(inq, f)
      BY <1>0, <1>6, FrameTyped
      DEF Peer, PeerGreet, PeerHeart, PeerRecv, PeerGone, PeerSyn, PeerPsh, PeerFin, PeerSend, Frame, Cmds,
          PeerType
    <2>4. ASSUME NEW f \in Frames, f.cmd = "FIN" => f.sid \in Sids /\ pst'[f.sid] = "closed",
                 inq' = Append(inq, f)
          PROVE  \A i \in 1..Len(inq') : inq'[i].cmd = "FIN" => pst'[inq'[i].sid] = "closed"
      <3>1. \A i \in 1..Len(inq') : inq'[i] = f \/ \E j \in 1..Len(inq) : inq'[i] = inq[j]
        BY <1>0, <2>4 DEF InType
      <3> QED BY <1>0, <2>1, <2>4, <3>1 DEF PeerEnds, InType, OfStream
    <2> QED BY <2>0, <2>1, <2>2, <2>3, <2>4, <1>a, <1>b, <1>c DEF PeerEnds
  <1>7. CASE UNCHANGED vars
    BY <1>7 DEF vars, PeerEnds, Started, peerVars, recvVars
  <1> QED BY <1>1, <1>2, <1>3, <1>4, <1>5, <1>6, <1>7 DEF Next, Writing, Handlers

-----------------------------------------------------------------------------
(* The invariant and what follows from it.                                 *)

IInv == TypeInv /\ QuietInv /\ SynInv /\ LockInv /\ LifeInv /\ FinInv /\ OutInv /\ EndInv

\* A session begins with no stream and nothing written (session.go:68-83).
LEMMA InitInvariant == Init => IInv
  <1> SUFFICES ASSUME Init PROVE IInv
    OBVIOUS
  <1> USE ThreadFacts DEF Init
  <1>1. TypeInv
    BY InitTypeInv
  <1>2. QuietInv /\ LockInv
    BY DEF QuietInv, Quiet, Idle, LockInv
  <1>3. SynInv
    <2>1. \A s \in Sids : pc[Main(s)] = "none"
      OBVIOUS
    <2>2. \A i \in 1..Len(inq) : FALSE
      OBVIOUS
    <2> QED BY ONLY <2>1, <2>2 DEF SynInv
  <1>4. LifeInv /\ FinInv
    BY DEF LifeInv, LiveStreamReachable, Started, FinInv, FinPending, FinAtMostOnce
  <1>5. OutInv
    BY DEF OutInv, Early, NoFrame
  <1>6. EndInv
    BY DEF EndInv, WriteOrClose, StreamEnds, PeerEnds, Started, Ending
  <1> QED BY <1>1, <1>2, <1>3, <1>4, <1>5, <1>6 DEF IInv

\* Every step of every goroutine, and of the peer, keeps it.
LEMMA NextInvariant == IInv /\ [Next]_vars => IInv'
  BY NextTypeInv, NextQuiet, NextSyn, NextLock, NextLife, NextFin, NextOut, NextWriteOrClose,
     NextStreamEnds, NextPeerEnds DEF IInv, EndInv

\* The invariant of the session and its streams (session.go, stream.go).
THEOREM Invariance == Spec => []IInv
  BY InitInvariant, NextInvariant, PTL DEF Spec

\* Types, and both directions of the connection and every pipe within their
\* capacity (session.go:175-359, 397-428).
THEOREM TypeCorrect == Spec => []TypeOK
  <1>1. IInv => TypeOK
    BY TypeInvTypeOK DEF IInv
  <1> QED BY <1>1, Invariance, PTL

\* A stream whose handler runs and that is not closed is in the map, where a
\* FIN, data and Close find it, or the receive loop is about to close it: no
\* order of Close, FIN, SYN and the handlers loses one (session.go:115-137,
\* 215-243, 361-370).
THEOREM StreamsReachable == Spec => []LiveStreamReachable
  <1>1. IInv => LiveStreamReachable
    BY DEF IInv, LifeInv
  <1> QED BY <1>1, Invariance, PTL

\* However the handler, the copier, the peer's FIN and Session.Close race, one
\* FIN at most is sent for a stream (stream.go:88-104, session.go:361-370).
THEOREM OneFin == Spec => []FinAtMostOnce
  <1>1. IInv => FinAtMostOnce
    BY DEF IInv, FinInv
  <1> QED BY <1>1, Invariance, PTL

\* The deadline of a control frame is gone before anybody else writes: data is
\* never written under it (session.go:397-428).
THEOREM NoDeadlineLeak == Spec => []NoDeadlineOnDataWrite
  <1>1. IInv => NoDeadlineOnDataWrite
    BY DEF IInv, LockInv, IsControl, NoDeadlineOnDataWrite
  <1> QED BY <1>1, Invariance, PTL

\* A handler that gives up an outbound connection without closing it does so
\* in a session that is closed (outbound_tcp.go:21-24, session.go:407-412).
THEOREM OutboundNotLeft == Spec => []OutboundReleased
  <1>1. IInv => OutboundReleased
    BY DEF IInv, OutInv, OutboundReleased
  <1> QED BY <1>1, Invariance, PTL


-----------------------------------------------------------------------------
(* The life of a stream as StreamLife has it.                              *)

LifeStep == Life!Next \/ UNCHANGED Life!vars

\* No stream is there at the beginning.
LEMMA LifeInit ==
  ASSUME Init
  PROVE  Life!Init
  <1>1. \A s \in Sids : ServerEnd(s) = "none"
    BY ThreadFacts DEF Init, ServerEnd, Started
  <1> QED BY <1>1 DEF Init, Life!Init

\* What a thread owes depends on where it is and on what it is inside of.
LEMMA OwesSame ==
  ASSUME NEW t, pc'[t] = pc[t], Idle(t)' <=> Idle(t)
  PROVE  Owes(t)' <=> Owes(t)
  BY DEF Owes

\* A stream stays as it is where its handler does not end it.
LEMMA EndSame ==
  ASSUME NEW s, pc'[Main(s)] = "none" <=> pc[Main(s)] = "none", dead'[s] = dead[s],
         Owes(Main(s))' <=> Owes(Main(s)), Owes(Down(s))' <=> Owes(Down(s))
  PROVE  ServerEnd(s)' = ServerEnd(s)
  BY DEF ServerEnd, Started

\* A step that moves no stream is none of the promise.
LEMMA LifeStays ==
  ASSUME UNCHANGED <<die, pst, fins>>, \A s \in Sids : ServerEnd(s)' = ServerEnd(s)
  PROVE  LifeStep
  BY DEF LifeStep, Life!vars

\* One stream moves at the server.
LEMMA LifeMoves ==
  ASSUME NEW s \in Sids, NEW to, UNCHANGED <<die, pst>>, ServerEnd(s)' = to,
         \A u \in Sids \ {s} : ServerEnd(u)' = ServerEnd(u)
  PROVE  Life!ServerMoves(s, ServerEnd(s), to)
  <1>1. [u \in Sids |-> ServerEnd(u)]' = [[u \in Sids |-> ServerEnd(u)] EXCEPT ![s] = to]
    OBVIOUS
  <1> QED BY <1>1 DEF Life!ServerMoves

\* The streams in S end with no FIN due.
LEMMA LifeLeaves ==
  ASSUME NEW S \in SUBSET Sids, S # {}, UNCHANGED <<die, pst, fins>>,
         \A s \in S : ServerEnd(s) = "open" /\ ServerEnd(s)' = "ended" /\ (die \/ pst[s] = "closed"),
         \A u \in Sids \ S : ServerEnd(u)' = ServerEnd(u)
  PROVE  LifeStep
  <1>1. [u \in Sids |-> ServerEnd(u)]' =
          [u \in Sids |-> IF u \in S THEN "ended" ELSE [v \in Sids |-> ServerEnd(v)][u]]
    OBVIOUS
  <1>2. Life!Leave(S)
    BY <1>1 DEF Life!Leave
  <1> QED BY <1>2 DEF LifeStep, Life!Next

\* Where a stream is: who owes its FIN is the one that ended it, and alone.
LEMMA EndFacts ==
  ASSUME IInv, NEW s \in Sids
  PROVE  /\ \A t \in {Main(s), Down(s)} : Owes(t) =>
              /\ pc[t] \in Ending /\ ServerEnd(s) = "ending"
              /\ \A u \in {Main(s), Down(s)} \ {t} : pc[u] \notin Ending /\ ~Owes(u)
         /\ ~dead[s] => ~Owes(Main(s)) /\ ~Owes(Down(s)) /\ ServerEnd(s) \in {"none", "open"}
         /\ dead[s] => Started(s)
  BY DEF IInv, LifeInv, EndInv, StreamEnds, Owes, Ending, ServerEnd

\* A thread is done with the FIN it owed.
LEMMA OwesNoMore ==
  ASSUME IInv, NEW s \in Sids, NEW t \in {Main(s), Down(s)}, Owes(t), ~Owes(t)', UNCHANGED <<die, pst, dead>>,
         pc'[Main(s)] # "none",
         \A u \in Threads \ {t} : pc'[u] = pc[u] /\ (Idle(u)' <=> Idle(u))
  PROVE  Life!ServerMoves(s, "ending", "ended")
  <1>1. ServerEnd(s) = "ending" /\ \A u \in {Main(s), Down(s)} \ {t} : ~Owes(u)
    BY EndFacts
  <1>2. dead[s]
    BY EndFacts
  <1>3. ~Owes(Main(s))' /\ ~Owes(Down(s))'
    BY <1>1, ThreadFacts, OwesSame
  <1>4. ServerEnd(s)' = "ended"
    BY <1>2, <1>3 DEF ServerEnd, Started
  <1>5. ASSUME NEW u \in Sids \ {s}
        PROVE  ServerEnd(u)' = ServerEnd(u)
    <2>1. Main(u) \in Threads \ {t} /\ Down(u) \in Threads \ {t}
      BY ThreadFacts
    <2> QED BY <2>1, OwesSame, EndSame
  <1> QED BY <1>1, <1>4, <1>5, LifeMoves

\* Writing a frame: a FIN that is written tells the peer (session.go:361-370,
\* 397-414).
LEMMA LifeWriting ==
  ASSUME IInv, NEW t \in Threads, Writing(t)
  PROVE  LifeStep
  <1> USE ThreadFacts DEF IInv, TypeInv, WriteType, CloseType, StreamType
  <1>1. UNCHANGED <<die, pst, pc, dead>>
    BY WritingFrame DEF peerVars, streamVars
  <1>2. \A u \in Threads \ {t} : Idle(u)' <=> Idle(u)
    BY DEF Writing, WriteConn, WriteLock, WritePut, WriteFail, WriteDone, Idle, closeVars
  <1>3. wst[t] # "none" /\ w[t] \in Frames /\ clo[t] = "none"
    BY DEF Writing, WriteConn, WriteLock, WritePut, WriteFail, EndInv, WriteOrClose
  <1>4. CASE WritePut(t) /\ w[t].cmd = "FIN"
    <2>1. PICK s \in Sids : w[t].sid = s
      BY <1>4 DEF OfStream
    <2>2. t \in {Main(s), Down(s)} /\ pc[t] = "delete" /\ Owes(t)
      BY <1>3, <1>4, <2>1 DEF FinInv, Owes, Idle
    <2>3. ~Owes(t)'
      BY <1>1, <1>3, <1>4, <2>2 DEF WritePut, WriteDone, Owes, Idle, closeVars
    <2>4. pc'[Main(s)] # "none"
      BY <1>1, <2>2, EndFacts DEF Started
    <2>5. Life!ServerMoves(s, "ending", "ended")
      BY <1>1, <1>2, <2>2, <2>3, <2>4, OwesNoMore
    <2>6. fins' = [fins EXCEPT ![s] = @ + 1]
      BY <1>4, <2>1 DEF WritePut
    <2>7. Life!Tell(s)
      BY <2>5, <2>6 DEF Life!Tell
    <2> QED BY <2>7 DEF LifeStep, Life!Next
  <1>5. CASE ~(WritePut(t) /\ w[t].cmd = "FIN")
    <2>1. fins' = fins
      BY <1>5 DEF Writing, WriteConn, WriteLock, WritePut, WriteFail, histVars
    <2>2. pc[t] = "delete" /\ t \notin {Recv, Admin} => (Idle(t)' <=> Idle(t))
      <3>1. ASSUME pc[t] = "delete", NEW s \in Sids, t \in {Main(s), Down(s)}
            PROVE  Idle(t)' <=> Idle(t)
        <4>1. w[t].cmd = "FIN"
          <5>1. w[t] = Frame("FIN", s)
            BY ONLY IInv, <1>3, <3>1 DEF IInv, EndInv, StreamEnds
          <5> QED BY <5>1 DEF Frame
        <4> QED
          BY <1>3, <1>5, <4>1
          DEF Writing, WriteConn, WriteLock, WriteFail, WriteDone, Idle, IsControl
      <3> QED BY <3>1 DEF Threads
    <2>3. \A s \in Sids : (Owes(Main(s))' <=> Owes(Main(s))) /\ (Owes(Down(s))' <=> Owes(Down(s)))
      BY <1>1, <1>2, <2>2 DEF Owes
    <2>4. \A s \in Sids : ServerEnd(s)' = ServerEnd(s)
      BY <1>1, <2>3, EndSame
    <2> QED BY <1>1, <2>1, <2>4, LifeStays
  <1> QED BY <1>4, <1>5

\* Session.Close: the first closes the session and ends every stream of the
\* map without a FIN (session.go:115-137).
LEMMA LifeClosing ==
  ASSUME IInv, NEW t \in Threads, SessionClose(t)
  PROVE  LifeStep
  <1> USE ThreadFacts DEF IInv, TypeInv, CloseType, StreamType
  <1>1. UNCHANGED <<pst, pc, fins, wst>> /\ clo[t] # "none" /\ wst[t] = "none"
    BY ClosingFrame
    DEF peerVars, histVars, writeVars, SessionClose, CloseOnce, CloseSweep, CloseConn, EndInv, WriteOrClose
  <1>2. \A u \in Threads \ {t} : Idle(u)' <=> Idle(u)
    BY <1>1 DEF SessionClose, CloseOnce, CloseSweep, CloseConn, Idle
  <1>a. ASSUME \A u \in Threads : Idle(u)' <=> Idle(u)
        PROVE  \A s \in Sids : (Owes(Main(s))' <=> Owes(Main(s))) /\ (Owes(Down(s))' <=> Owes(Down(s)))
    BY <1>1, <1>a, OwesSame
  <1>b. ASSUME UNCHANGED <<die, dead>>, die
        PROVE  LifeStep
    <2>1. CASE \E s \in Sids : t \in {Main(s), Down(s)} /\ Owes(t) /\ ~Owes(t)'
      <3>1. PICK s \in Sids : t \in {Main(s), Down(s)} /\ Owes(t) /\ ~Owes(t)'
        BY <2>1
      <3>2. pc'[Main(s)] # "none"
        BY <1>1, <3>1, EndFacts DEF Started
      <3>3. \A u \in Threads \ {t} : pc'[u] = pc[u] /\ (Idle(u)' <=> Idle(u))
        BY <1>1, <1>2
      <3>4. Life!ServerMoves(s, "ending", "ended")
        BY <1>1, <1>b, <3>1, <3>2, <3>3, OwesNoMore
      <3>5. Life!GiveUp(s)
        BY <1>1, <1>b, <3>4 DEF Life!GiveUp
      <3> QED BY <3>5 DEF LifeStep, Life!Next
    <2>2. CASE ~\E s \in Sids : t \in {Main(s), Down(s)} /\ Owes(t) /\ ~Owes(t)'
      <3>1. ASSUME NEW s \in Sids, NEW u \in {Main(s), Down(s)}
            PROVE  Owes(u)' <=> Owes(u)
        <4>1. CASE u # t
          BY <1>1, <1>2, <4>1, OwesSame
        <4>2. CASE u = t
          <5>1. Owes(u) => Owes(u)'
            BY <2>2, <3>1, <4>2
          <5>2. Owes(u)' => Owes(u)
            BY <1>1, <4>2 DEF Owes, Idle
          <5> QED BY <5>1, <5>2
        <4> QED BY <4>1, <4>2
      <3>2. \A s \in Sids : ServerEnd(s)' = ServerEnd(s)
        BY <1>1, <1>b, <3>1, EndSame
      <3> QED BY <1>1, <1>b, <3>2, LifeStays
    <2> QED BY <2>1, <2>2
  <1>3. CASE CloseOnce(t) /\ ~die
    <2>1. clo'[t] = "sweep" /\ die' = TRUE /\ dead' = dead
      BY <1>3 DEF CloseOnce, streamVars
    <2>2. \A u \in Threads : Idle(u)' <=> Idle(u)
      BY <1>1, <1>2, <2>1 DEF Idle
    <2>3. \A s \in Sids : ServerEnd(s)' = ServerEnd(s)
      BY <1>1, <2>1, <2>2, <1>a, EndSame
    <2>4. Life!Close
      BY <1>1, <1>3, <2>1, <2>3 DEF Life!Close
    <2> QED BY <2>4 DEF LifeStep, Life!Next
  <1>4. CASE CloseOnce(t) /\ die
    BY <1>4, <1>b DEF CloseOnce, streamVars
  <1>5. CASE CloseConn(t)
    BY <1>5, <1>b DEF CloseConn, streamVars, OutInv
  <1>6. CASE CloseSweep(t)
    <2>1. clo'[t] = "conn" /\ die /\ die' = die
      BY <1>6 DEF CloseSweep, OutInv
    <2>2. \A u \in Threads : Idle(u)' <=> Idle(u)
      BY <1>1, <1>2, <2>1 DEF Idle
    <2>3. \A s \in Sids : dead'[s] = (dead[s] \/ s \in streams)
      BY <1>6 DEF CloseSweep
    <2>4. PICK S \in SUBSET Sids : S = {s \in streams : ~dead[s]}
      OBVIOUS
    <2>5. ASSUME NEW s \in Sids \ S
          PROVE  ServerEnd(s)' = ServerEnd(s)
      <3>1. dead'[s] = dead[s]
        BY <2>3, <2>4
      <3> QED BY <1>1, <2>2, <1>a, <3>1, EndSame
    <2>6. ASSUME NEW s \in S
          PROVE  ServerEnd(s) = "open" /\ ServerEnd(s)' = "ended"
      <3>1. ~dead[s] /\ dead'[s] /\ Started(s) /\ Started(s)'
        BY <1>1, <2>3, <2>4 DEF EndInv, StreamEnds, Started
      <3>2. ~Owes(Main(s))' /\ ~Owes(Down(s))'
        BY <3>1, <2>2, <1>a, EndFacts
      <3> QED BY <3>1, <3>2 DEF ServerEnd
    <2>7. CASE S = {}
      BY <1>1, <2>1, <2>5, <2>7, LifeStays
    <2>8. CASE S # {}
      BY <1>1, <2>1, <2>5, <2>6, <2>8, LifeLeaves
    <2> QED BY <2>7, <2>8
  <1> QED BY <1>3, <1>4, <1>5, <1>6 DEF SessionClose

\* The receive loop: a SYN opens a stream, a FIN of the peer ends it
\* (session.go:215-227, 249-256).
LEMMA LifeRecv ==
  ASSUME IInv, RecvLoop
  PROVE  LifeStep
  <1> USE ThreadFacts DEF IInv, TypeInv, PcType, StreamType
  <1>1. UNCHANGED <<die, pst, fins>>
    BY RecvFrame DEF peerVars
  <1>2. ASSUME NEW s \in Sids, NEW t \in {Main(s), Down(s)}
        PROVE  (Idle(t)' <=> Idle(t)) /\ (pc'[t] = pc[t] \/ (RecvSYN /\ pc[t] = "none" /\ pc'[t] = "addr"))
    <2>1. CASE RecvSYN
      BY <2>1, SynStarts DEF RecvSYN, Goto, Idle, writeVars, closeVars
    <2>2. CASE RecvSYNEarly \/ RecvHeart \/ RecvSettings
      BY <2>2 DEF RecvSYNEarly, RecvHeart, RecvSettings, Goto, StartWrite, Idle, writeVars, closeVars, WriteType
    <2>3. CASE RecvVersion \/ RecvReturn
      BY <2>3 DEF RecvVersion, RecvReturn, Goto, StartWrite, Idle, writeVars, closeVars, WriteType, CloseType
    <2>4. CASE RecvPSH \/ RecvPush \/ RecvFIN \/ RecvFINClose
      BY <2>4 DEF RecvPSH, RecvPush, RecvFIN, RecvFINClose, Goto, Idle, writeVars, closeVars
    <2> QED BY <2>1, <2>2, <2>3, <2>4 DEF RecvLoop
  <1>3. ASSUME NEW s \in Sids
        PROVE  (Owes(Main(s))' <=> Owes(Main(s))) /\ (Owes(Down(s))' <=> Owes(Down(s)))
    BY <1>2 DEF Owes
  <1>4. CASE RecvSYN /\ Head(inq).sid \notin streams
    <2>1. PICK s \in Sids : s = Head(inq).sid /\ pc[Main(s)] = "none"
      BY <1>4, SynStarts DEF RecvSYN
    <2>2. pc' = [pc EXCEPT ![Main(s)] = "addr"] /\ dead' = dead /\ ~dead[s]
      BY <1>4, <2>1 DEF RecvSYN, Goto, streamVars, EndInv, StreamEnds, Started
    <2>3. ServerEnd(s) = "none" /\ ServerEnd(s)' = "open"
      BY <2>1, <2>2 DEF ServerEnd, Started
    <2>4. \A u \in Sids \ {s} : ServerEnd(u)' = ServerEnd(u)
      BY <1>3, <2>2, EndSame
    <2>5. pst[s] # "none"
      <3>1. Head(inq).cmd = "SYN" /\ inq # <<>> /\ Head(inq) = Frame("SYN", s)
        BY <1>4, <2>1, IncomingFacts DEF RecvSYN, Cmds, Frames, Frame
      <3>2. 1 \in 1..Len(inq) /\ inq[1] = Frame("SYN", s)
        BY <3>1 DEF InType
      <3> QED BY <3>2 DEF SynInv
    <2>6. Life!ServerMoves(s, "none", "open")
      BY <1>1, <2>3, <2>4, LifeMoves
    <2>7. Life!Accept(s)
      BY <1>1, <2>5, <2>6 DEF Life!Accept
    <2> QED BY <2>7 DEF LifeStep, Life!Next
  <1>5. CASE RecvFINClose /\ ~dead[tgt]
    <2>1. PICK s \in Sids : s = tgt
      BY <1>5 DEF RecvFINClose, RecvType
    <2>2. dead' = [dead EXCEPT ![s] = TRUE] /\ pst[s] = "closed" /\ Started(s)
      BY <1>5, <2>1 DEF RecvFINClose, EndInv, PeerEnds
    <2>3. \A u \in Sids : pc'[Main(u)] = pc[Main(u)]
      BY <1>5 DEF RecvFINClose, Goto
    <2>4. ServerEnd(s) = "open" /\ ServerEnd(s)' = "ended"
      BY <1>3, <1>5, <2>1, <2>2, <2>3, EndFacts DEF ServerEnd, Started
    <2>5. \A u \in Sids \ {s} : ServerEnd(u)' = ServerEnd(u)
      BY <1>3, <2>2, <2>3, EndSame
    <2>6. PICK S \in SUBSET Sids : S = {s}
      OBVIOUS
    <2> QED BY <1>1, <2>2, <2>4, <2>5, <2>6, LifeLeaves
  <1>6. CASE ~(RecvSYN /\ Head(inq).sid \notin streams) /\ ~(RecvFINClose /\ ~dead[tgt])
    <2>1. dead' = dead
      BY <1>6
      DEF RecvLoop, RecvPSH, RecvPush, RecvSYNEarly, RecvSYN, RecvFIN, RecvFINClose, RecvHeart, RecvSettings,
          RecvVersion, RecvReturn, streamVars, RecvType
    <2>2. \A s \in Sids : pc'[Main(s)] = pc[Main(s)]
      BY <1>6
      DEF RecvLoop, RecvPSH, RecvPush, RecvSYNEarly, RecvSYN, RecvFIN, RecvFINClose, RecvHeart, RecvSettings,
          RecvVersion, RecvReturn, Goto
    <2>3. \A s \in Sids : ServerEnd(s)' = ServerEnd(s)
      BY <1>3, <2>1, <2>2, EndSame
    <2> QED BY <1>1, <2>3, LifeStays
  <1> QED BY <1>4, <1>5, <1>6

\* CloseAll calls Session.Close, which has done nothing yet (users.go:350-362).
LEMMA LifeAdmin ==
  ASSUME IInv, AdminClose
  PROVE  LifeStep
  <1> USE ThreadFacts DEF IInv, TypeInv, PcType, CloseType
  <1>1. UNCHANGED <<die, pst, fins, dead, wst>>
    BY DEF AdminClose, peerVars, histVars, writeVars, streamVars
  <1>2. \A t \in Threads \ {Admin} : pc'[t] = pc[t] /\ clo'[t] = clo[t]
    BY DEF AdminClose, Goto
  <1>3. ASSUME NEW s \in Sids
        PROVE  ServerEnd(s)' = ServerEnd(s)
    <2>1. Main(s) \in Threads \ {Admin} /\ Down(s) \in Threads \ {Admin}
      OBVIOUS
    <2> QED BY <1>1, <1>2, <2>1, OwesSame, EndSame DEF Idle
  <1> QED BY <1>1, <1>3, LifeStays

\* The threads of one stream move no other stream.
LEMMA OthersStay ==
  ASSUME IInv, NEW s \in Sids, Handlers(s)
  PROVE  /\ \A t \in Threads \ {Main(s), Down(s)} : pc'[t] = pc[t] /\ (Idle(t)' <=> Idle(t))
         /\ \A u \in Sids \ {s} : ServerEnd(u)' = ServerEnd(u)
  <1> USE ThreadFacts DEF IInv, TypeInv, PcType, WriteType, StreamType
  <1>1. clo' = clo
    BY HandlersFrame DEF closeVars
  <1>2. \A t \in Threads \ {Main(s), Down(s)} : pc'[t] = pc[t] /\ wst'[t] = wst[t]
    BY DEF Handlers, Handler, Copier, Remote, CloseBy, HandlerAddr, HandlerUoT, HandlerDial, HandlerStart,
           UpRead, UpSend, UpEnd, HandlerJoin, StreamClose, StreamClosed, StreamDelete, DownFail, UpFail, DownData,
           DownEOF, Report, StartWrite, Goto, writeVars
  <1>3. \A u \in Sids \ {s} : dead'[u] = dead[u]
    BY DEF Handlers, Handler, Copier, Remote, CloseBy, HandlerAddr, HandlerUoT, HandlerDial, HandlerStart,
           UpRead, UpSend, UpEnd, HandlerJoin, StreamClose, StreamClosed, StreamDelete, DownFail, UpFail, DownData,
           DownEOF, streamVars
  <1>4. ASSUME NEW u \in Sids \ {s}
        PROVE  ServerEnd(u)' = ServerEnd(u)
    <2>1. Main(u) \in Threads \ {Main(s), Down(s)} /\ Down(u) \in Threads \ {Main(s), Down(s)}
      OBVIOUS
    <2> QED BY <1>1, <1>2, <1>3, <2>1, OwesSame, EndSame DEF Idle
  <1> QED BY <1>1, <1>2, <1>4 DEF Idle

\* A step of a handler's thread that comes from elsewhere than the stream's
\* close, and goes elsewhere.
LEMMA HandlerStays ==
  ASSUME IInv, NEW s \in Sids, Handlers(s), dead' = dead,
         pc'[Main(s)] = "none" <=> pc[Main(s)] = "none",
         \A t \in {Main(s), Down(s)} :
           \/ pc'[t] = pc[t] /\ (pc[t] = "delete" => (Idle(t)' <=> Idle(t)))
           \/ ~Owes(t) /\ ~Owes(t)'
  PROVE  LifeStep
  <1>1. UNCHANGED <<die, pst, fins>>
    BY HandlersFrame DEF closeVars, peerVars, histVars
  <1>2. \A t \in {Main(s), Down(s)} : Owes(t)' <=> Owes(t)
    BY DEF Owes
  <1>3. ServerEnd(s)' = ServerEnd(s)
    BY <1>2, EndSame
  <1> QED BY <1>1, <1>3, OthersStay, LifeStays

\* Stream.Close: the first to close the stream ends it and owes the FIN, which
\* is written unless the session is closed (stream.go:88-104,
\* session.go:361-370).
LEMMA LifeCloseBy ==
  ASSUME IInv, NEW s \in Sids, NEW t \in {Main(s), Down(s)}, CloseBy(t, s)
  PROVE  LifeStep
  <1> USE ThreadFacts DEF IInv, TypeInv, PcType, WriteType, StreamType
  <1>1. Handlers(s) /\ t \in Threads
    BY DEF Handlers, Handler, Copier
  <1>2. UNCHANGED <<die, pst, fins, clo>>
    BY <1>1, HandlersFrame DEF closeVars, peerVars, histVars
  <1>3. \A u \in Threads \ {t} : pc'[u] = pc[u] /\ wst'[u] = wst[u]
    BY DEF CloseBy, StreamClose, StreamClosed, StreamDelete, StartWrite, Goto, writeVars
  <1>4. \A u \in Threads \ {t} : Idle(u)' <=> Idle(u)
    BY <1>2, <1>3 DEF Idle
  <1>5. pc[t] # "none" /\ pc'[t] # "none" /\ pc[Main(s)] # "none"
    <2>1. pc[t] # "none" /\ pc'[t] # "none"
      BY DEF CloseBy, StreamClose, StreamClosed, StreamDelete, Goto
    <2>2. pc[Main(s)] = "none" => pc[Down(s)] = "none"
      BY DEF LifeInv, Early
    <2> QED BY <2>1, <2>2
  <1>6. pc'[Main(s)] # "none"
    BY <1>3, <1>5
  <1>7. CASE StreamClose(t, s) /\ ~dead[s]
    <2>1. dead'[s] /\ pc'[t] = "closed"
      BY <1>7 DEF StreamClose, Goto
    <2>2. ServerEnd(s) = "open"
      BY <1>5, <1>7 DEF ServerEnd, Started
    <2>3. ServerEnd(s)' = "ending"
      BY <1>6, <2>1 DEF ServerEnd, Started, Owes
    <2>4. Life!ServerMoves(s, "open", "ending")
      BY <1>1, <1>2, <2>2, <2>3, OthersStay, LifeMoves
    <2>5. Life!End(s)
      BY <1>2, <2>4 DEF Life!End
    <2> QED BY <2>5 DEF LifeStep, Life!Next
  <1>8. CASE StreamClosed(t, s) /\ die
    <2>1. pc[t] = "closed" /\ pc'[t] = "end" /\ dead' = dead
      BY <1>8 DEF StreamClosed, Goto, streamVars
    <2>2. Life!ServerMoves(s, "ending", "ended")
      BY <1>2, <1>3, <1>4, <1>6, <2>1, OwesNoMore DEF Owes
    <2>3. Life!GiveUp(s)
      BY <1>2, <1>8, <2>2 DEF Life!GiveUp
    <2> QED BY <2>3 DEF LifeStep, Life!Next
  <1>9. CASE StreamClosed(t, s) /\ ~die
    <2>1. dead' = dead /\ Owes(t) /\ Owes(t)'
      BY <1>9 DEF StreamClosed, Goto, StartWrite, streamVars, Owes, Idle
    <2>2. \A u \in {Main(s), Down(s)} : Owes(u)' <=> Owes(u)
      BY <1>3, <1>4, <2>1, OwesSame
    <2>3. ServerEnd(s)' = ServerEnd(s)
      BY <1>5, <1>6, <2>1, <2>2, EndSame
    <2> QED BY <1>1, <1>2, <2>3, OthersStay, LifeStays
  <1>10. CASE (StreamClose(t, s) /\ dead[s]) \/ StreamDelete(t, s)
    <2>1. dead' = dead /\ ~Owes(t) /\ ~Owes(t)'
      <3>1. CASE StreamClose(t, s) /\ dead[s]
        <4>1. dead' = dead
          BY <3>1 DEF StreamClose
        <4>2. pc[t] = "close" /\ pc'[t] = "end"
          BY <3>1 DEF StreamClose, Goto
        <4> QED BY <4>1, <4>2 DEF Owes
      <3>2. CASE StreamDelete(t, s)
        BY <3>2 DEF StreamDelete, Goto, streamVars, Owes
      <3> QED BY <1>10, <3>1, <3>2
    <2>2. \A u \in {Main(s), Down(s)} :
            \/ pc'[u] = pc[u] /\ (pc[u] = "delete" => (Idle(u)' <=> Idle(u)))
            \/ ~Owes(u) /\ ~Owes(u)'
      BY <1>3, <1>4, <2>1
    <2> QED BY <1>1, <1>5, <1>6, <2>1, <2>2, HandlerStays
  <1> QED BY <1>7, <1>8, <1>9, <1>10 DEF CloseBy

\* The handler and the copier until they close the stream (inbound_tcp.go:95-115,
\* outbound_tcp.go:14-49).
LEMMA LifeHandlers ==
  ASSUME IInv, NEW s \in Sids, Handlers(s)
  PROVE  LifeStep
  <1> USE ThreadFacts DEF IInv, TypeInv, PcType, WriteType
  <1>1. CASE CloseBy(Main(s), s) \/ CloseBy(Down(s), s)
    BY <1>1, LifeCloseBy
  <1>2. CASE HandlerAddr(s) \/ HandlerUoT(s) \/ HandlerDial(s) \/ UpRead(s) \/ UpSend(s) \/ UpEnd(s) \/ UpFail(s)
             \/ HandlerJoin(s)
    <2>1. /\ dead' = dead /\ pc'[Down(s)] = pc[Down(s)] /\ wst'[Down(s)] = wst[Down(s)]
          /\ pc[Main(s)] \notin {"none", "closed", "delete"}
          /\ pc'[Main(s)] \notin {"none", "closed", "delete"}
      BY <1>2 DEF HandlerAddr, HandlerUoT, HandlerDial, UpRead, UpSend, UpEnd, UpFail, HandlerJoin, Report,
                  StartWrite, Goto, writeVars, streamVars
    <2>2. clo' = clo
      BY HandlersFrame DEF closeVars
    <2>3. Idle(Down(s))' <=> Idle(Down(s))
      BY <2>1, <2>2 DEF Idle
    <2>4. ~Owes(Main(s)) /\ ~Owes(Main(s))'
      BY <2>1 DEF Owes
    <2> QED BY <2>1, <2>3, <2>4, HandlerStays
  <1>3. CASE HandlerStart(s)
    <2>1. pc[Main(s)] = "report" /\ pc[Down(s)] = "none" /\ dead' = dead
      BY <1>3 DEF HandlerStart, LifeInv, Early, streamVars
    <2>2. pc'[Main(s)] \in {"close", "up"} /\ pc'[Down(s)] \in {"none", "copy"}
      BY <1>3, <2>1 DEF HandlerStart, Goto
    <2>3. \A t \in {Main(s), Down(s)} : ~Owes(t) /\ ~Owes(t)'
      BY <2>1, <2>2 DEF Owes
    <2> QED BY <2>1, <2>2, <2>3, HandlerStays
  <1>4. CASE DownFail(s) \/ DownData(s) \/ DownEOF(s)
    <2>1. /\ dead' = dead /\ pc'[Main(s)] = pc[Main(s)] /\ wst'[Main(s)] = wst[Main(s)]
          /\ pc[Down(s)] = "copy" /\ pc'[Down(s)] \in {"copy", "close"}
      BY <1>4 DEF DownFail, DownData, DownEOF, Copying, StartWrite, Goto, writeVars, streamVars
    <2>2. clo' = clo
      BY HandlersFrame DEF closeVars
    <2>3. Idle(Main(s))' <=> Idle(Main(s))
      BY <2>1, <2>2 DEF Idle
    <2>4. ~Owes(Down(s)) /\ ~Owes(Down(s))'
      BY <2>1 DEF Owes
    <2> QED BY <2>1, <2>3, <2>4, HandlerStays
  <1> QED BY <1>1, <1>2, <1>3, <1>4 DEF Handlers, Handler, Copier, Remote

\* The peer: it opens a stream, and ends it by its own FIN or when the server's
\* arrives (session.go:79-99, 139-173, 249-256).
LEMMA LifePeer ==
  ASSUME IInv, Peer
  PROVE  LifeStep
  <1> USE DEF IInv, TypeInv, PeerType, EndInv, PeerEnds
  <1>1. UNCHANGED <<die, fins, pc, dead, wst, clo>>
    BY PeerFrame DEF closeVars, histVars, streamVars, writeVars
  <1>2. \A s \in Sids : ServerEnd(s)' = ServerEnd(s)
    BY <1>1 DEF ServerEnd, Started, Owes, Idle
  <1>3. [s \in Sids |-> ServerEnd(s)]' = [s \in Sids |-> ServerEnd(s)]
    BY <1>2
  <1>4. ASSUME NEW s \in Sids, NEW to, pst' = [pst EXCEPT ![s] = to],
               <<pst[s], to>> \in {<<"none", "open">>, <<"open", "closed">>}
        PROVE  LifeStep
    <2>1. Life!PeerMoves(s, pst[s], to)
      BY <1>1, <1>3, <1>4 DEF Life!PeerMoves
    <2> QED BY <1>4, <2>1 DEF LifeStep, Life!Next
  <1>5. CASE pst' = pst
    BY <1>1, <1>2, <1>5, LifeStays
  <1>6. CASE PeerRecv /\ Head(outq).cmd = "FIN"
    <2>1. outq # <<>> /\ outq \in Seq(Frames) /\ \A i \in 1..Len(outq) : OfStream(outq[i])
      BY <1>6 DEF PeerRecv, OutType
    <2>2. 1 \in 1..Len(outq) /\ Head(outq) = outq[1]
      BY <2>1
    <2>3. OfStream(Head(outq))
      BY <2>1, <2>2
    <2>4. Head(outq).sid \in Sids
      BY <1>6, <2>3 DEF OfStream
    <2>5. PICK s \in Sids : s = Head(outq).sid
      BY <2>4
    <2>6. pst[s] # "none"
      BY <1>6, <2>2, <2>5
    <2>7. pst' = [pst EXCEPT ![s] = "closed"]
      BY <1>6, <2>5 DEF PeerRecv
    <2>8. CASE pst[s] = "closed"
      <3>1. pst' = pst
        BY <2>7, <2>8
      <3> QED BY <1>5, <3>1
    <2>9. CASE pst[s] = "open"
      BY <1>4, <2>7, <2>9
    <2> QED BY <2>6, <2>8, <2>9
  <1>7. ASSUME NEW s \in Sids, PeerSyn(s) \/ PeerFin(s)
        PROVE  LifeStep
    BY <1>4, <1>7 DEF PeerSyn, PeerFin
  <1>8. CASE PeerGreet \/ PeerHeart \/ PeerGone \/ (PeerRecv /\ Head(outq).cmd # "FIN")
             \/ \E s \in Sids : PeerPsh(s)
    BY <1>5, <1>8 DEF PeerGreet, PeerHeart, PeerGone, PeerRecv, PeerPsh, peerVars
  <1> QED BY <1>6, <1>7, <1>8 DEF Peer

\* Every step of the session is one of a stream's life, or none of it.
LEMMA LifeNext ==
  ASSUME IInv, [Next]_vars
  PROVE  [Life!Next]_(Life!vars)
  <1> SUFFICES LifeStep
    BY DEF LifeStep
  <1>1. CASE UNCHANGED vars
    <2>1. UNCHANGED <<die, pst, fins, pc, dead, wst, clo>>
      BY <1>1 DEF vars, closeVars, peerVars, histVars, streamVars, writeVars
    <2>2. \A s \in Sids : ServerEnd(s)' = ServerEnd(s)
      BY <2>1 DEF ServerEnd, Started, Owes, Idle
    <2> QED BY <2>1, <2>2, LifeStays
  <1>2. CASE Next
    BY <1>2, LifeWriting, LifeClosing, LifeAdmin, LifeRecv, LifeHandlers, LifePeer
    DEF Next, Writing, Handlers
  <1> QED BY <1>1, <1>2

\* However Session.Close, the peer's FIN, the handler and the copier race, a
\* stream opens once and ends once, and whoever ends it decides whether the peer
\* is told: one FIN after the server's Close, unless the session is closed
\* meanwhile, and none after the peer's own (stream.go:72-104,
\* session.go:127-132, 249-256, 361-370).
THEOREM LifeImplemented == Spec => ImplementsStreamLife
  BY LifeInit, LifeNext, Invariance, PTL DEF Spec, ImplementsStreamLife, Life!Spec
=============================================================================
