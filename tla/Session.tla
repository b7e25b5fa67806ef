------------------------------- MODULE Session -------------------------------
(***************************************************************************)
(* A session on the server: internal/pkg/proxy/session/session.go and      *)
(* stream.go, with the handler each stream gets from                       *)
(* internal/app/server/inbound_tcp.go and outbound_tcp.go.                 *)
(*                                                                         *)
(* Threads of one session: the receive loop; for each stream the handler   *)
(* ("main": read the address, dial, report, copy to the remote) and the    *)
(* copier ("down": copy from the remote); and whoever closes the session   *)
(* from outside ("admin").  They share the map of streams, the pipes, the  *)
(* connection's write side under connLock, and Close.                      *)
(*                                                                         *)
(* The peer is this repository's client: it sends its settings first (or   *)
(* is some other client that omits them), never uses a stream number twice *)
(* and sends one FIN at most for a stream it closes itself.  Data is       *)
(* counted in frames; the byte stream inside a pipe is module Pipe.        *)
(***************************************************************************)
EXTENDS Naturals, Sequences

CONSTANTS
  Sids,      \* the numbers of the streams the peer opens
  NoSid,     \* the number 0 of frames that are of no stream
  PipeCap,   \* frames a stream's pipe buffers
  ConnCap,   \* frames in flight in each direction of the connection
  Versions,  \* protocol versions a peer may speak
  Schemes,   \* a peer's padding scheme is the server's ("same") or not ("stale")
  MaxHearts, \* bound: heartbeat requests the peer sends
  Outside    \* what happens to the session from outside: "admin", "gone"

ASSUME SessionAssumption ==
  /\ NoSid \notin Sids /\ PipeCap \in Nat \ {0} /\ ConnCap \in Nat \ {0}
  /\ Versions \subseteq {1, 2} /\ Schemes \subseteq {"same", "stale"}
  /\ MaxHearts \in Nat /\ Outside \subseteq {"admin", "gone"}

Recv    == <<"recv", NoSid>>
Admin   == <<"admin", NoSid>>
Main(s) == <<"main", s>>
Down(s) == <<"down", s>>
Threads == {Recv, Admin} \cup {Main(s) : s \in Sids} \cup {Down(s) : s \in Sids}

VARIABLES
  inq, outq,   \* frames in flight to and from the server
  pst,         \* the peer's view of each stream: "none", "open", "closed"
  greeted,     \* the peer has sent its first frame
  hearts,      \* heartbeat requests the peer has sent
  peerGone,    \* the peer's end of the connection is gone
  connClosed,  \* s.conn is closed
  wdl,         \* a write deadline is set on s.conn
  broken,      \* a write timed out: a TLS connection writes no more after that
  connLock,    \* who holds s.connLock, or nobody (<<>>)
  w,           \* each thread's frame being written
  wst,         \* progress of that write: "none", "lock" or "conn"
  res,         \* result of a thread's last write
  die,         \* s.die is closed
  clo,         \* progress of a thread's call of Session.Close
  streams,     \* keys of s.streams
  settings,    \* receivedSettingsFromClient
  v2,          \* s.peerVersion >= 2
  tgt,         \* the stream the receive loop found in the map
  pc,          \* where each thread is
  dead,        \* a stream's dieOnce has run: dieErr set and its pipe closed
  pipeN,       \* frames in a stream's pipe
  remote,      \* a stream's outbound connection
  fins,        \* FIN frames sent for a stream (history)
  late         \* streams accepted after Close had emptied the map (history)

peerVars   == <<pst, greeted, hearts, peerGone>>
connVars   == <<connClosed, wdl, broken, connLock>>
writeVars  == <<w, wst, res>>
closeVars  == <<die, clo>>
recvVars   == <<settings, v2, tgt>>
streamVars == <<dead, pipeN, remote>>
histVars   == <<fins, late>>
vars == <<inq, outq, peerVars, connVars, writeVars, closeVars, streams, recvVars,
          pc, streamVars, histVars>>

NoFrame == [cmd |-> "none", sid |-> NoSid]
Frame(c, s) == [cmd |-> c, sid |-> s]

Init ==
  /\ inq = <<>> /\ outq = <<>>
  /\ pst = [s \in Sids |-> "none"] /\ greeted = FALSE /\ hearts = 0 /\ peerGone = FALSE
  /\ connClosed = FALSE /\ wdl = FALSE /\ broken = FALSE /\ connLock = <<>>
  /\ w = [t \in Threads |-> NoFrame]
  /\ wst = [t \in Threads |-> "none"]
  /\ res = [t \in Threads |-> "ok"]
  /\ die = FALSE /\ clo = [t \in Threads |-> "none"]
  /\ streams = {} /\ settings = FALSE /\ v2 = FALSE /\ tgt = NoSid
  /\ pc = [t \in Threads |-> IF t = Recv THEN "run" ELSE "none"]
  /\ dead = [s \in Sids |-> FALSE]
  /\ pipeN = [s \in Sids |-> 0]
  /\ remote = [s \in Sids |-> "none"]
  /\ fins = [s \in Sids |-> 0] /\ late = {}

\* A thread is at its own code: not inside a write or a Close.
Idle(t) == wst[t] = "none" /\ clo[t] = "none"

Goto(t, l) == pc' = [pc EXCEPT ![t] = l]

\* Close has passed the sweep of the map.
Swept == die /\ \A t \in Threads : clo[t] # "sweep"

-----------------------------------------------------------------------------
(* Writing a frame: writeControlFrame and writeDataFrame through connLock. *)

StartWrite(t, f) ==
  /\ w' = [w EXCEPT ![t] = f]
  /\ wst' = [wst EXCEPT ![t] = "lock"]
  /\ res' = res

IsControl(f) == f.cmd # "PSH"

\* A control frame is written under a deadline, set and cleared under the
\* lock; a data frame's write leaves the connection's deadline as it finds it.
WriteLock(t) ==
  /\ wst[t] = "lock" /\ connLock = <<>>
  /\ connLock' = t
  /\ wdl' = (wdl \/ IsControl(w[t]))
  /\ wst' = [wst EXCEPT ![t] = "conn"]
  /\ UNCHANGED <<inq, outq, peerVars, connClosed, broken, w, res, closeVars, streams,
                 recvVars, pc, streamVars, histVars>>

\* Faulty variant: the deadline is not cleared.
BadWriteDone(t, r) ==
  /\ connLock' = <<>> /\ connClosed' = connClosed /\ wdl' = wdl
  /\ wst' = [wst EXCEPT ![t] = "none"]
  /\ res' = [res EXCEPT ![t] = r]
  /\ w' = [w EXCEPT ![t] = NoFrame]

WriteDone(t, r) ==
  /\ connLock' = <<>> /\ connClosed' = connClosed
  /\ wdl' = (wdl /\ ~IsControl(w[t]))
  /\ wst' = [wst EXCEPT ![t] = "none"]
  /\ res' = [res EXCEPT ![t] = r]
  /\ w' = [w EXCEPT ![t] = NoFrame]

WritePut(t) ==
  /\ wst[t] = "conn"
  /\ ~connClosed /\ ~peerGone /\ ~broken
  /\ Len(outq) < ConnCap
  /\ outq' = Append(outq, w[t])
  /\ fins' = IF w[t].cmd = "FIN" THEN [fins EXCEPT ![w[t].sid] = @ + 1] ELSE fins
  /\ WriteDone(t, "ok")
  /\ UNCHANGED <<inq, peerVars, broken, closeVars, streams, recvVars, pc, streamVars, late>>

\* Faulty variant: a failed write does not close the session.
BadWriteFail(t) ==
  /\ wst[t] = "conn"
  /\ connClosed \/ peerGone \/ broken \/ (wdl /\ Len(outq) = ConnCap)
  /\ broken' = (broken \/ wdl)
  /\ WriteDone(t, "err")
  /\ UNCHANGED <<inq, outq, peerVars, closeVars, streams, recvVars, pc, streamVars, histVars>>

\* The connection fails, or a peer that does not read lets the deadline pass.
\* A control frame that cannot be written closes the session.
WriteFail(t) ==
  /\ wst[t] = "conn"
  /\ connClosed \/ peerGone \/ broken \/ (wdl /\ Len(outq) = ConnCap)
  /\ broken' = (broken \/ wdl)
  /\ WriteDone(t, "err")
  /\ clo' = IF IsControl(w[t]) THEN [clo EXCEPT ![t] = "once"] ELSE clo
  /\ UNCHANGED <<inq, outq, peerVars, die, streams, recvVars, pc, streamVars, histVars>>

-----------------------------------------------------------------------------
(* Session.Close, step by step; only the first caller goes beyond dieOnce. *)
(* The hook it runs concerns the registry of connections: UserAccess.      *)

CloseOnce(t) ==
  /\ clo[t] = "once"
  /\ clo' = [clo EXCEPT ![t] = IF die THEN "none" ELSE "sweep"]
  /\ die' = TRUE
  /\ UNCHANGED <<inq, outq, peerVars, connVars, writeVars, streams, recvVars, pc,
                 streamVars, histVars>>

\* Faulty variant: a new map, and the streams of the old one stay open.
BadCloseSweep(t) ==
  /\ clo[t] = "sweep"
  /\ streams' = {}
  /\ clo' = [clo EXCEPT ![t] = "conn"]
  /\ UNCHANGED <<inq, outq, peerVars, connVars, writeVars, die, recvVars, pc, streamVars,
                 histVars>>

\* Under streamLock: closeLocally on every stream, then a new map.
CloseSweep(t) ==
  /\ clo[t] = "sweep"
  /\ dead' = [s \in Sids |-> dead[s] \/ s \in streams]
  /\ streams' = {}
  /\ clo' = [clo EXCEPT ![t] = "conn"]
  /\ UNCHANGED <<inq, outq, peerVars, connVars, writeVars, die, recvVars, pc, pipeN,
                 remote, histVars>>

\* Faulty variant: the connection is left open.
BadCloseConn(t) ==
  /\ clo[t] = "conn"
  /\ clo' = [clo EXCEPT ![t] = "none"]
  /\ UNCHANGED <<inq, outq, peerVars, connVars, writeVars, die, streams, recvVars, pc,
                 streamVars, histVars>>

CloseConn(t) ==
  /\ clo[t] = "conn"
  /\ connClosed' = TRUE
  /\ clo' = [clo EXCEPT ![t] = "none"]
  /\ UNCHANGED <<inq, outq, peerVars, wdl, broken, connLock, writeVars, die, streams,
                 recvVars, pc, streamVars, histVars>>

\* ConnectionManager.CloseAll, from the goroutine that fetches the users.
AdminClose ==
  /\ "admin" \in Outside /\ pc[Admin] = "none"
  /\ Goto(Admin, "end")
  /\ clo' = [clo EXCEPT ![Admin] = "once"]
  /\ UNCHANGED <<inq, outq, peerVars, connVars, writeVars, die, streams, recvVars,
                 streamVars, histVars>>

-----------------------------------------------------------------------------
(* The receive loop: Session.recvLoop.                                     *)

\* The loop is about to read a frame, its last write having succeeded.
Reading == pc[Recv] = "run" /\ Idle(Recv) /\ res[Recv] = "ok"

\* There is a frame.  What has arrived may still be read from the connection's
\* buffers after it was closed.
Incoming(cmd) ==
  /\ Reading
  /\ inq # <<>> /\ Head(inq).cmd = cmd
  /\ inq' = Tail(inq)

RecvPSH ==
  /\ Incoming("PSH")
  /\ IF Head(inq).sid \in streams
     THEN Goto(Recv, "push") /\ tgt' = Head(inq).sid
     ELSE UNCHANGED <<pc, tgt>>
  /\ UNCHANGED <<outq, peerVars, connVars, writeVars, closeVars, streams, settings, v2,
                 streamVars, histVars>>

\* Faulty variant: the pipe has no bound.
BadRecvPush ==
  /\ pc[Recv] = "push"
  /\ pipeN' = [pipeN EXCEPT ![tgt] = @ + 1]
  /\ Goto(Recv, "run") /\ tgt' = NoSid
  /\ UNCHANGED <<inq, outq, peerVars, connVars, writeVars, closeVars, streams, settings, v2,
                 dead, remote, histVars>>

\* stream.pipeW.Write: blocks while the pipe is full, and its error is ignored.
\* A write that found the pipe open may still append to it once it is closed.
RecvPush ==
  /\ pc[Recv] = "push"
  /\ \/ pipeN[tgt] < PipeCap /\ pipeN' = [pipeN EXCEPT ![tgt] = @ + 1]
     \/ dead[tgt] /\ pipeN' = pipeN
  /\ Goto(Recv, "run") /\ tgt' = NoSid
  /\ UNCHANGED <<inq, outq, peerVars, connVars, writeVars, closeVars, streams, settings, v2,
                 dead, remote, histVars>>

\* A SYN before the settings is answered with an alert and ends the loop.
RecvSYNEarly ==
  /\ Incoming("SYN") /\ ~settings
  /\ StartWrite(Recv, Frame("Alert", NoSid))
  /\ Goto(Recv, "return")
  /\ UNCHANGED <<outq, peerVars, connVars, closeVars, streams, recvVars, streamVars, histVars>>

\* A new stream gets its handler at once; whether the session is closed is
\* not looked at.
RecvSYN ==
  /\ Incoming("SYN") /\ settings
  /\ LET s == Head(inq).sid IN
     IF s \in streams
     THEN UNCHANGED <<streams, pc, late>>
     ELSE /\ streams' = streams \cup {s}
          /\ Goto(Main(s), "addr")
          /\ late' = IF Swept THEN late \cup {s} ELSE late
  /\ UNCHANGED <<outq, peerVars, connVars, writeVars, closeVars, recvVars, streamVars, fins>>

\* Faulty variant: the stream leaves the map and is not closed.
BadRecvFIN ==
  /\ Incoming("FIN")
  /\ streams' = streams \ {Head(inq).sid}
  /\ UNCHANGED <<outq, peerVars, connVars, writeVars, closeVars, recvVars, pc, streamVars,
                 histVars>>

\* The stream leaves the map first and is closed after the unlock.
RecvFIN ==
  /\ Incoming("FIN")
  /\ LET s == Head(inq).sid IN
     /\ streams' = streams \ {s}
     /\ IF s \in streams
        THEN Goto(Recv, "fin") /\ tgt' = s
        ELSE UNCHANGED <<pc, tgt>>
  /\ UNCHANGED <<outq, peerVars, connVars, writeVars, closeVars, settings, v2, streamVars,
                 histVars>>

\* closeLocally: no FIN goes back.
RecvFINClose ==
  /\ pc[Recv] = "fin"
  /\ dead' = [dead EXCEPT ![tgt] = TRUE]
  /\ Goto(Recv, "run") /\ tgt' = NoSid
  /\ UNCHANGED <<inq, outq, peerVars, connVars, writeVars, closeVars, streams, settings, v2,
                 pipeN, remote, histVars>>

RecvHeart ==
  /\ Incoming("Heart")
  /\ StartWrite(Recv, Frame("HeartResponse", NoSid))
  /\ UNCHANGED <<outq, peerVars, connVars, closeVars, streams, recvVars, pc, streamVars,
                 histVars>>

\* The settings: a new padding scheme is sent if the peer's differs, and the
\* server's settings if the peer speaks version 2 or later.  A padding factory is
\* always there: UpdatePaddingScheme stores none that is nil.
RecvSettings ==
  /\ Incoming("Settings")
  /\ settings' = TRUE
  /\ \/ "stale" \in Schemes /\ StartWrite(Recv, Frame("UpdatePadding", NoSid))
     \/ "same" \in Schemes /\ UNCHANGED writeVars
  /\ Goto(Recv, "version")
  /\ UNCHANGED <<outq, peerVars, connVars, closeVars, streams, v2, tgt, streamVars, histVars>>

RecvVersion ==
  /\ pc[Recv] = "version" /\ Idle(Recv) /\ res[Recv] = "ok"
  /\ Goto(Recv, "run")
  /\ \/ 1 \in Versions /\ UNCHANGED <<v2, writeVars>>
     \/ 2 \in Versions /\ v2' = TRUE /\ StartWrite(Recv, Frame("ServerSettings", NoSid))
  /\ UNCHANGED <<inq, outq, peerVars, connVars, closeVars, streams, settings, tgt,
                 streamVars, histVars>>

\* Reading or the last write has failed, or the alert is sent: defer s.Close().
RecvReturn ==
  /\ Idle(Recv)
  /\ \/ pc[Recv] \in {"run", "version"} /\ res[Recv] = "err"
     \/ Reading /\ (connClosed \/ (peerGone /\ inq = <<>>))
     \/ pc[Recv] = "return"
  /\ Goto(Recv, "end")
  /\ clo' = [clo EXCEPT ![Recv] = "once"]
  /\ UNCHANGED <<inq, outq, peerVars, connVars, writeVars, die, streams, recvVars,
                 streamVars, histVars>>

-----------------------------------------------------------------------------
(* A stream's handler: onNewStream with proxyOutboundTCPWithOutbound or    *)
(* proxyOutboundUoTWithOutbound (UDP over TCP).                            *)

handlerUnchanged == <<inq, peerVars, closeVars, recvVars, histVars>>

\* ReadAddrPort: an address to dial, that of UDP over TCP, one that is
\* malformed, or no data.
HandlerAddr(s) ==
  /\ pc[Main(s)] = "addr"
  /\ \/ /\ pipeN[s] > 0
        /\ pipeN' = [pipeN EXCEPT ![s] = @ - 1]
        /\ \E l \in {"dial", "uot", "close"} : Goto(Main(s), l)
     \/ /\ dead[s] /\ pipeN[s] = 0
        /\ pipeN' = pipeN
        /\ Goto(Main(s), "close")
  /\ UNCHANGED <<handlerUnchanged, outq, connVars, writeVars, streams, dead, remote>>

\* A peer of version 2 is told of the outcome.
Report(s, f, l) ==
  /\ IF v2 THEN StartWrite(Main(s), f) ELSE UNCHANGED writeVars
  /\ Goto(Main(s), l)

\* uot.ReadRequest: a request, or one that is malformed or does not come.
HandlerUoT(s) ==
  /\ pc[Main(s)] = "uot"
  /\ \/ /\ pipeN[s] > 0
        /\ Goto(Main(s), "dial") /\ UNCHANGED writeVars
     \/ /\ pipeN[s] > 0 \/ dead[s]
        /\ Report(s, Frame("SYNERR", s), "close")
  /\ pipeN' = [pipeN EXCEPT ![s] = IF @ > 0 THEN @ - 1 ELSE 0]
  /\ UNCHANGED <<handlerUnchanged, outq, connVars, streams, dead, remote>>

HandlerDial(s) ==
  /\ pc[Main(s)] = "dial"
  /\ \/ /\ Report(s, Frame("SYNERR", s), "close")
        /\ remote' = remote
     \/ /\ Report(s, Frame("SYNACK", s), "report")
        /\ remote' = [remote EXCEPT ![s] = "up"]
  /\ UNCHANGED <<handlerUnchanged, outq, connVars, streams, dead, pipeN>>

\* If success cannot be reported the handler returns, and the outbound
\* connection stays open.
HandlerStart(s) ==
  /\ pc[Main(s)] = "report" /\ Idle(Main(s))
  /\ IF res[Main(s)] = "err"
     THEN Goto(Main(s), "close")
     ELSE pc' = [pc EXCEPT ![Main(s)] = "up", ![Down(s)] = "copy"]
  /\ res' = [res EXCEPT ![Main(s)] = "ok"]
  /\ UNCHANGED <<handlerUnchanged, outq, connVars, w, wst, streams, streamVars>>

(* bufio.CopyConn and CopyPacketConn: two copiers, which the handler waits *)
(* for; the end of either closes both connections.                         *)

\* The upload takes what is in the pipe and writes it to the remote, without a
\* deadline: it waits for as long as the remote takes nothing.
UpRead(s) ==
  /\ pc[Main(s)] = "up" /\ pipeN[s] > 0
  /\ pipeN' = [pipeN EXCEPT ![s] = @ - 1]
  /\ Goto(Main(s), "send")
  /\ UNCHANGED <<handlerUnchanged, outq, connVars, writeVars, streams, dead, remote>>

UpSend(s) ==
  /\ pc[Main(s)] = "send"
  /\ Goto(Main(s), "up")
  /\ UNCHANGED <<handlerUnchanged, outq, connVars, writeVars, streams, streamVars>>

\* Writing to the remote fails.
UpFail(s) ==
  /\ pc[Main(s)] = "send"
  /\ remote' = [remote EXCEPT ![s] = "closed"]
  /\ Goto(Main(s), "join")
  /\ UNCHANGED <<handlerUnchanged, outq, connVars, writeVars, streams, dead, pipeN>>

\* The pipe is closed and empty: the remote is closed.
UpEnd(s) ==
  /\ pc[Main(s)] = "up" /\ dead[s] /\ pipeN[s] = 0
  /\ remote' = [remote EXCEPT ![s] = "closed"]
  /\ Goto(Main(s), "join")
  /\ UNCHANGED <<handlerUnchanged, outq, connVars, writeVars, streams, dead, pipeN>>

HandlerJoin(s) ==
  /\ pc[Main(s)] = "join" /\ pc[Down(s)] = "end"
  /\ Goto(Main(s), "close")
  /\ UNCHANGED <<handlerUnchanged, outq, connVars, writeVars, streams, streamVars>>

Copying(s) == pc[Down(s)] = "copy" /\ Idle(Down(s)) /\ res[Down(s)] = "ok"

\* Stream.Write: the stream's death is looked at before the lock is taken.
DownData(s) ==
  /\ Copying(s) /\ remote[s] = "up"
  /\ IF dead[s]
     THEN Goto(Down(s), "close") /\ UNCHANGED writeVars
     ELSE StartWrite(Down(s), Frame("PSH", s)) /\ pc' = pc
  /\ UNCHANGED <<handlerUnchanged, outq, connVars, streams, streamVars>>

\* The remote ends its stream.
DownEOF(s) ==
  /\ Copying(s) /\ remote[s] = "up"
  /\ Goto(Down(s), "close")
  /\ UNCHANGED <<handlerUnchanged, outq, connVars, writeVars, streams, streamVars>>

\* A write has failed, or the upload has closed the remote.
DownFail(s) ==
  /\ pc[Down(s)] = "copy" /\ Idle(Down(s))
  /\ res[Down(s)] = "err" \/ remote[s] = "closed"
  /\ Goto(Down(s), "close")
  /\ res' = [res EXCEPT ![Down(s)] = "ok"]
  /\ UNCHANGED <<handlerUnchanged, outq, connVars, w, wst, streams, streamVars>>

(* Stream.Close, by the handler or by the copier: t is Main(s) or Down(s). *)

\* Faulty variants: without dieOnce; no FIN.
BadStreamClose(t, s) ==
  /\ pc[t] = "close" /\ Idle(t)
  /\ dead' = [dead EXCEPT ![s] = TRUE]
  /\ Goto(t, "closed")
  /\ UNCHANGED <<handlerUnchanged, outq, connVars, writeVars, streams, pipeN, remote>>

BadStreamClosed(t, s) ==
  /\ pc[t] = "closed"
  /\ Goto(t, IF die THEN "end" ELSE "delete")
  /\ UNCHANGED <<handlerUnchanged, outq, connVars, writeVars, streams, streamVars>>

StreamClose(t, s) ==
  /\ pc[t] = "close" /\ Idle(t)
  /\ dead' = [dead EXCEPT ![s] = TRUE]
  /\ Goto(t, IF dead[s] THEN "end" ELSE "closed")
  /\ UNCHANGED <<handlerUnchanged, outq, connVars, writeVars, streams, pipeN, remote>>

\* streamClosed: a FIN, unless the session is closed.
StreamClosed(t, s) ==
  /\ pc[t] = "closed"
  /\ IF die
     THEN Goto(t, "end") /\ UNCHANGED writeVars
     ELSE Goto(t, "delete") /\ StartWrite(t, Frame("FIN", s))
  /\ UNCHANGED <<handlerUnchanged, outq, connVars, streams, streamVars>>

StreamDelete(t, s) ==
  /\ pc[t] = "delete" /\ Idle(t)
  /\ streams' = streams \ {s}
  /\ res' = [res EXCEPT ![t] = "ok"]
  /\ Goto(t, "end")
  /\ UNCHANGED <<handlerUnchanged, outq, connVars, w, wst, streamVars>>

-----------------------------------------------------------------------------
(* The peer: session.go on the client's side, and its end of the network.  *)

peerUnchanged == <<connVars, writeVars, closeVars, streams, recvVars, pc, streamVars, histVars>>

PeerSend(f) ==
  /\ ~peerGone /\ ~connClosed
  /\ Len(inq) < ConnCap
  /\ inq' = Append(inq, f)

PeerGreet ==
  /\ ~greeted /\ greeted' = TRUE
  /\ PeerSend(Frame("Settings", NoSid)) \/ inq' = inq
  /\ UNCHANGED <<outq, pst, hearts, peerGone, peerUnchanged>>

PeerSyn(s) ==
  /\ greeted /\ pst[s] = "none"
  /\ PeerSend(Frame("SYN", s))
  /\ pst' = [pst EXCEPT ![s] = "open"]
  /\ UNCHANGED <<outq, greeted, hearts, peerGone, peerUnchanged>>

\* Data may still follow the FIN: the peer's own check races with its Close.
PeerPsh(s) ==
  /\ pst[s] # "none"
  /\ PeerSend(Frame("PSH", s))
  /\ UNCHANGED <<outq, peerVars, peerUnchanged>>

PeerFin(s) ==
  /\ pst[s] = "open"
  /\ PeerSend(Frame("FIN", s))
  /\ pst' = [pst EXCEPT ![s] = "closed"]
  /\ UNCHANGED <<outq, greeted, hearts, peerGone, peerUnchanged>>

PeerHeart ==
  /\ greeted /\ hearts < MaxHearts
  /\ PeerSend(Frame("Heart", NoSid))
  /\ hearts' = hearts + 1
  /\ UNCHANGED <<outq, pst, greeted, peerGone, peerUnchanged>>

PeerRecv ==
  /\ outq # <<>> /\ ~peerGone
  /\ outq' = Tail(outq)
  /\ pst' = IF Head(outq).cmd = "FIN" THEN [pst EXCEPT ![Head(outq).sid] = "closed"] ELSE pst
  /\ UNCHANGED <<inq, greeted, hearts, peerGone, peerUnchanged>>

PeerGone ==
  /\ "gone" \in Outside /\ ~peerGone /\ peerGone' = TRUE
  /\ UNCHANGED <<inq, outq, pst, greeted, hearts, peerUnchanged>>

-----------------------------------------------------------------------------
RecvLoop ==
  \/ RecvPSH \/ RecvPush \/ RecvSYNEarly \/ RecvSYN \/ RecvFIN \/ RecvFINClose
  \/ RecvHeart \/ RecvSettings \/ RecvVersion \/ RecvReturn

WriteConn(t)    == WritePut(t) \/ WriteFail(t)
SessionClose(t) == CloseOnce(t) \/ CloseSweep(t) \/ CloseConn(t)
CloseBy(t, s)   == StreamClose(t, s) \/ StreamClosed(t, s) \/ StreamDelete(t, s)

\* What the stream's goroutines do without waiting for the remote's pleasure.
Handler(s) ==
  \/ HandlerAddr(s) \/ HandlerUoT(s) \/ HandlerDial(s) \/ HandlerStart(s)
  \/ UpRead(s) \/ UpEnd(s) \/ HandlerJoin(s) \/ CloseBy(Main(s), s)
Copier(s) == DownFail(s) \/ CloseBy(Down(s), s)

Remote(s) == UpSend(s) \/ UpFail(s) \/ DownData(s) \/ DownEOF(s)

Peer ==
  \/ PeerGreet \/ PeerHeart \/ PeerRecv \/ PeerGone
  \/ \E s \in Sids : PeerSyn(s) \/ PeerPsh(s) \/ PeerFin(s)

Next ==
  \/ \E t \in Threads : WriteLock(t) \/ WriteConn(t) \/ SessionClose(t)
  \/ AdminClose
  \/ RecvLoop
  \/ \E s \in Sids : Handler(s) \/ Copier(s) \/ Remote(s)
  \/ Peer

Spec == Init /\ [][Next]_vars

(***************************************************************************)
(* Fairness: every goroutine that can run does, and sync.Mutex starves     *)
(* nobody.  No remote has to send, to close or to take what it is sent,    *)
(* and the peer need not read.                                             *)
(***************************************************************************)
Fairness ==
  /\ \A t \in Threads : SF_vars(WriteLock(t)) /\ WF_vars(WriteConn(t)) /\ WF_vars(SessionClose(t))
  /\ WF_vars(RecvLoop)
  /\ \A s \in Sids : WF_vars(Handler(s)) /\ WF_vars(Copier(s))

FairSpec == Spec /\ Fairness

-----------------------------------------------------------------------------
(* Properties.                                                             *)

Cmds == {"Settings", "SYN", "PSH", "FIN", "Heart", "Alert", "HeartResponse", "UpdatePadding",
         "ServerSettings", "SYNACK", "SYNERR"}
Frames == [cmd : Cmds, sid : Sids \cup {NoSid}]

\* Types, and the two queues and every pipe within their capacity.
TypeOK ==
  /\ inq \in Seq(Frames) /\ Len(inq) <= ConnCap
  /\ outq \in Seq(Frames) /\ Len(outq) <= ConnCap
  /\ pst \in [Sids -> {"none", "open", "closed"}]
  /\ {greeted, peerGone, connClosed, wdl, broken, die, settings, v2} \subseteq BOOLEAN
  /\ hearts \in 0..MaxHearts
  /\ connLock \in Threads \cup {<<>>}
  /\ w \in [Threads -> Frames \cup {NoFrame}]
  /\ wst \in [Threads -> {"none", "lock", "conn"}]
  /\ res \in [Threads -> {"ok", "err"}]
  /\ clo \in [Threads -> {"none", "once", "sweep", "conn"}]
  /\ streams \subseteq Sids /\ late \subseteq Sids /\ tgt \in Sids \cup {NoSid}
  /\ pc[Recv] \in {"run", "push", "fin", "version", "return", "end"}
  /\ pc[Admin] \in {"none", "end"}
  /\ \A s \in Sids :
       /\ pc[Main(s)] \in {"none", "addr", "uot", "dial", "report", "up", "send",
                           "join", "close", "closed", "delete", "end"}
       /\ pc[Down(s)] \in {"none", "copy", "close", "closed", "delete", "end"}
  /\ dead \in [Sids -> BOOLEAN]
  /\ pipeN \in [Sids -> 0..PipeCap]
  /\ remote \in [Sids -> {"none", "up", "closed"}]
  /\ fins \in [Sids -> Nat]

Started(s) == pc[Main(s)] # "none"

\* The receive loop has taken s out of the map and is about to close it.
BeingClosed(s) == pc[Recv] = "fin" /\ tgt = s

\* A stream whose handler runs and that is not closed is in s.streams, where a
\* FIN, data and Close find it, or the receive loop is about to close it.
LiveStreamReachable ==
  \A s \in Sids : Started(s) /\ ~dead[s] => s \in streams \/ BeingClosed(s)

\* The thread t has closed the stream, and has not sent its FIN yet.
Owes(t) == pc[t] = "closed" \/ (pc[t] = "delete" /\ ~Idle(t))

ServerEnd(s) ==
  IF ~Started(s) THEN "none" ELSE IF ~dead[s] THEN "open"
  ELSE IF Owes(Main(s)) \/ Owes(Down(s)) THEN "ending" ELSE "ended"

\* Who ends a stream decides whether the peer gets a FIN: one from the server's
\* Close, none after the peer's own or after Session.Close (stream.go:72-104,
\* session.go:127-132, 249-256, 361-370).
Life == INSTANCE StreamLife WITH
  closed <- die, peer <- pst, server <- [s \in Sids |-> ServerEnd(s)], told <- fins

ImplementsStreamLife == Life!Spec

\* A data frame is never written under the deadline of a control frame: the
\* leak session_test.go:114-208 guards against.
NoDeadlineOnDataWrite ==
  \A t \in Threads : wst[t] = "conn" /\ w[t].cmd = "PSH" => ~wdl

\* A handler leaves an outbound connection open only in a session that is
\* closed (session.go:408-411): proxyOutboundTCPWithOutbound returns without
\* closing it when success cannot be reported (outbound_tcp.go:21-24), and
\* nothing closes it later.
OutboundReleased ==
  \A s \in Sids : pc[Main(s)] = "end" /\ remote[s] = "up" => die

\* The receive loop waits at the full pipe of a stream accepted after Close had
\* emptied the map, whose handler waits for the remote.
Wedged ==
  pc[Recv] = "push" /\ tgt \in late /\ ~dead[tgt] /\ pc[Main(tgt)] = "send"

\* Once a session is closed its receive loop ends (session.go:115-137, 181), even
\* if the peer has stopped reading, a write without a deadline hangs, or remotes
\* take nothing.  The one exception is a loop that waits at the pipe of a stream
\* it accepted after the sweep, which no Close will reach (session.go:202, 215).
RecvLoopEnds == <>[](die => pc[Recv] = "end" \/ Wedged)

Ended(s) == pc[Main(s)] = "end" /\ pc[Down(s)] \in {"none", "end"}

\* A stream accepted after Close had emptied the map, whose handler waits for
\* data that nobody will send and for a close that nobody will call.
Stranded(s) ==
  s \in late /\ ~dead[s] /\ pipeN[s] = 0 /\ pc[Main(s)] \in {"addr", "uot", "up"}

\* Once a session is closed the handler and the copier of a stream end for good,
\* whether or not the peer reads (session.go:127-132), if the remote takes what
\* the upload writes or refuses it: CopyConn sets no deadline on that write
\* (outbound_tcp.go:26).  The one exception is a stream that recvLoop accepted
\* after the sweep of the map (session.go:215-226) and that waits for data.
HandlersEnd ==
  \A s \in Sids : WF_vars(UpSend(s) \/ UpFail(s)) =>
    <>[](die /\ Started(s) => Ended(s) \/ Stranded(s))

\* When the server closes a stream, a peer that reads what it is sent comes to
\* know it, as long as the session lives (stream.go:102, session.go:361-370).
PeerLearnsClose ==
  WF_vars(PeerRecv) =>
    \A s \in Sids : dead[s] ~> pst[s] = "closed" \/ die \/ peerGone
=============================================================================
