----------------------------- MODULE ClientPool -----------------------------
(***************************************************************************)
(* The client's sessions and their pool: Client of session/client.go, the  *)
(* client's half of session/session.go, the streams of session/stream.go   *)
(* and the watchdog of util/deadline.go.                                   *)
(*                                                                         *)
(* Threads: the callers of CreateStream, who then use and close the stream *)
(* they get; the receive loop of each session; Client.Close; the idle      *)
(* cleanup; watchdogs; and goroutines that only close a session.  The      *)
(* server is this repository's: it answers a stream (SYNACK, an error,     *)
(* FIN) only after the first data on it.  A write of a frame may fail;     *)
(* connLock and data are module Session's matter.                          *)
(*                                                                         *)
(* A step ends where another thread can make a difference: before a check  *)
(* of die, of the client's context or of a map, and before a lock, unless  *)
(* what lies between commutes with every step of the others.               *)
(***************************************************************************)
EXTENDS Naturals, FiniteSets

CONSTANTS
  Callers,      \* goroutines that call CreateStream
  MaxSessions,  \* bound on the sessions dialed
  MaxStreams,   \* bound on the streams opened
  MaxFaults,    \* bound on the writes and connections that fail
  MinIdle       \* Client.minIdleSession

Sessions == 1..MaxSessions  \* Session.seq
Sids     == 1..MaxStreams

Recv(x) == <<"recv", x>>
Closer  == <<"closer", 0>>
Cleaner == <<"cleaner", 0>>
Other   == <<"other", 0>>   \* a watchdog, or the goroutine of a dieHook
Nobody  == <<"nobody", 0>>
Loops   == {Recv(x) : x \in Sessions}
Threads == Callers \cup Loops

ASSUME ClientPoolAssumption ==
  /\ MaxSessions \in Nat /\ MaxStreams \in Nat /\ MinIdle \in Nat
  /\ MaxFaults \in Nat
  /\ Callers \cap (Loops \cup {Closer, Cleaner, Other, Nobody}) = {}

VARIABLES
  cdie,      \* Client.die is done
  counter,   \* Client.sessionCounter
  idle,      \* Client.idleSession
  sessions,  \* Client.sessions
  taken,     \* Client.Close has emptied Client.sessions
  todo,      \* sessions Client.Close has still to close
  expired,   \* sessions the cleanup has still to close
  reap,      \* sessions a dieHook's goroutine is about to close
  die,       \* sessions whose Session.die is closed
  cl,        \* progress of Session.Close: "no", "hook", "sweep", "done"
  by,        \* the thread that runs Session.Close, or Nobody
  flushed,   \* sessions whose settings have been written
  v2,        \* sessions with peerVersion >= 2
  lastSid,   \* Session.streamId
  synDone,   \* the stream whose watchdog Session.synDone stops, or 0
  wd,        \* the watchdog of each stream: "off", "armed", "fired"
  streams,   \* keys of Session.streams
  str,       \* each stream: "none", "made" (no dieHook yet), "live", "used" (data on
             \* it has been sent), "dead"
  owed,      \* streams the server may still answer with a SYNACK
  pc,        \* where each thread is
  sess, sid, \* the session and the stream it works on
  faults     \* failures so far

clientVars == <<cdie, counter, idle, sessions>>
closeVars  == <<die, cl, by, todo, expired, reap, synDone, wd>>
sessVars   == <<flushed, v2, lastSid>>
streamVars == <<streams, str, owed>>
callVars   == <<pc, sess, sid>>
vars == <<clientVars, taken, closeVars, sessVars, streamVars, callVars, faults>>

PerStream(v) == [x \in Sessions |-> [n \in Sids |-> v]]

Init ==
  /\ cdie = FALSE /\ counter = 0 /\ idle = {} /\ sessions = {}
  /\ taken = FALSE /\ todo = {} /\ expired = {} /\ reap = {}
  /\ die = {} /\ cl = [x \in Sessions |-> "no"] /\ by = [x \in Sessions |-> Nobody]
  /\ flushed = {} /\ v2 = {}
  /\ lastSid = [x \in Sessions |-> 0] /\ synDone = [x \in Sessions |-> 0]
  /\ wd = PerStream("off") /\ str = PerStream("none")
  /\ streams = [x \in Sessions |-> {}] /\ owed = [x \in Sessions |-> {}]
  /\ pc = [t \in Threads |-> IF t \in Callers THEN "idle" ELSE "none"]
  /\ sess = [t \in Threads |-> 0]
  /\ sid = [t \in Threads |-> 0]
  /\ faults = 0

Goto(t, l) == pc' = [pc EXCEPT ![t] = l]

\* A caller returns, with its stream closed or without one; the receive loop
\* goes on reading.
GoHome(t) ==
  /\ Goto(t, IF t \in Callers THEN "idle" ELSE "run")
  /\ sess' = IF t \in Callers THEN [sess EXCEPT ![t] = 0] ELSE sess
  /\ sid' = [sid EXCEPT ![t] = 0]

\* A thread is at its own code: it runs no Session.Close.
Free(t) == \A x \in Sessions : by[x] # t

At(t, l) == pc[t] = l /\ Free(t)

-----------------------------------------------------------------------------
(* Session.Close: only the first call goes beyond dieOnce.  Whoever else   *)
(* would have closed the session has nothing left to do: it is struck from *)
(* their lists, and its watchdogs are forgotten.                           *)

StartClose(x, t) ==
  IF x \in die
  THEN UNCHANGED closeVars
  ELSE /\ die' = die \cup {x}
       /\ cl' = [cl EXCEPT ![x] = "hook"]
       /\ by' = [by EXCEPT ![x] = t]
       /\ todo' = todo \ {x} /\ expired' = expired \ {x} /\ reap' = reap \ {x}
       /\ synDone' = [synDone EXCEPT ![x] = 0]
       /\ wd' = [wd EXCEPT ![x] = [n \in Sids |-> "off"]]

\* The hook of createSession: out of the pool, then out of the client's map,
\* where nobody but Client.Close would look for it.
CloseHook(x) ==
  /\ cl[x] = "hook"
  /\ idle' = idle \ {x}
  /\ sessions' = sessions \ {x}
  /\ cl' = [cl EXCEPT ![x] = "sweep"]
  /\ UNCHANGED <<cdie, counter, taken, die, by, todo, expired, reap, synDone, wd, sessVars,
                 streamVars, callVars, faults>>

\* closeLocally on every stream of the map, whose dieHooks see a closed
\* session; then the connection.
CloseSweep(x) ==
  /\ cl[x] = "sweep"
  /\ str' = [str EXCEPT ![x] = [n \in Sids |-> IF n \in streams[x] THEN "dead" ELSE @[n]]]
  /\ streams' = [streams EXCEPT ![x] = {}]
  /\ cl' = [cl EXCEPT ![x] = "done"]
  /\ by' = [by EXCEPT ![x] = Nobody]
  /\ owed' = [owed EXCEPT ![x] = {}]
  /\ UNCHANGED <<clientVars, taken, die, todo, expired, reap, synDone, wd, sessVars, callVars,
                 faults>>

SessionClose(x) == CloseHook(x) \/ CloseSweep(x)

\* A frame can be written as long as the connection is open, and may always
\* fail; a control frame that fails closes the session.
CanWrite(x) == cl[x] # "done"

Fault == faults < MaxFaults /\ faults' = faults + 1

\* A write that fails on a session that is being closed is nobody's fault.
Fails(x) == IF x \in die THEN faults' = faults ELSE Fault

-----------------------------------------------------------------------------
(* Client.CreateStream.                                                    *)

\* The newest session of the pool: the skip list is keyed by the complement.
Newest(S) == CHOOSE x \in S : \A y \in S : y <= x

Create(c) ==
  /\ At(c, "idle") /\ ~cdie
  /\ Goto(c, "get")
  /\ UNCHANGED <<clientVars, taken, closeVars, sessVars, streamVars, sess, sid, faults>>

\* Faulty variant: the session stays in the pool.
BadGetIdle(c) ==
  /\ At(c, "get")
  /\ IF idle = {}
     THEN Goto(c, "dial") /\ UNCHANGED <<idle, sess>>
     ELSE /\ sess' = [sess EXCEPT ![c] = Newest(idle)]
          /\ idle' = idle
          /\ Goto(c, "open")
  /\ UNCHANGED <<cdie, counter, sessions, taken, closeVars, sessVars, streamVars, sid, faults>>

GetIdle(c) ==
  /\ At(c, "get")
  /\ IF idle = {}
     THEN Goto(c, "dial") /\ UNCHANGED <<idle, sess>>
     ELSE /\ sess' = [sess EXCEPT ![c] = Newest(idle)]
          /\ idle' = idle \ {Newest(idle)}
          /\ Goto(c, "open")
  /\ UNCHANGED <<cdie, counter, sessions, taken, closeVars, sessVars, streamVars, sid, faults>>

DialFail(c) ==
  /\ At(c, "dial")
  /\ Goto(c, "idle")
  /\ UNCHANGED <<clientVars, taken, closeVars, sessVars, streamVars, sess, sid, faults>>

\* Faulty variant: the number is read before it is incremented.
BadCreateSession(c) ==
  /\ At(c, "dial") /\ counter < MaxSessions
  /\ counter' = counter + 1
  /\ sess' = [sess EXCEPT ![c] = counter, ![Recv(counter')] = counter']
  /\ sessions' = sessions \cup {counter}
  /\ pc' = [pc EXCEPT ![c] = "open", ![Recv(counter')] = "run"]
  /\ UNCHANGED <<cdie, idle, taken, closeVars, sessVars, streamVars, sid, faults>>

\* The session enters the client's map, even after Client.Close has emptied
\* it.  Session.Run: the settings wait in the buffer, the receive loop starts.
CreateSession(c) ==
  /\ At(c, "dial") /\ counter < MaxSessions
  /\ counter' = counter + 1
  /\ sess' = [sess EXCEPT ![c] = counter', ![Recv(counter')] = counter']
  /\ sessions' = sessions \cup {counter'}
  /\ pc' = [pc EXCEPT ![c] = "open", ![Recv(counter')] = "run"]
  /\ UNCHANGED <<cdie, idle, taken, closeVars, sessVars, streamVars, sid, faults>>

\* Calling synDone stops a watchdog that has not fired.  One whose timer has run
\* out may still close the session, whatever is called after.
Stopped(x) ==
  [n \in Sids |-> IF n = synDone[x] /\ wd[x][n] = "armed" THEN "off" ELSE wd[x][n]]

\* Faulty variant: the earlier watchdog is left to itself.
BadWatch(x, n) ==
  IF n >= 2 /\ x \in v2
  THEN /\ wd' = [wd EXCEPT ![x][n] = "armed"]
       /\ synDone' = [synDone EXCEPT ![x] = n]
  ELSE UNCHANGED <<wd, synDone>>

\* A session whose server speaks version 2 has a watchdog for every stream but
\* its first, and one at a time.
Watch(x, n) ==
  IF n >= 2 /\ x \in v2
  THEN /\ wd' = [wd EXCEPT ![x] = [Stopped(x) EXCEPT ![n] = "armed"]]
       /\ synDone' = [synDone EXCEPT ![x] = n]
  ELSE UNCHANGED <<wd, synDone>>

Opened == {s \in Sessions \X Sids : s[2] <= lastSid[s[1]]}

\* Session.OpenStream up to the SYN.
Open(c) ==
  /\ At(c, "open")
  /\ LET x == sess[c] IN
     IF x \in die
     THEN Goto(c, "fail") /\ UNCHANGED <<lastSid, wd, synDone, sid>>
     ELSE /\ Cardinality(Opened) < MaxStreams
          /\ lastSid' = [lastSid EXCEPT ![x] = @ + 1]
          /\ Watch(x, lastSid'[x])
          /\ sid' = [sid EXCEPT ![c] = lastSid'[x]]
          /\ Goto(c, "syn")
  /\ UNCHANGED <<clientVars, taken, die, cl, by, todo, expired, reap, flushed, v2, streamVars, sess,
                 faults>>

\* Session.OpenStream from the SYN on: the first SYN waits in the buffer behind
\* the settings; unless the session is closed the stream enters the map.
Syn(c) ==
  /\ At(c, "syn")
  /\ LET x == sess[c] n == sid[c] IN
     \/ /\ n = 1 \/ CanWrite(x)
        /\ flushed' = IF n = 1 THEN flushed ELSE flushed \cup {x}
        /\ IF x \in die
           THEN Goto(c, "fail") /\ UNCHANGED <<streams, str>>
           ELSE /\ streams' = [streams EXCEPT ![x] = @ \cup {n}]
                /\ str' = [str EXCEPT ![x][n] = "made"]
                /\ Goto(c, "sethook")
        /\ UNCHANGED <<closeVars, faults>>
     \/ /\ n > 1 /\ Fails(x)
        /\ StartClose(x, c)
        /\ Goto(c, "fail")
        /\ UNCHANGED <<flushed, streams, str>>
  /\ UNCHANGED <<clientVars, taken, v2, lastSid, owed, sess, sid>>

\* Session.Close may have closed the stream before it has its hook.
SetHook(c) ==
  /\ At(c, "sethook")
  /\ str' = [str EXCEPT ![sess[c]][sid[c]] = IF @ = "made" THEN "live" ELSE @]
  /\ Goto(c, "use")
  /\ UNCHANGED <<clientVars, taken, closeVars, sessVars, streams, owed, sess, sid, faults>>

\* CreateStream closes the session; OpenStream fails only on a session that is
\* closed, or whose SYN could not be written, so this changes nothing.
CreateFail(c) ==
  /\ At(c, "fail")
  /\ StartClose(sess[c], c)
  /\ GoHome(c)
  /\ UNCHANGED <<clientVars, taken, sessVars, streamVars, faults>>

-----------------------------------------------------------------------------
(* The stream: data, and its end by the caller or by the receive loop.     *)

\* The first data: from now on the server may answer.
Send(c) ==
  /\ At(c, "use")
  /\ LET x == sess[c] n == sid[c] IN
     /\ str[x][n] = "live" /\ CanWrite(x)
     /\ str' = [str EXCEPT ![x][n] = "used"]
     /\ owed' = [owed EXCEPT ![x] = @ \cup {n}]
     /\ flushed' = flushed \cup {x}
  /\ UNCHANGED <<clientVars, taken, closeVars, v2, lastSid, streams, callVars, faults>>

\* Stream.closeWithError goes on to send a FIN; closeLocally does not: so the
\* receive loop closes ("drop") a stream the server has closed.
AfterHook(t) ==
  IF pc[t] \in {"drop", "drop insert"}
  THEN GoHome(t)
  ELSE Goto(t, "fin") /\ UNCHANGED <<sess, sid>>

ToInsert(t) ==
  /\ Goto(t, IF pc[t] = "drop" THEN "drop insert" ELSE "insert")
  /\ UNCHANGED <<sess, sid>>

\* Faulty variant: the pool of a closed client is filled.
BadStreamHook(t) ==
  IF sess[t] \in die THEN reap' = reap /\ AfterHook(t) ELSE reap' = reap /\ ToInsert(t)

\* The hook of CreateStream looks at the session and at the client, and then
\* puts the session into the pool, if neither was closed when it looked.
StreamHook(t) ==
  IF sess[t] \in die
  THEN reap' = reap /\ AfterHook(t)
  ELSE IF cdie
       THEN reap' = reap \cup {sess[t]} /\ AfterHook(t)
       ELSE reap' = reap /\ ToInsert(t)

\* dieOnce: the first to close the stream runs its hook.
StreamClose(t) ==
  /\ At(t, "use") \/ At(t, "kill") \/ At(t, "drop")
  /\ LET x == sess[t] n == sid[t] IN
     IF str[x][n] = "dead"
     THEN GoHome(t) /\ UNCHANGED <<str, reap>>
     ELSE /\ str' = [str EXCEPT ![x][n] = "dead"]
          /\ StreamHook(t)
  /\ UNCHANGED <<clientVars, taken, die, cl, by, todo, expired, synDone, wd, sessVars, streams, owed,
                 faults>>

HookInsert(t) ==
  /\ At(t, "insert") \/ At(t, "drop insert")
  /\ idle' = idle \cup {sess[t]}
  /\ AfterHook(t)
  /\ UNCHANGED <<cdie, counter, sessions, taken, closeVars, sessVars, streamVars, faults>>

\* Session.streamClosed: a FIN, and out of the map.
StreamFin(t) ==
  /\ At(t, "fin")
  /\ LET x == sess[t] IN
     IF x \in die
     THEN UNCHANGED <<streams, flushed, closeVars, faults>>
     ELSE /\ streams' = [streams EXCEPT ![x] = @ \ {sid[t]}]
          /\ \/ CanWrite(x) /\ flushed' = flushed \cup {x} /\ UNCHANGED <<closeVars, faults>>
             \/ Fails(x) /\ StartClose(x, t) /\ flushed' = flushed
  /\ GoHome(t)
  /\ UNCHANGED <<clientVars, taken, v2, lastSid, str, owed>>

-----------------------------------------------------------------------------
(* The receive loop of session x: Session.recvLoop on the client's side.   *)

\* What the loop still reads between the closing of die and that of the
\* connection ends streams the sweep ends too: left out.
Reading(x) == At(Recv(x), "run") /\ x \notin die

RecvSettings(x) ==
  /\ Reading(x) /\ x \in flushed
  /\ v2' = v2 \cup {x}
  /\ UNCHANGED <<clientVars, taken, closeVars, flushed, lastSid, streamVars, callVars, faults>>

\* A SYNACK, of whatever stream, stops the watchdog of the newest one.
Acked(x, n) ==
  /\ Reading(x) /\ x \in v2 /\ n \in owed[x]
  /\ owed' = [owed EXCEPT ![x] = @ \ {n}]
  /\ wd' = [wd EXCEPT ![x] = Stopped(x)]
  /\ synDone' = [synDone EXCEPT ![x] = 0]
  /\ UNCHANGED <<die, cl, by, todo, expired, reap>>

RecvSynAck(x, n) ==
  /\ Acked(x, n)
  /\ UNCHANGED <<clientVars, taken, sessVars, streams, str, callVars, faults>>

\* With an error in it, it closes the stream, if the map has it.
RecvSynErr(x, n) ==
  /\ Acked(x, n) /\ n \in streams[x]
  /\ Goto(Recv(x), "kill")
  /\ sid' = [sid EXCEPT ![Recv(x)] = n]
  /\ UNCHANGED <<clientVars, taken, sessVars, streams, str, sess, faults>>

\* FIN of a stream in use; that of another one has nothing to close.
RecvFin(x, n) ==
  /\ Reading(x) /\ x \in v2 /\ str[x][n] = "used"
  /\ streams' = [streams EXCEPT ![x] = @ \ {n}]
  /\ owed' = [owed EXCEPT ![x] = @ \ {n}]
  /\ Goto(Recv(x), "drop")
  /\ sid' = [sid EXCEPT ![Recv(x)] = n]
  /\ UNCHANGED <<clientVars, taken, closeVars, sessVars, str, sess, faults>>

\* Reading fails, or an alert has come: defer s.Close().  The end of a loop
\* whose session is closed already changes nothing.
RecvEnd(x) ==
  /\ Reading(x) /\ Fault
  /\ StartClose(x, Recv(x))
  /\ UNCHANGED <<clientVars, taken, sessVars, streamVars, callVars>>

-----------------------------------------------------------------------------
(* The watchdog of a stream: its goroutine selects between the timer and   *)
(* done.  If both are ready it may take either, so WatchdogFire stands for *)
(* a timer that runs out and that the select will take.                    *)

WatchdogFire(x, n) ==
  /\ wd[x][n] = "armed"
  /\ wd' = [wd EXCEPT ![x][n] = "fired"]
  /\ UNCHANGED <<clientVars, taken, die, cl, by, todo, expired, reap, synDone, sessVars, streamVars,
                 callVars, faults>>

WatchdogClose(x, n) ==
  /\ wd[x][n] = "fired"
  /\ StartClose(x, Other)
  /\ UNCHANGED <<clientVars, taken, sessVars, streamVars, callVars, faults>>

-----------------------------------------------------------------------------
(* Client.Close, the idle cleanup, and the goroutines of the hooks.        *)

\* The parent context is cancelled, or Client.Close cancels it.
ContextDone ==
  /\ ~cdie /\ cdie' = TRUE
  /\ UNCHANGED <<counter, idle, sessions, taken, closeVars, sessVars, streamVars, callVars, faults>>

\* The rest of Client.Close: the map, and then one session after the other.
ClientSnapshot ==
  /\ cdie /\ ~taken
  /\ todo' = sessions \ die /\ sessions' = {} /\ taken' = TRUE
  /\ UNCHANGED <<cdie, counter, idle, die, cl, by, expired, reap, synDone, wd, sessVars, streamVars,
                 callVars, faults>>

ClientCloseNext ==
  /\ Free(Closer)
  /\ \E x \in todo : StartClose(x, Closer)
  /\ UNCHANGED <<clientVars, taken, sessVars, streamVars, callVars, faults>>

\* The scan runs from the newest session to the oldest, and keeps the first
\* minIdleSession whatever their age.
Kept(x) == Cardinality({y \in idle : y > x}) < MinIdle

\* S: the sessions idle for longer than the timeout.
Cleanup(S) ==
  /\ expired = {} /\ Free(Cleaner)
  /\ LET out == {x \in S : ~Kept(x)} IN
     /\ idle' = idle \ out
     /\ expired' = out \ die
  /\ UNCHANGED <<cdie, counter, sessions, taken, die, cl, by, todo, reap, synDone, wd, sessVars,
                 streamVars, callVars, faults>>

CleanupClose ==
  /\ expired # {} /\ Free(Cleaner)
  /\ StartClose(Newest(expired), Cleaner)
  /\ UNCHANGED <<clientVars, taken, sessVars, streamVars, callVars, faults>>

Reap(x) ==
  /\ x \in reap
  /\ StartClose(x, Other)
  /\ UNCHANGED <<clientVars, taken, sessVars, streamVars, callVars, faults>>

-----------------------------------------------------------------------------
CreateStream(c) ==
  \/ Create(c) \/ GetIdle(c) \/ DialFail(c) \/ CreateSession(c)
  \/ Open(c) \/ Syn(c) \/ SetHook(c) \/ CreateFail(c)

StreamEnd(t) == StreamClose(t) \/ HookInsert(t) \/ StreamFin(t)

RecvLoop(x) ==
  \/ RecvSettings(x) \/ RecvEnd(x)
  \/ \E n \in Sids : RecvSynAck(x, n) \/ RecvSynErr(x, n) \/ RecvFin(x, n)

Tasks ==
  \/ ContextDone \/ ClientSnapshot \/ ClientCloseNext
  \/ CleanupClose
  \/ \E S \in SUBSET idle : Cleanup(S)

Next ==
  \/ \E c \in Callers : CreateStream(c) \/ Send(c)
  \/ \E t \in Threads : StreamEnd(t)
  \/ \E x \in Sessions :
        \/ RecvLoop(x) \/ SessionClose(x) \/ Reap(x)
        \/ \E n \in Sids : WatchdogFire(x, n) \/ WatchdogClose(x, n)
  \/ Tasks

Spec == Init /\ [][Next]_vars

-----------------------------------------------------------------------------
(* Properties.                                                             *)

TypeOK ==
  /\ {cdie, taken} \subseteq BOOLEAN /\ counter \in 0..MaxSessions
  /\ {idle, sessions, todo, expired, reap, die, flushed, v2} \subseteq SUBSET Sessions
  /\ cl \in [Sessions -> {"no", "hook", "sweep", "done"}]
  /\ by \in [Sessions -> Threads \cup {Closer, Cleaner, Other, Nobody}]
  /\ lastSid \in [Sessions -> 0..MaxStreams] /\ synDone \in [Sessions -> 0..MaxStreams]
  /\ wd \in [Sessions -> [Sids -> {"off", "armed", "fired"}]]
  /\ streams \in [Sessions -> SUBSET Sids]
  /\ str \in [Sessions -> [Sids -> {"none", "made", "live", "used", "dead"}]]
  /\ owed \in [Sessions -> SUBSET Sids]
  /\ \A c \in Callers :
       pc[c] \in {"idle", "get", "dial", "open", "syn", "sethook", "use", "fail", "insert", "fin"}
  /\ \A x \in Sessions :
       pc[Recv(x)] \in {"none", "run", "kill", "drop", "insert", "drop insert", "fin"}
  /\ faults \in 0..MaxFaults
  /\ sess \in [Threads -> 0..MaxSessions] /\ sid \in [Threads -> 0..MaxStreams]

Live(x) == {n \in Sids : str[x][n] \in {"made", "live", "used"}}

\* A session has one stream at a time, comes back to the pool when that stream
\* is over, and is not used again once it is closed (client.go:70-132).
Pool == INSTANCE SessionPool WITH
  state <- [x \in Sessions |-> IF x \in die THEN "closed"
                               ELSE IF x \in idle THEN "idle"
                               ELSE IF x <= counter THEN "leased" ELSE "none"],
  live  <- [x \in Sessions |-> Live(x)]

ImplementsPool == Pool!Spec

\* A caller is about to open a stream on the session, or to close the session.
Opening(x) ==
  \E c \in Callers : sess[c] = x /\ pc[c] \in {"open", "syn", "fail"}

\* Its last stream is over, and whoever closed it is about to put it back.
Ending(x) == \E t \in Threads : sess[t] = x /\ pc[t] \in {"insert", "drop insert"}

\* No session is lost: one that is open is in use, or in the pool of a client
\* that is not closed, or somebody is about to close it (client.go:70-180).
NoSessionLost ==
  \A x \in 1..counter \ die :
    \/ Opening(x) \/ Live(x) # {} \/ Ending(x)
    \/ x \in idle /\ ~taken
    \/ x \in todo \cup expired \cup reap

\* No watchdog is left to itself: one that is neither stopped nor past its timer
\* is the one synDone stops, the newest stream's, and no SYNACK for that stream
\* has come (session.go:146-156, 228-234).  One that is past its timer closes the
\* session whatever comes between, a SYNACK or another stream included
\* (deadline.go:13-16): of it nothing is said here.
ArmedIsNewest ==
  \A x \in Sessions, n \in Sids :
    wd[x][n] = "armed" =>
      /\ n = synDone[x] /\ n = lastSid[x]
      /\ str[x][n] = "used" /\ n \in streams[x] => n \in owed[x]
=============================================================================
